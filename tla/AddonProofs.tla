------------------------------ MODULE AddonProofs ------------------------------
(***************************************************************************)
(* The add-on controller, for every number of add-ons, goroutines,         *)
(* versions, retries, edits and faults: phases keep their order, and what  *)
(* is deployed is on the cluster.                                          *)
(*                                                                         *)
(* Neither is inductive: goroutines that nobody waits for write what they  *)
(* computed from copies.  Within the first use of a name the versions of   *)
(* an add-on have an order, a copy is never ahead of what it was copied    *)
(* from, and each version is handed out by the queue once.  That is what   *)
(* keeps two goroutines from doing the same.                               *)
(***************************************************************************)
EXTENDS AddonController, TLAPS

Judges == {"check", "upgrade", "watch"}
Building == Parts \cup {"rollback"}
Grown == Deployed \cup {"Failed"}

(* The name has been given to one add-on at most, and is. *)
First(a) == addons[a].uid <= 1

Unhurried == "overlap" \notin happened
Unedited == "edit" \notin happened

(* Installed once, or gone. *)
Past(o) == o.uid > 0 /\ o.phase \notin {"Initializing", "Reinitializing"}

(* Of two versions of an add-on in the first use of its name, o is not the  *)
(* later one.                                                               *)
Before(o, p) ==
    /\ o.uid <= p.uid
    /\ Past(o) => Past(p)
    /\ o.uid > 0 /\ o.phase = "Absent" => p.phase = "Absent"
    /\ o.phase = "Reinitializing" =>
          /\ p.phase # "Initializing"
          /\ p.phase = "Reinitializing" => o.retries <= p.retries

Sane(o) ==
    /\ o.phase # "Absent" => o.uid > 0
    /\ o.phase = "Initializing" => o.have = 0

(* Without edits the version that is wanted is the one there is, and        *)
(* nothing is upgraded.                                                     *)
Steady(o) == o.phase \notin {"Absent", "Initializing"} => o.have = o.want /\ o.phase # "Upgrading"
SameWant(o, p) == o.phase # "Absent" /\ p.phase # "Absent" => o.want = p.want

Works(t, a) == run[t].at # "idle" /\ run[t].of = a
Does(t, a, job) == Works(t, a) /\ run[t].job = job

(* The queue or a worker has the key. *)
Stirring(a) == a \in dirty \/ run[a].at # "idle"

------------------------------------------------------------------------------
(* What an actor in state s may rely on.                                    *)

WorkerForm(s) ==
    /\ s.at \in Parts \cup {"remove", "persist"}
    /\ s.at = "remove" => s.job = "drop"
    /\ s.at \in Parts => s.job = "install"
    /\ s.at = "persist" => s.job \in {"install", "start upgrade"}
    /\ s.job = "install" => s.obj.phase = "Initializing"
    /\ s.job = "install" /\ s.at = "persist" =>
          /\ s.new.have = s.new.want
          /\ s.new.phase = "Checking" \/ (s.new.phase = "Reinitializing" /\ s.new.retries = 1)
    /\ s.job = "start upgrade" =>
          /\ s.obj.phase = "Running" /\ s.obj.want # s.obj.have
          /\ s.new.have = s.obj.have /\ s.new.phase = "Upgrading"

TaskForm(s) ==
    /\ s.of \in Addons
    /\ s.at \in Building \cup {"look", "persist", "end"}
    /\ s.job \in Judges \cup {"reinit"}
    /\ s.at \in Building => s.job = "reinit"
    /\ s.at \in {"look", "end"} => s.job \in Judges
    /\ s.job = "reinit" => s.obj.phase = "Reinitializing"
    /\ s.at = "persist" =>
          /\ s.obj.phase # "Absent"
          /\ (s.job = "upgrade" /\ s.new.phase = "Checking") \/ s.new.have = s.obj.have
          /\ s.job = "reinit" =>
                /\ s.new.phase \in {"Checking", "Failed", "Reinitializing"}
                /\ s.new.retries >= s.obj.retries
                /\ s.new.phase = "Reinitializing" => s.new.retries > s.obj.retries
          /\ s.job = "check" => s.new.phase \in {"Running", "Failed"}
          /\ s.job = "upgrade" =>
                s.new.phase = "Failed" \/ (s.new.phase = "Checking" /\ s.new.have = s.new.want)
          /\ s.job = "watch" => s.new.phase = "Failed"

Form(x, s) ==
    /\ IF x \in Addons THEN s.of = x ELSE TaskForm(s)
    /\ x \in Addons => WorkerForm(s)
    /\ Sane(s.obj)
    /\ s.at = "persist" => s.new.uid = s.obj.uid /\ s.new.want = s.obj.want

Ordered(s) ==
    LET a == s.of IN
    /\ s.obj.uid > 0 /\ Before(s.obj, listed[a])
    /\ s.job \in Judges => Past(listed[a])
    /\ s.job \in Judges /\ s.at = "persist" => s.obj.phase \in Grown
    /\ s.job = "install" =>
          addons[a].phase \in {"Initializing", "Reinitializing", "Checking", "Absent"}
    /\ s.job = "drop" => addons[a].phase = "Absent" /\ s.obj.phase = "Absent"

Rebuilds(s) ==
    s.job = "reinit" /\ s.at \in Building => addons[s.of] = s.obj \/ addons[s.of].phase = "Absent"

Calm(s) ==
    LET a == s.of IN
    /\ Steady(s.obj) /\ SameWant(s.obj, addons[a])
    /\ s.job \notin {"upgrade", "start upgrade"}
    /\ s.job = "watch" =>
          /\ listed[a].phase \in {"Running", "Failed", "Absent"}
          /\ s.at = "persist" => s.obj.phase \in {"Running", "Failed"}
    /\ s.job = "check" =>
          /\ s.at = "look" => addons[a].phase \in {"Checking", "Absent"}
          /\ s.at = "persist" /\ s.new.phase = "Running"
                => s.obj.phase = "Checking" \/ addons[a].phase = "Absent"

Content(s) ==
    LET a == s.of IN
    /\ s.job \in Judges => installed = Parts \/ addons[a].phase = "Absent"
    /\ s.job = "install" \/ (s.job = "reinit" /\ addons[a] = s.obj) =>
          /\ s.at = "deployment" => "account" \in installed
          /\ s.at = "persist" /\ s.new.phase = "Checking"
                => installed = Parts /\ image = s.obj.want
          /\ s.at = "persist" /\ s.new.phase = "Failed" => installed = {}

Version(s) ==
    LET a == s.of IN
    /\ s.obj.phase # "Absent" /\ listed[a].phase # "Absent" /\ addons[a].phase # "Absent"
            /\ s.obj.want = addons[a].want
          => listed[a].want = addons[a].want
    /\ s.job = "upgrade" /\ s.at = "persist" /\ s.new.phase = "Checking"
            /\ addons[a].phase # "Absent" /\ s.obj.want = addons[a].want
          => image = s.obj.want

Finds(s) == Quiet /\ Alone(s.of) => Content(s) /\ (edits <= 1 => Version(s))

(* All of it but for the cluster. *)
Grounded(x, s) ==
    /\ Form(x, s)
    /\ First(s.of) =>
          /\ Ordered(s)
          /\ Unhurried => Rebuilds(s)
          /\ Unedited => Calm(s)

Fits(x, s) == s.at # "idle" => Grounded(x, s) /\ (First(s.of) => Finds(s))

------------------------------------------------------------------------------
(* What is known of a name.                                                 *)

OrderedKey(a) ==
    /\ Before(listed[a], addons[a])
    /\ cached[a] <= listed[a].uid
    /\ listed[a].phase = "Initializing" =>
          addons[a].phase \in {"Initializing", "Reinitializing", "Checking", "Absent"}

(* A version of a reinstallation is told by its number.                     *)
RebuildsKey(a) ==
    listed[a].phase = "Reinitializing" /\ addons[a].phase = "Reinitializing"
            /\ listed[a].retries = addons[a].retries
        => listed[a] = addons[a]

CalmKey(a) ==
    /\ Steady(addons[a]) /\ Steady(listed[a]) /\ SameWant(listed[a], addons[a])
    /\ listed[a].phase = "Running" => addons[a].phase \in {"Running", "Failed", "Absent"}
    /\ listed[a].phase = "Failed" => addons[a].phase \in {"Failed", "Absent"}
    /\ listed[a].phase = "Checking" /\ addons[a].phase = "Checking" => listed[a] = addons[a]

ContentKey(a) ==
    addons[a].phase \in Deployed \/ listed[a].phase \in Deployed
        => installed = Parts \/ addons[a].phase = "Absent"

VersionKey(a) ==
    /\ addons[a].phase \notin {"Initializing", "Absent"} /\ addons[a].have = addons[a].want
            /\ listed[a].phase # "Absent"
          => listed[a].want = addons[a].want
    /\ addons[a].phase \in Grown /\ installed = Parts /\ addons[a].have = addons[a].want
          => image = addons[a].want

FindsKey(a) == Quiet /\ Alone(a) => ContentKey(a) /\ (edits <= 1 => VersionKey(a))

Known(a) ==
    /\ Sane(addons[a]) /\ Sane(listed[a])
    /\ First(a) =>
          /\ OrderedKey(a)
          /\ Unhurried => RebuildsKey(a)
          /\ Unedited => CalmKey(a)
          /\ FindsKey(a)

------------------------------------------------------------------------------
(* No two do the same.                                                      *)

Exclusive(a) ==
    run[a].at # "idle" /\ run[a].job = "install" => \A t \in Tasks : ~Works(t, a)

OneRebuilds(a) ==
    /\ \A t, u \in Tasks :
          Does(t, a, "reinit") /\ Does(u, a, "reinit") /\ run[t].obj = run[u].obj => t = u
    /\ Stirring(a) /\ listed[a].phase = "Reinitializing" =>
          /\ addons[a] = listed[a] \/ addons[a].phase = "Absent"
          /\ \A t \in Tasks : Does(t, a, "reinit") => run[t].obj # listed[a]

OneChecks(a) ==
    /\ \A t, u \in Tasks : Does(t, a, "check") /\ Does(u, a, "check") => t = u
    /\ \A t \in Tasks : Does(t, a, "check") => a \in checking \/ listed[a].phase \in {"Failed", "Absent"}
    /\ Stirring(a) /\ listed[a].phase = "Checking" =>
          /\ addons[a].phase \in {"Checking", "Absent"}
          /\ \A t \in Tasks : ~Does(t, a, "check")

Alike(a) ==
    First(a) => Exclusive(a) /\ (Unhurried => OneRebuilds(a)) /\ (Unedited => OneChecks(a))

History ==
    /\ "edit" \in happened => edits > 0
    /\ "reuse" \notin happened => \A a \in Addons : First(a)

IInv ==
    /\ TypeOK /\ History
    /\ \A x \in Actors : Fits(x, run[x])
    /\ \A a \in Addons : Known(a) /\ Alike(a)

------------------------------------------------------------------------------
(* Versions.                                                                *)

LEMMA BeforeItself == ASSUME NEW o \in Addon PROVE Before(o, o)
BY DEF Before, Addon

LEMMA BeforeTrans ==
    ASSUME NEW o \in Addon, NEW p \in Addon, NEW q \in Addon,
           Sane(o), Sane(p), Before(o, p), Before(p, q)
    PROVE  Before(o, q)
BY DEF Before, Past, Addon, Phases, Sane

(* The types that the proofs keep needing.                                  *)
LEMMA Typed ==
    ASSUME TypeOK
    PROVE  /\ \A a \in Addons : addons[a] \in Addon /\ listed[a] \in Addon /\ cached[a] \in Int
           /\ \A a \in Addons : addons[a].uid \in Nat /\ listed[a].uid \in Nat
           /\ \A x \in Actors : run[x].obj \in Addon /\ run[x].new \in Addon
           /\ Addons \subseteq Actors /\ Tasks \subseteq Actors
           /\ \A a \in Addons : a \notin Tasks
           /\ MaxUid \in Nat /\ MaxVersion \in Nat /\ MaxRetry \in Nat /\ MaxEdits \in Nat
           /\ edits \in Nat
<1>1. MaxUid \in Nat /\ MaxVersion \in Nat /\ MaxRetry \in Nat /\ MaxEdits \in Nat
  BY AddonAssumption
<1>2. edits \in Nat
  <2>1. edits \in 0..MaxEdits BY DEF TypeOK
  <2> QED BY <2>1, <1>1
<1>3. \A a \in Addons : a \notin Tasks BY AddonAssumption
<1>4. \A a \in Addons : addons[a] \in Addon /\ listed[a] \in Addon /\ cached[a] \in Int
  <2>1. /\ addons \in [Addons -> Addon] /\ listed \in [Addons -> Addon]
        /\ cached \in [Addons -> -1..MaxUid]
    BY DEF TypeOK
  <2> QED BY <2>1, <1>1
<1>5. \A a \in Addons : addons[a].uid \in Nat /\ listed[a].uid \in Nat
  BY <1>1, <1>4 DEF Addon
<1>6. \A x \in Actors : run[x].obj \in Addon /\ run[x].new \in Addon
  BY DEF TypeOK
<1> QED BY <1>1, <1>2, <1>3, <1>4, <1>5, <1>6 DEF Actors

(* Actor x gets into state s, and no other actor moves.                     *)
Moves(x, s) == \A y \in Actors : run'[y] = IF y = x THEN s ELSE run[y]

LEMMA Moved ==
    ASSUME TypeOK, NEW x \in Actors, NEW s, run' = [run EXCEPT ![x] = s]
    PROVE  Moves(x, s)
BY DEF TypeOK, Moves

(* An actor at work is at work for an add-on that has been created; in the  *)
(* first use of its name it is the only add-on, if any is alone.            *)
LEMMA AtWork ==
    ASSUME IInv, NEW x \in Actors, run[x].at # "idle"
    PROVE  /\ run[x].of \in Addons
           /\ x \in Addons => run[x].of = x
           /\ x \notin Addons => x \in Tasks
           /\ addons[run[x].of].uid > 0
<1>1. Fits(x, run[x]) /\ TypeOK BY DEF IInv
<1>2. Form(x, run[x]) BY <1>1 DEF Fits, Grounded
<1>3. run[x].of \in Addons BY <1>2 DEF Form, TaskForm
<1>4. Known(run[x].of) BY <1>3 DEF IInv
<1>5. ASSUME First(run[x].of) PROVE addons[run[x].of].uid > 0
  <2>1. run[x].obj.uid > 0 /\ Before(run[x].obj, listed[run[x].of]) BY <1>1, <1>5 DEF Fits, Grounded, Ordered
  <2>2. Before(listed[run[x].of], addons[run[x].of]) BY <1>4, <1>5 DEF Known, OrderedKey
  <2> QED BY <2>1, <2>2, <1>3, <1>1, Typed DEF Before, Addon
<1>6. ASSUME ~First(run[x].of) PROVE addons[run[x].of].uid > 0
  BY <1>6, <1>3, <1>1, Typed DEF First
<1> QED BY <1>2, <1>3, <1>5, <1>6 DEF Form, Actors

LEMMA Solo ==
    ASSUME IInv, NEW x \in Actors, run[x].at # "idle", NEW a \in Addons, Alone(a)
    PROVE  run[x].of = a
BY AtWork DEF Alone

------------------------------------------------------------------------------
(* What survives a step.                                                    *)

(* Nothing is taken back: no name is given to an earlier add-on, edits and  *)
(* faults stay counted.                                                     *)
Onward ==
    /\ happened \subseteq happened' /\ edits <= edits'
    /\ \A a \in Addons : addons[a].uid <= addons'[a].uid

LEMMA Later ==
    ASSUME TypeOK, TypeOK', Onward
    PROVE  /\ \A a \in Addons : (First(a)' => First(a)) /\ (Alone(a)' => Alone(a))
           /\ (Unhurried' => Unhurried) /\ (Unedited' => Unedited) /\ (Quiet' => Quiet)
           /\ edits' <= 1 => edits <= 1
<1>1. \A a \in Addons : addons[a].uid \in Nat /\ addons'[a].uid \in Nat
  <2>1. MaxUid \in Nat BY AddonAssumption
  <2>2. addons \in [Addons -> Addon] /\ addons' \in [Addons -> Addon] BY DEF TypeOK
  <2> QED BY <2>1, <2>2 DEF Addon
<1>2. edits \in Nat /\ edits' \in Nat
  <2>1. edits \in 0..MaxEdits /\ edits' \in 0..MaxEdits BY DEF TypeOK
  <2> QED BY <2>1, AddonAssumption
<1>3. \A a \in Addons : First(a)' => First(a) BY <1>1 DEF First, Onward
<1>4. \A a \in Addons : Alone(a)' => Alone(a) BY <1>1 DEF Alone, Onward
<1>5. (Unhurried' => Unhurried) /\ (Unedited' => Unedited) /\ (Quiet' => Quiet)
  BY DEF Unhurried, Unedited, Quiet, Onward
<1>6. edits' <= 1 => edits <= 1 BY <1>2 DEF Onward
<1> QED BY <1>3, <1>4, <1>5, <1>6

LEMMA StillFinds ==
    ASSUME TypeOK, TypeOK', Onward, UNCHANGED <<installed, image>>,
           NEW s, s.of \in Addons,
           addons'[s.of] = addons[s.of], listed'[s.of] = listed[s.of], Finds(s)
    PROVE  Finds(s)'
BY Later DEF Finds, Content, Version

LEMMA StillFits ==
    ASSUME TypeOK, TypeOK', Onward,
           NEW x, NEW s, s.at # "idle" => s.of \in Addons,
           s.at # "idle" => addons'[s.of] = addons[s.of] /\ listed'[s.of] = listed[s.of],
           s.at # "idle" => Grounded(x, s) /\ (First(s.of) => Finds(s)')
    PROVE  Fits(x, s)'
<1> SUFFICES ASSUME s.at # "idle" PROVE Fits(x, s)' BY DEF Fits, Grounded
<1>1. Form(x, s)' BY DEF Fits, Grounded, Form, TaskForm, WorkerForm, Sane
<1> SUFFICES ASSUME First(s.of)
             PROVE  Ordered(s)' /\ (Unhurried' => Rebuilds(s)') /\ (Unedited' => Calm(s)')
  BY <1>1, Later DEF Fits, Grounded
<1>2. Ordered(s)' BY DEF Fits, Grounded, Ordered, Before, Past
<1>3. ASSUME Unhurried' PROVE Rebuilds(s)' BY <1>3, Later DEF Fits, Grounded, Rebuilds
<1>4. ASSUME Unedited' PROVE Calm(s)' BY <1>4, Later DEF Fits, Grounded, Calm, Steady, SameWant
<1> QED BY <1>2, <1>3, <1>4

LEMMA StillFindsKey ==
    ASSUME TypeOK, TypeOK', Onward, UNCHANGED <<installed, image>>,
           NEW a \in Addons, addons'[a] = addons[a], listed'[a] = listed[a], FindsKey(a)
    PROVE  FindsKey(a)'
BY Later DEF FindsKey, ContentKey, VersionKey

LEMMA StillKnown ==
    ASSUME TypeOK, TypeOK', Onward,
           NEW a \in Addons, addons'[a] = addons[a], listed'[a] = listed[a],
           Known(a), First(a) => cached'[a] <= listed[a].uid /\ FindsKey(a)'
    PROVE  Known(a)'
<1>1. Sane(addons[a])' /\ Sane(listed[a])' BY DEF Known, Sane
<1> SUFFICES ASSUME First(a)
             PROVE  /\ OrderedKey(a)'
                    /\ Unhurried' => RebuildsKey(a)'
                    /\ Unedited' => CalmKey(a)'
  BY <1>1, Later DEF Known
<1>2. OrderedKey(a)' BY DEF Known, OrderedKey, Before, Past
<1>3. ASSUME Unhurried' PROVE RebuildsKey(a)' BY <1>3, Later DEF Known, RebuildsKey
<1>4. ASSUME Unedited' PROVE CalmKey(a)' BY <1>4, Later DEF Known, CalmKey, Steady, SameWant
<1> QED BY <1>2, <1>3, <1>4

(* Actors that a step does not move.                                        *)
LEMMA OthersFit ==
    ASSUME IInv, TypeOK', Onward, NEW y \in Actors, run'[y] = run[y],
           run[y].at # "idle" =>
              /\ addons'[run[y].of] = addons[run[y].of] /\ listed'[run[y].of] = listed[run[y].of]
              /\ First(run[y].of) => Finds(run[y])'
    PROVE  Fits(y, run[y])'
<1> PICK s : s = run[y] OBVIOUS
<1>1. TypeOK /\ (s.at # "idle" => Grounded(y, s)) BY DEF IInv, Fits
<1>2. s.at # "idle" => s.of \in Addons BY AtWork
<1>3. s.at # "idle" /\ First(s.of) => Finds(s)' OBVIOUS
<1>4. Fits(y, s)' BY <1>1, <1>2, <1>3, StillFits
<1> QED BY <1>4

(* A step of an actor that stores nothing.  A fault or panic is not an      *)
(* edit, nor a name used again.                                             *)
OnlyFaults == happened \subseteq happened' /\ happened' \subseteq happened \cup AllFaults \cup {"panic"}

LEMMA FaultHistory ==
    ASSUME TypeOK, History, OnlyFaults, UNCHANGED <<addons, edits>>
    PROVE  History' /\ Onward /\ \A a \in Addons : First(a)' <=> First(a)
<1>1. \A a \in Addons : First(a)' <=> First(a) BY DEF First
<1>2. /\ "edit" \in happened' => "edit" \in happened
      /\ "reuse" \in happened => "reuse" \in happened'
  BY DEF OnlyFaults, AllFaults
<1>3. History' BY <1>1, <1>2 DEF History
<1>4. Onward BY Typed DEF Onward, OnlyFaults
<1> QED BY <1>1, <1>3, <1>4

(* An actor that goes on with its job, or ends it, leaves the others alone. *)
LEMMA MatesKept ==
    ASSUME IInv, NEW x \in Actors, NEW s, Moves(x, s),
           run[x].at # "idle",
           s.at # "idle" => s.of = run[x].of /\ s.job = run[x].job
                                /\ (s.job = "reinit" => s.obj = run[x].obj),
           UNCHANGED <<addons, listed, edits>>, OnlyFaults,
           dirty' \subseteq dirty \cup {x},
           checking' = checking \/
              (s.at = "idle" /\ run[x].job = "check" /\ checking' = checking \ {run[x].of} /\ x \in Tasks)
    PROVE  \A a \in Addons : Alike(a)'
<1> SUFFICES ASSUME NEW a \in Addons, First(a) PROVE Alike(a)'
  BY DEF Alike, First
<1>1. \A y \in Actors : run'[y] = IF y = x THEN s ELSE run[y] BY DEF Moves
<1>2. \A t \in Tasks : t \in Actors BY DEF Actors
<1>3. a \in Actors BY DEF Actors
<1>4. \A t \in Tasks : Works(t, a)' => /\ Works(t, a) /\ run'[t].job = run[t].job
                                       /\ run'[t].job = "reinit" => run'[t].obj = run[t].obj
  BY <1>1, <1>2 DEF Works
<1>5. Stirring(a)' => Stirring(a) BY <1>1, <1>3 DEF Stirring
<1>6. run'[a].at # "idle" => run[a].at # "idle" /\ run'[a].job = run[a].job
  BY <1>1, <1>3
<1>7. Alike(a) BY DEF IInv
<1>8. Exclusive(a)' BY <1>4, <1>6, <1>7 DEF Alike, Exclusive
<1>9. ASSUME Unhurried' PROVE OneRebuilds(a)'
  <2>1. OneRebuilds(a) BY <1>7, <1>9 DEF Alike, Unhurried, OnlyFaults
  <2> QED BY <2>1, <1>4, <1>5 DEF OneRebuilds, Does
<1>10. ASSUME Unedited' PROVE OneChecks(a)'
  <2>1. OneChecks(a) BY <1>7, <1>10 DEF Alike, Unedited, OnlyFaults
  <2>2. \A t \in Tasks : Does(t, a, "check")' => Does(t, a, "check") BY <1>4 DEF Does
  <2>3. ASSUME NEW t \in Tasks, Does(t, a, "check")'
        PROVE  a \in checking' \/ listed[a].phase \in {"Failed", "Absent"}
    <3>1. CASE checking' = checking BY <3>1, <2>1, <2>2, <2>3 DEF OneChecks
    <3>2. CASE s.at = "idle" /\ run[x].job = "check" /\ checking' = checking \ {run[x].of} /\ x \in Tasks
      <4>1. t # x BY <3>2, <2>3, <1>1, <1>2 DEF Does, Works
      <4>2. run[x].of # a BY <4>1, <2>1, <2>2, <2>3, <3>2 DEF OneChecks, Does, Works
      <4> QED BY <4>2, <3>2, <2>1, <2>2, <2>3 DEF OneChecks
    <3> QED BY <3>1, <3>2
  <2> QED BY <2>1, <2>2, <2>3, <1>5 DEF OneChecks
<1> QED BY <1>8, <1>9, <1>10 DEF Alike

LEMMA ActorMoves ==
    ASSUME IInv, TypeOK', NEW x \in Actors, NEW s, Moves(x, s),
           run[x].at # "idle",
           s.at # "idle" => s.of = run[x].of /\ s.job = run[x].job
                                /\ (s.job = "reinit" => s.obj = run[x].obj),
           UNCHANGED <<addons, listed, edits>>, OnlyFaults,
           dirty' \subseteq dirty \cup {x},
           checking' = checking \/
              (s.at = "idle" /\ run[x].job = "check" /\ checking' = checking \ {run[x].of} /\ x \in Tasks),
           Fits(x, s)',
           \A a \in Addons : First(a) => cached'[a] <= listed[a].uid,
           \A a \in Addons : First(a) =>
              FindsKey(a)' /\ \A y \in Actors \ {x} : Works(y, a) => Finds(run[y])'
    PROVE  IInv'
<1>1. TypeOK /\ History /\ \A a \in Addons : Known(a) BY DEF IInv
<1>2. History' /\ Onward BY <1>1, FaultHistory
<1>3. \A y \in Actors : run'[y] = IF y = x THEN s ELSE run[y] BY DEF Moves
<1>4. ASSUME NEW y \in Actors PROVE Fits(y, run[y])'
  <2>1. CASE y = x BY <2>1, <1>3
  <2>2. CASE y # x
    <3>1. run'[y] = run[y] BY <2>2, <1>3
    <3>2. ASSUME run[y].at # "idle", First(run[y].of) PROVE Finds(run[y])'
      <4>1. run[y].of \in Addons BY <3>2, AtWork
      <4>2. Works(y, run[y].of) BY <3>2 DEF Works
      <4> QED BY <4>1, <4>2, <3>2, <2>2
    <3> QED BY <3>1, <3>2, <1>2, OthersFit
  <2> QED BY <2>1, <2>2
<1>5. ASSUME NEW a \in Addons PROVE Known(a)'
  BY <1>1, <1>2, StillKnown
<1>6. \A a \in Addons : Alike(a)' BY MatesKept
<1> QED BY <1>2, <1>4, <1>5, <1>6 DEF IInv

(* The cluster stays as it was, too.                                        *)
LEMMA ActorActs ==
    ASSUME IInv, TypeOK', NEW x \in Actors, NEW s, Moves(x, s),
           run[x].at # "idle",
           s.at # "idle" => s.of = run[x].of /\ s.job = run[x].job
                                /\ (s.job = "reinit" => s.obj = run[x].obj),
           UNCHANGED <<addons, listed, installed, image, edits>>, OnlyFaults,
           dirty' \subseteq dirty \cup {x},
           checking' = checking \/
              (s.at = "idle" /\ run[x].job = "check" /\ checking' = checking \ {run[x].of} /\ x \in Tasks),
           cached' = cached \/ (x \in Addons /\ cached' = [cached EXCEPT ![x] = run[x].obj.uid]),
           Fits(x, s)
    PROVE  IInv'
<1>1. TypeOK /\ History /\ \A a \in Addons : Known(a) BY DEF IInv
<1>2. Onward BY <1>1, FaultHistory
<1>3. run[x].of \in Addons /\ (x \in Addons => run[x].of = x) BY AtWork
<1>4. Fits(x, s)'
  <2>1. s.at # "idle" => s.of \in Addons BY <1>3
  <2>2. s.at # "idle" /\ First(s.of) => Finds(s)' BY <2>1, <1>1, <1>2, StillFinds DEF Fits, Grounded
  <2>3. s.at # "idle" => Grounded(x, s) BY DEF Fits
  <2> QED BY <2>1, <2>2, <2>3, <1>1, <1>2, StillFits
<1>5. ASSUME NEW a \in Addons, First(a) PROVE cached'[a] <= listed[a].uid
  <2>1. cached[a] <= listed[a].uid BY <1>1, <1>5 DEF Known, OrderedKey
  <2>2. ASSUME x = a PROVE run[x].obj.uid <= listed[a].uid
    <3>1. Fits(x, run[x]) BY DEF IInv
    <3> QED BY <3>1, <2>2, <1>3, <1>5 DEF Fits, Grounded, Ordered, Before
  <2>3. cached \in [Addons -> -1..MaxUid] BY <1>1 DEF TypeOK
  <2> QED BY <2>1, <2>2, <2>3
<1>6. ASSUME NEW a \in Addons, First(a)
      PROVE  FindsKey(a)' /\ \A y \in Actors \ {x} : Works(y, a) => Finds(run[y])'
  <2>1. FindsKey(a)' BY <1>1, <1>2, <1>6, StillFindsKey DEF Known
  <2>2. ASSUME NEW y \in Actors \ {x}, Works(y, a) PROVE Finds(run[y])'
    <3> PICK r : r = run[y] OBVIOUS
    <3>1. Finds(r) BY <2>2, <1>6 DEF IInv, Fits, Grounded, Works
    <3>2. Finds(r)' BY <3>1, <2>2, <1>1, <1>2, StillFinds DEF Works
    <3>3. run'[y] = r BY DEF Moves
    <3> QED BY <3>2, <3>3
  <2> QED BY <2>1, <2>2
<1> QED BY <1>4, <1>5, <1>6, ActorMoves

------------------------------------------------------------------------------
(* Types.                                                                   *)

Doing ==
    [of : Actors,
     job : {"none", "install", "start upgrade", "drop", "reinit", "check", "upgrade", "watch"},
     at : {"idle", "remove", "rollback", "look", "persist", "end"} \cup Parts,
     obj : Addon, new : Addon]

LEMMA Records ==
    /\ Nowhere \in Addon
    /\ \A o \in Addon : /\ o.uid \in 0..MaxUid /\ o.phase \in Phases /\ o.want \in 1..MaxVersion
                        /\ o.have \in 0..MaxVersion /\ o.retries \in 0..MaxRetry
                        /\ o.want \in 0..MaxVersion /\ o.uid \in -1..MaxUid
    /\ 0 \in 0..MaxUid /\ 0 \in -1..MaxUid /\ -1 \in -1..MaxUid /\ 0 \in 0..MaxVersion
    /\ 0 \in 0..MaxRetry /\ 1 \in 0..MaxRetry
BY AddonAssumption DEF Addon, Nowhere, Phases

LEMMA IdleType == ASSUME NEW x \in Actors PROVE Idle(x) \in Doing
BY Records DEF Idle, Doing

LEMMA RunType ==
    ASSUME TypeOK
    PROVE  /\ run \in [Actors -> Doing]
           /\ \A x \in Actors : run[x] \in Doing /\ run[x].obj \in Addon /\ run[x].new \in Addon
           /\ Addons \subseteq Actors /\ Tasks \subseteq Actors
           /\ \A a \in Addons : listed[a] \in Addon /\ addons[a] \in Addon /\ cached[a] \in -1..MaxUid
<1>1. run \in [Actors -> Doing] BY DEF TypeOK, Doing
<1>2. \A x \in Actors : run[x] \in Doing BY <1>1
<1>3. \A x \in Actors : run[x].obj \in Addon /\ run[x].new \in Addon BY <1>2 DEF Doing
<1>4. \A a \in Addons : listed[a] \in Addon /\ addons[a] \in Addon /\ cached[a] \in -1..MaxUid
  BY DEF TypeOK
<1> QED BY <1>1, <1>2, <1>3, <1>4 DEF Actors

LEMMA EndsType ==
    ASSUME TypeOK, NEW x \in Actors, NEW ok \in BOOLEAN, Ends(x, ok)
    PROVE  run' \in [Actors -> Doing] /\ cached' \in [Addons -> -1..MaxUid] /\ dirty' \subseteq Addons
<1>1. /\ run \in [Actors -> Doing] /\ run[x] \in Doing /\ run[x].obj.uid \in -1..MaxUid
      /\ Idle(x) \in Doing
  BY RunType, Records, IdleType
<1>2. cached \in [Addons -> -1..MaxUid] /\ dirty \subseteq Addons BY DEF TypeOK
<1>3. [run[x] EXCEPT !.at = "end"] \in Doing BY <1>1 DEF Doing
<1>4. CASE x \in Addons BY <1>4, <1>1, <1>2 DEF Ends, Done, Again
<1>5. CASE x \notin Addons
  <2>1. PICK s \in Doing : run' = [run EXCEPT ![x] = s]
    <3>1. CASE run[x].job \in {"check", "upgrade"}
      BY <3>1, <1>3, <1>5, <1>1 DEF Ends
    <3>2. CASE run[x].job \notin {"check", "upgrade"}
      BY <3>2, <1>1, <1>5 DEF Ends
    <3> QED BY <3>1, <3>2
  <2>2. UNCHANGED <<dirty, cached>> BY <1>5 DEF Ends
  <2> QED BY <2>1, <2>2, <1>1, <1>2
<1> QED BY <1>4, <1>5

(* What an actor is about to store.                                         *)
Storing(x, new) == [run[x] EXCEPT !.at = "persist", !.new = new]

LEMMA PersistsType ==
    ASSUME TypeOK, NEW x \in Actors, NEW new \in Addon
    PROVE  /\ Persists(x, new) \in [Actors -> Doing]
           /\ Persists(x, new) = [run EXCEPT ![x] = Storing(x, new)]
           /\ \A o \in Addon :
                 /\ [Persists(x, new) EXCEPT ![x].obj = o] \in [Actors -> Doing]
                 /\ [Persists(x, new) EXCEPT ![x].obj = o]
                       = [run EXCEPT ![x] = [Storing(x, new) EXCEPT !.obj = o]]
<1>1. run \in [Actors -> Doing] /\ run[x] \in Doing BY RunType
<1>2. Storing(x, new) \in Doing BY <1>1 DEF Doing, Storing
<1>3. Persists(x, new) = [run EXCEPT ![x] = Storing(x, new)] BY <1>1 DEF Persists, Storing
<1>4. ASSUME NEW o \in Addon PROVE [Storing(x, new) EXCEPT !.obj = o] \in Doing
  BY <1>2 DEF Doing
<1>5. ASSUME NEW o \in Addon
      PROVE  [Persists(x, new) EXCEPT ![x].obj = o]
                = [run EXCEPT ![x] = [Storing(x, new) EXCEPT !.obj = o]]
  BY <1>3, <1>1
<1> QED BY <1>1, <1>2, <1>3, <1>4, <1>5

LEMMA AfterType ==
    ASSUME TypeOK, NEW x \in Actors
    PROVE  AfterInstall(x) \in [Actors -> Doing] /\ AfterFailure(x) \in [Actors -> Doing]
<1>1. run \in [Actors -> Doing] /\ run[x] \in Doing /\ run[x].obj \in Addon BY RunType
<1>2. \A o \in Addon : /\ [o EXCEPT !.have = o.want, !.phase = "Checking", !.retries = 0] \in Addon
                       /\ [o EXCEPT !.phase = "Checking"] \in Addon
                       /\ [o EXCEPT !.have = o.want, !.phase = "Reinitializing", !.retries = 1] \in Addon
  BY Records DEF Addon, Phases
<1>3. [run EXCEPT ![x].at = "rollback"] \in [Actors -> Doing]
  <2>1. [run[x] EXCEPT !.at = "rollback"] \in Doing BY <1>1 DEF Doing
  <2> QED BY <2>1, <1>1
<1> QED BY <1>1, <1>2, <1>3, PersistsType DEF AfterInstall, AfterFailure

LEMMA GoType ==
    ASSUME TypeOK, NEW a \in Addons, NEW obj \in Addon,
           NEW job \in {"reinit", "check", "upgrade", "watch"}, NEW at \in {"account", "look"},
           Go(a, obj, job, at)
    PROVE  run' \in [Actors -> Doing] /\ cached' \in [Addons -> -1..MaxUid]
<1>1. PICK t \in Tasks :
         run' = [run EXCEPT ![t] = [of |-> a, job |-> job, at |-> at, obj |-> obj, new |-> obj],
                            ![a] = Idle(a)]
  BY DEF Go
<1>2. [of |-> a, job |-> job, at |-> at, obj |-> obj, new |-> obj] \in Doing
  BY DEF Doing, Actors, Parts
<1>3. run \in [Actors -> Doing] /\ a \in Actors /\ t \in Actors /\ Idle(a) \in Doing
  BY RunType, IdleType
<1>4. run' \in [Actors -> Doing] BY <1>1, <1>2, <1>3
<1>5. cached \in [Addons -> -1..MaxUid] /\ obj.uid \in -1..MaxUid BY Records DEF TypeOK
<1> QED BY <1>4, <1>5 DEF Go

LEMMA DispatchType ==
    ASSUME TypeOK, NEW a \in Addons, NEW obj \in Addon, NEW entry \in -1..MaxUid,
           Dispatch(a, obj, entry)
    PROVE  /\ run' \in [Actors -> Doing] /\ cached' \in [Addons -> -1..MaxUid]
           /\ health' \subseteq Addons /\ checking' \subseteq Addons /\ upgrading' \subseteq Addons
<1>1. /\ run \in [Actors -> Doing] /\ a \in Actors /\ Idle(a) \in Doing
      /\ cached \in [Addons -> -1..MaxUid] /\ obj.uid \in -1..MaxUid
      /\ health \subseteq Addons /\ checking \subseteq Addons /\ upgrading \subseteq Addons
  BY RunType, IdleType, Records DEF TypeOK
<1>2. [Idle(a) EXCEPT !.job = "install", !.at = "account", !.obj = obj] \in Doing
  BY <1>1 DEF Doing, Parts
<1>3. [obj EXCEPT !.phase = "Upgrading", !.retries = 0] \in Addon BY Records DEF Addon, Phases
<1>4. [Idle(a) EXCEPT !.job = "start upgrade", !.at = "persist", !.obj = obj,
                      !.new = [obj EXCEPT !.phase = "Upgrading", !.retries = 0]] \in Doing
  BY <1>1, <1>3 DEF Doing
<1>5. health' \subseteq Addons /\ checking' \subseteq Addons /\ upgrading' \subseteq Addons
  BY <1>1 DEF Dispatch
<1>6. CASE \E job \in {"reinit", "check", "upgrade", "watch"}, at \in {"account", "look"} :
              Go(a, obj, job, at)
  BY <1>6, <1>5, GoType
<1>7. CASE Done(a, obj) BY <1>7, <1>5, <1>1 DEF Done
<1>8. CASE run' = [run EXCEPT ![a] = [Idle(a) EXCEPT !.job = "install", !.at = "account", !.obj = obj]]
              /\ cached' = [cached EXCEPT ![a] = entry]
  BY <1>8, <1>5, <1>2, <1>1
<1>9. CASE /\ run' = [run EXCEPT ![a] = [Idle(a) EXCEPT !.job = "start upgrade", !.at = "persist", !.obj = obj,
                                        !.new = [obj EXCEPT !.phase = "Upgrading", !.retries = 0]]]
           /\ cached' = [cached EXCEPT ![a] = entry]
  BY <1>9, <1>5, <1>4, <1>1
<1> QED BY <1>6, <1>7, <1>8, <1>9 DEF Dispatch

LEMMA FaultType ==
    ASSUME TypeOK, NEW kind, Fault(kind)
    PROVE  happened' \subseteq FaultKinds \cup {"edit", "overlap", "reuse", "panic"}
BY DEF TypeOK, Fault

LEMMA TypeNext == IInv /\ [Next]_vars => TypeOK'
<1> SUFFICES ASSUME IInv, [Next]_vars PROVE TypeOK' OBVIOUS
<1>0. TypeOK BY DEF IInv
<1> USE <1>0 DEF memory, onCluster
<1>1. ASSUME NEW a \in Addons, NEW v \in 1..MaxVersion, CreateAddon(a, v) PROVE TypeOK'
  <2>1. addons[a].uid + 1 \in 0..MaxUid BY <1>1, RunType, Records, AddonAssumption DEF CreateAddon
  <2>2. [Nowhere EXCEPT !.uid = addons[a].uid + 1, !.phase = "Initializing", !.want = v] \in Addon
    BY <2>1, Records DEF Addon, Phases
  <2>3. addons' \in [Addons -> Addon] BY <2>2, <1>1 DEF TypeOK, CreateAddon
  <2>4. happened' \subseteq FaultKinds \cup {"edit", "overlap", "reuse", "panic"} BY <1>1 DEF TypeOK, CreateAddon
  <2> QED BY <2>3, <2>4, <1>1 DEF TypeOK, CreateAddon
<1>2. ASSUME NEW a \in Addons, NEW v \in 1..MaxVersion, EditVersion(a, v) PROVE TypeOK'
  <2>1. addons \in [Addons -> Addon] BY DEF TypeOK
  <2>2. [addons[a] EXCEPT !.want = v] \in Addon BY <2>1 DEF Addon
  <2>3. addons' \in [Addons -> Addon] BY <2>1, <2>2, <1>2 DEF EditVersion
  <2>4. edits' \in 0..MaxEdits
    <3>1. edits \in 0..MaxEdits BY DEF TypeOK
    <3>2. edits' = edits + 1 /\ edits < MaxEdits BY <1>2 DEF EditVersion
    <3> QED BY <3>1, <3>2, AddonAssumption
  <2>5. happened' \subseteq FaultKinds \cup {"edit", "overlap", "reuse", "panic"} BY <1>2 DEF TypeOK, EditVersion
  <2> QED BY <2>3, <2>4, <2>5, <1>2 DEF TypeOK, EditVersion
<1>3. ASSUME NEW a \in Addons, DeleteAddon(a) PROVE TypeOK'
  <2>1. [Nowhere EXCEPT !.uid = addons[a].uid] \in Addon BY RunType, Records DEF Addon
  <2>2. addons' \in [Addons -> Addon] BY <2>1, <1>3 DEF TypeOK, DeleteAddon
  <2>3. edits' \in 0..MaxEdits
    <3>1. edits \in 0..MaxEdits BY DEF TypeOK
    <3>2. edits' = edits + 1 /\ edits < MaxEdits BY <1>3 DEF DeleteAddon
    <3> QED BY <3>1, <3>2, AddonAssumption
  <2> QED BY <2>2, <2>3, <1>3 DEF TypeOK, DeleteAddon
<1>4. ASSUME NEW a \in Addons, Deliver(a) PROVE TypeOK'
  BY <1>4, RunType DEF TypeOK, Deliver
<1>5. ASSUME NEW a \in Addons, Sync(a) PROVE TypeOK'
  <2>1. listed[a] \in Addon /\ (IF cached[a] = -1 THEN 0 ELSE cached[a]) \in -1..MaxUid
    BY RunType, Records
  <2>2. /\ run' \in [Actors -> Doing] /\ cached' \in [Addons -> -1..MaxUid]
        /\ health' \subseteq Addons /\ checking' \subseteq Addons /\ upgrading' \subseteq Addons
    BY <2>1, <1>5, DispatchType DEF Sync
  <2> QED BY <2>2, <1>5 DEF TypeOK, Sync, Doing
<1>6. ASSUME NEW a \in Addons, SyncDeleted(a) PROVE TypeOK'
  <2>1. /\ run \in [Actors -> Doing] /\ a \in Actors /\ Idle(a) \in Doing /\ listed[a] \in Addon
        /\ cached \in [Addons -> -1..MaxUid] /\ health \subseteq Addons
    BY RunType, IdleType DEF TypeOK
  <2>2. [Idle(a) EXCEPT !.job = "drop", !.at = "remove", !.obj = listed[a]] \in Doing BY <2>1 DEF Doing
  <2>3. run' \in [Actors -> Doing] /\ cached' \in [Addons -> -1..MaxUid] /\ health' \subseteq Addons
    BY <2>1, <2>2, <1>6, Records DEF SyncDeleted
  <2> QED BY <2>3, <1>6 DEF TypeOK, SyncDeleted, Doing
<1>7. ASSUME TRUE, Forget PROVE listed' \in [Addons -> Addon] /\ dirty' \subseteq Addons /\ cached' \in [Addons -> -1..MaxUid]
             /\ run' \in [Actors -> Doing] /\ health' \subseteq Addons
             /\ checking' \subseteq Addons /\ upgrading' \subseteq Addons
  BY <1>7, IdleType, Records DEF TypeOK, Forget
<1>8. ASSUME NEW a \in Addons, SyncPanics(a) PROVE TypeOK'
  BY <1>7, <1>8 DEF TypeOK, SyncPanics, Doing
<1>29. ASSUME NEW x \in Actors, PanicsForImage(x) PROVE TypeOK'
  BY <1>7, <1>29 DEF TypeOK, PanicsForImage, Doing
<1>9. ASSUME Restart PROVE TypeOK'
  BY <1>7, <1>9, FaultType DEF TypeOK, Restart, Doing
<1>10. ASSUME NEW a \in Addons, Remove(a) PROVE TypeOK'
  <2>1. a \in Actors /\ run[a].obj \in Addon /\ Idle(a) \in Doing /\ run \in [Actors -> Doing]
    BY RunType, IdleType
  <2>2. /\ run' \in [Actors -> Doing] /\ cached' \in [Addons -> -1..MaxUid]
        /\ health' \subseteq Addons /\ checking' \subseteq Addons /\ upgrading' \subseteq Addons
    <3>1. CASE run' = [run EXCEPT ![a] = Idle(a)] /\ UNCHANGED <<cached, health, checking, upgrading>>
      BY <3>1, <2>1 DEF TypeOK
    <3>2. CASE Dispatch(a, run[a].obj, -1)
      BY <3>2, <2>1, Records, DispatchType
    <3> QED BY <3>1, <3>2, <1>10 DEF Remove
  <2>3. installed' \subseteq Parts /\ image' \in 0..MaxVersion BY <1>10, Records DEF Remove
  <2> QED BY <2>2, <2>3, <1>10 DEF TypeOK, Remove, Doing
<1>11. ASSUME NEW a \in Addons, RemoveFails(a) PROVE TypeOK'
  <2>1. a \in Actors /\ Idle(a) \in Doing /\ run \in [Actors -> Doing]
    BY RunType, IdleType
  <2>2. run' \in [Actors -> Doing] /\ dirty' \subseteq Addons
    BY <2>1, <1>11 DEF RemoveFails, Again, TypeOK
  <2>3. installed' \subseteq Parts /\ image' \in 0..MaxVersion BY <1>11, Records DEF RemoveFails, TypeOK
  <2>4. happened' \subseteq FaultKinds \cup {"edit", "overlap", "reuse", "panic"} BY <1>11, FaultType DEF RemoveFails
  <2> QED BY <2>2, <2>3, <2>4, <1>11 DEF TypeOK, RemoveFails, Doing
<1>12. ASSUME NEW x \in Actors, CreatePart(x) PROVE TypeOK'
  <2>1. run \in [Actors -> Doing] /\ run[x] \in Doing /\ run[x].obj.want \in 0..MaxVersion BY RunType, Records
  <2>2. [run EXCEPT ![x].at = "deployment"] \in [Actors -> Doing]
    <3>1. [run[x] EXCEPT !.at = "deployment"] \in Doing BY <2>1 DEF Doing, Parts
    <3> QED BY <3>1, <2>1
  <2>3. run' \in [Actors -> Doing] BY <2>2, <1>12, AfterType DEF CreatePart
  <2>4. installed' \subseteq Parts /\ image' \in 0..MaxVersion BY <2>1, <1>12 DEF CreatePart, TypeOK
  <2> QED BY <2>3, <2>4, <1>12 DEF TypeOK, CreatePart, Doing
<1>13. ASSUME NEW x \in Actors, CreateFails(x) PROVE TypeOK'
  <2>1. run' \in [Actors -> Doing] BY <1>13, AfterType DEF CreateFails
  <2> QED BY <2>1, <1>13, FaultType DEF TypeOK, CreateFails, Doing
<1>14. ASSUME NEW x \in Actors, Rollback(x) PROVE TypeOK'
  <2>1. run[x].obj \in Addon BY RunType
  <2>2. [run[x].obj EXCEPT !.phase = "Failed"] \in Addon BY <2>1 DEF Addon, Phases
  <2>3. ASSUME run[x].obj.retries # MaxRetry
        PROVE  [run[x].obj EXCEPT !.retries = @ + 1] \in Addon
    <3>1. run[x].obj.retries + 1 \in 0..MaxRetry BY <2>1, <2>3, Records, AddonAssumption
    <3> QED BY <3>1, <2>1 DEF Addon
  <2>4. run' \in [Actors -> Doing] BY <1>14, <2>2, <2>3, PersistsType DEF Rollback
  <2> QED BY <2>4, <1>14, Records DEF TypeOK, Rollback, Doing
<1>15. ASSUME NEW x \in Actors, RollbackFails(x) PROVE TypeOK'
  <2>1. run' \in [Actors -> Doing] /\ cached' \in [Addons -> -1..MaxUid] /\ dirty' \subseteq Addons
    BY <1>15, EndsType DEF RollbackFails
  <2>2. installed' \subseteq Parts /\ image' \in 0..MaxVersion BY <1>15, Records DEF RollbackFails, TypeOK
  <2>3. happened' \subseteq FaultKinds \cup {"edit", "overlap", "reuse", "panic"} BY <1>15, FaultType DEF RollbackFails
  <2> QED BY <2>1, <2>2, <2>3, <1>15 DEF TypeOK, RollbackFails, Doing
<1>16. ASSUME NEW x \in Actors, Persist(x) PROVE TypeOK'
  <2>1. run' \in [Actors -> Doing] /\ cached' \in [Addons -> -1..MaxUid] /\ dirty' \subseteq Addons
    BY <1>16, EndsType DEF Persist
  <2>2. addons' \in [Addons -> Addon] BY <1>16, RunType DEF Persist, TypeOK
  <2> QED BY <2>1, <2>2, <1>16 DEF TypeOK, Persist, Doing
<1>17. ASSUME NEW x \in Actors, PersistFails(x) PROVE TypeOK'
  <2>1. run' \in [Actors -> Doing] /\ cached' \in [Addons -> -1..MaxUid] /\ dirty' \subseteq Addons
    BY <1>17, EndsType DEF PersistFails
  <2> QED BY <2>1, <1>17, FaultType DEF TypeOK, PersistFails, Doing
<1>18. ASSUME NEW x \in Actors, PersistLost(x) PROVE TypeOK'
  <2>1. addons' \in [Addons -> Addon] BY <1>18, RunType DEF PersistLost, TypeOK
  <2> QED BY <2>1, <1>18, FaultType DEF TypeOK, PersistLost
<1>19. ASSUME NEW t \in Tasks, run[t].at = "look", NEW new \in Addon
       PROVE  /\ t \in Actors /\ listed[run[t].of] \in Addon
              /\ [Persists(t, new) EXCEPT ![t].obj = listed[run[t].of]] \in [Actors -> Doing]
  <2>1. t \in Actors BY DEF Actors
  <2>2. run[t].of \in Addons BY <2>1, <1>19, AtWork
  <2> QED BY <2>1, <2>2, RunType, PersistsType
<1>20. ASSUME NEW o \in Addon
       PROVE  /\ \A p \in Phases : [o EXCEPT !.phase = p] \in Addon
              /\ [o EXCEPT !.have = o.want, !.phase = "Checking"] \in Addon
  BY <1>20, Records DEF Addon, Phases
<1>21. ASSUME NEW t \in Tasks, run[t].at = "look", Ends(t, FALSE)
       PROVE  run' \in [Actors -> Doing] /\ cached' \in [Addons -> -1..MaxUid] /\ dirty' \subseteq Addons
  BY <1>21, <1>19, EndsType, Records
<1>22. ASSUME NEW t \in Tasks, Check(t) PROVE TypeOK'
  <2> DEFINE obj == listed[run[t].of]
  <2>1. obj \in Addon BY <1>22, <1>19, Records DEF Check
  <2>2. /\ [obj EXCEPT !.phase = "Running"] \in Addon
        /\ [obj EXCEPT !.phase = "Failed"] \in Addon
    BY <2>1, <1>20 DEF Phases
  <2>3. run' \in [Actors -> Doing] /\ cached' \in [Addons -> -1..MaxUid] /\ dirty' \subseteq Addons
    <3>1. CASE Ends(t, FALSE) BY <3>1, <1>22, <1>21 DEF Check
    <3>2. ASSUME NEW new \in Addon,
                 run' = [Persists(t, new) EXCEPT ![t].obj = obj], UNCHANGED <<dirty, cached>>
          PROVE  run' \in [Actors -> Doing] /\ cached' \in [Addons -> -1..MaxUid] /\ dirty' \subseteq Addons
      BY <3>2, <1>22, <1>19 DEF Check, TypeOK
    <3> QED BY <3>1, <3>2, <2>2, <1>22 DEF Check
  <2>4. happened' \subseteq FaultKinds \cup {"edit", "overlap", "reuse", "panic"}
    BY <1>22, FaultType DEF Check, TypeOK
  <2> QED BY <2>3, <2>4, <1>22 DEF TypeOK, Check, Doing
<1>23. ASSUME NEW t \in Tasks, Upgrade(t) PROVE TypeOK'
  <2> DEFINE obj == listed[run[t].of]
  <2>1. obj \in Addon BY <1>23, <1>19, Records DEF Upgrade
  <2>2. /\ [obj EXCEPT !.have = obj.want, !.phase = "Checking"] \in Addon
        /\ [obj EXCEPT !.phase = "Failed"] \in Addon
    BY <2>1, <1>20 DEF Phases
  <2>3. run' \in [Actors -> Doing] /\ cached' \in [Addons -> -1..MaxUid] /\ dirty' \subseteq Addons
    <3>1. CASE Ends(t, FALSE) BY <3>1, <1>23, <1>21 DEF Upgrade
    <3>2. ASSUME NEW new \in Addon,
                 run' = [Persists(t, new) EXCEPT ![t].obj = obj], UNCHANGED <<dirty, cached>>
          PROVE  run' \in [Actors -> Doing] /\ cached' \in [Addons -> -1..MaxUid] /\ dirty' \subseteq Addons
      BY <3>2, <1>23, <1>19 DEF Upgrade, TypeOK
    <3> QED BY <3>1, <3>2, <2>2, <1>23 DEF Upgrade
  <2>4. image' \in 0..MaxVersion BY <1>23, <2>1, Records DEF Upgrade, TypeOK
  <2> QED BY <2>3, <2>4, <1>23 DEF TypeOK, Upgrade, Doing
<1>24. ASSUME NEW t \in Tasks, Watch(t) PROVE TypeOK'
  <2> DEFINE obj == listed[run[t].of]
  <2>1. [obj EXCEPT !.phase = "Failed"] \in Addon
    BY <1>24, <1>19, <1>20, Records DEF Watch, Phases
  <2>2. run' \in [Actors -> Doing] /\ cached' \in [Addons -> -1..MaxUid] /\ dirty' \subseteq Addons
    <3>1. CASE Ends(t, FALSE) BY <3>1, <1>24, <1>21 DEF Watch
    <3>2. ASSUME NEW new \in Addon,
                 run' = [Persists(t, new) EXCEPT ![t].obj = obj], UNCHANGED <<dirty, cached>>
          PROVE  run' \in [Actors -> Doing] /\ cached' \in [Addons -> -1..MaxUid] /\ dirty' \subseteq Addons
      BY <3>2, <1>24, <1>19 DEF Watch, TypeOK
    <3> QED BY <3>1, <3>2, <2>1, <1>24 DEF Watch
  <2> QED BY <2>2, <1>24 DEF TypeOK, Watch, Doing
<1>25. ASSUME NEW t \in Tasks, LookFails(t) PROVE TypeOK'
  <2>1. run' \in [Actors -> Doing] /\ cached' \in [Addons -> -1..MaxUid] /\ dirty' \subseteq Addons
    BY <1>25, <1>21 DEF LookFails
  <2> QED BY <2>1, <1>25, FaultType DEF TypeOK, LookFails, Doing
<1>26. ASSUME NEW t \in Tasks, Return(t) PROVE TypeOK'
  <2>1. run' \in [Actors -> Doing] /\ checking' \subseteq Addons /\ upgrading' \subseteq Addons
    BY <1>26, RunType, IdleType DEF Return, TypeOK
  <2> QED BY <2>1, <1>26 DEF TypeOK, Return, Doing
<1>27. ASSUME Removed PROVE TypeOK'
  <2>1. installed' \subseteq Parts /\ image' \in 0..MaxVersion BY <1>27, Records DEF Removed, TypeOK
  <2> QED BY <2>1, <1>27, FaultType DEF TypeOK, Removed
<1>28. CASE UNCHANGED vars BY <1>28 DEF TypeOK, vars
<1> QED
  BY <1>1, <1>2, <1>3, <1>4, <1>5, <1>6, <1>8, <1>9, <1>10, <1>11, <1>12, <1>13, <1>14, <1>15,
     <1>16, <1>17, <1>18, <1>22, <1>23, <1>24, <1>25, <1>26, <1>27, <1>28, <1>29
  DEF Next, Work, Step, Poll

------------------------------------------------------------------------------
(* Steps that store nothing and install nothing.                            *)

LEMMA OneFault == ASSUME TypeOK, NEW kind, Fault(kind) PROVE OnlyFaults
BY AddonAssumption DEF Fault, OnlyFaults

LEMMA EndsMoves ==
    ASSUME IInv, NEW x \in Actors, run[x].at # "idle", NEW ok \in BOOLEAN, Ends(x, ok)
    PROVE  /\ dirty' \subseteq dirty \cup {x}
           /\ cached' = cached \/ (x \in Addons /\ cached' = [cached EXCEPT ![x] = run[x].obj.uid])
           /\ \E s : /\ Moves(x, s)
                     /\ s.at # "idle" => /\ s = [run[x] EXCEPT !.at = "end"]
                                         /\ s.at = "end" /\ s.of = run[x].of /\ s.job = run[x].job
                                         /\ s.obj = run[x].obj /\ s.job \in {"check", "upgrade"}
<1>1. TypeOK BY DEF IInv
<1>2. Idle(x).at = "idle" BY DEF Idle
<1>3. CASE x \in Addons BY <1>1, <1>2, <1>3, Moved DEF Ends, Done, Again
<1>4. CASE x \notin Addons /\ run[x].job \notin {"check", "upgrade"}
  <2>1. run' = [run EXCEPT ![x] = Idle(x)] BY <1>1, <1>4, RunType DEF Ends
  <2>2. Moves(x, Idle(x)) BY <2>1, <1>1, Moved
  <2> QED BY <2>2, <1>2, <1>4 DEF Ends
<1>5. CASE x \notin Addons /\ run[x].job \in {"check", "upgrade"}
  <2> DEFINE s == [run[x] EXCEPT !.at = "end"]
  <2>1. run' = [run EXCEPT ![x] = s] BY <1>1, <1>5, RunType DEF Ends
  <2>2. Moves(x, s) BY <2>1, <1>1, Moved
  <2>3. s.at = "end" /\ s.of = run[x].of /\ s.job = run[x].job /\ s.obj = run[x].obj
    <3>1. run[x] \in Doing BY <1>1, RunType
    <3> QED BY <3>1 DEF Doing
  <2> QED BY <2>2, <2>3, <1>5 DEF Ends
<1> QED BY <1>3, <1>4, <1>5

(* A goroutine that has done its job, and has still to return.              *)
LEMMA EndFits ==
    ASSUME NEW x, NEW r, NEW s, Fits(x, r), r.at # "idle", s.at = "end", x \notin Addons,
           s.of = r.of, s.job = r.job, s.obj = r.obj, s.job \in Judges
    PROVE  Fits(x, s)
<1>1. Form(x, s) BY DEF Fits, Grounded, Form, TaskForm, Building, Parts, Judges
<1>2. First(s.of) => Ordered(s) BY DEF Fits, Grounded, Ordered, Judges
<1>3. First(s.of) /\ Unhurried => Rebuilds(s) BY DEF Rebuilds, Judges
<1>4. First(s.of) /\ Unedited => Calm(s) BY DEF Fits, Grounded, Calm
<1>5. First(s.of) => Finds(s) BY DEF Fits, Grounded, Finds, Content, Version, Judges
<1> QED BY <1>1, <1>2, <1>3, <1>4, <1>5 DEF Fits, Grounded

LEMMA EndKept ==
    ASSUME IInv, TypeOK', NEW x \in Actors, run[x].at # "idle", NEW ok \in BOOLEAN, Ends(x, ok),
           UNCHANGED <<addons, listed, checking, installed, image, edits>>, OnlyFaults
    PROVE  IInv'
<1>1. PICK s : /\ Moves(x, s)
               /\ s.at # "idle" => /\ s.at = "end" /\ s.of = run[x].of /\ s.job = run[x].job
                                   /\ s.obj = run[x].obj /\ s.job \in {"check", "upgrade"}
  BY EndsMoves
<1>2. Fits(x, s)
  <2>1. CASE s.at = "idle" BY <2>1 DEF Fits, Grounded
  <2>2. CASE s.at # "idle"
    <3>1. Fits(x, run[x]) BY DEF IInv
    <3>2. x \notin Addons
      BY <3>1, <2>2, <1>1 DEF Fits, Grounded, Form, WorkerForm, Parts
    <3>3. s.job \in Judges BY <2>2, <1>1 DEF Judges
    <3> QED BY <3>1, <3>2, <3>3, <2>2, <1>1, EndFits
  <2> QED BY <2>1, <2>2
<1>3. /\ dirty' \subseteq dirty \cup {x}
      /\ cached' = cached \/ (x \in Addons /\ cached' = [cached EXCEPT ![x] = run[x].obj.uid])
  BY EndsMoves
<1> QED BY <1>1, <1>2, <1>3, ActorActs

(* An actor that has come to what it will store.                            *)
LEMMA StoringIs ==
    ASSUME TypeOK, NEW x \in Actors, NEW new \in Addon, NEW o \in Addon
    PROVE  /\ Storing(x, new).at = "persist" /\ Storing(x, new).new = new
           /\ Storing(x, new).of = run[x].of /\ Storing(x, new).job = run[x].job
           /\ Storing(x, new).obj = run[x].obj
           /\ LET s == [Storing(x, new) EXCEPT !.obj = o] IN
                 s.at = "persist" /\ s.new = new /\ s.of = run[x].of /\ s.job = run[x].job /\ s.obj = o
<1>1. run[x] \in Doing BY RunType
<1> QED BY <1>1 DEF Doing, Storing

(* A judge that looked at the copy.                                         *)
LEMMA JudgedFits ==
    ASSUME IInv, NEW t \in Tasks, run[t].at = "look", NEW s,
           LET a == run[t].of IN
              /\ listed[a].phase # "Absent"
              /\ s.of = a /\ s.at = "persist" /\ s.job = run[t].job /\ s.obj = listed[a]
              /\ s.new.uid = listed[a].uid /\ s.new.want = listed[a].want
              /\ (s.job = "upgrade" /\ s.new.phase = "Checking") \/ s.new.have = s.obj.have
              /\ s.job = "check" => s.new.phase \in {"Running", "Failed"}
              /\ s.job = "upgrade" =>
                    s.new.phase = "Failed" \/ (s.new.phase = "Checking" /\ s.new.have = s.new.want)
              /\ s.job = "watch" => s.new.phase = "Failed"
    PROVE  /\ Grounded(t, s)
           /\ First(s.of) /\ Quiet /\ Alone(s.of) => Content(s)
           /\ s.job # "upgrade" /\ First(s.of) => Finds(s)
<1> DEFINE a == run[t].of  r == run[t]
<1>1. TypeOK /\ t \in Actors /\ Fits(t, r) BY DEF IInv, Actors
<1>2. a \in Addons /\ t \notin Addons BY <1>1, AtWork, Typed
<1>3. Known(a) /\ listed[a] \in Addon /\ addons[a] \in Addon BY <1>1, <1>2, RunType DEF IInv
<1>4. Form(t, r) /\ r.job \in Judges BY <1>1, <1>2 DEF Fits, Grounded, Form, TaskForm
<1>5. Form(t, s)
  <2>1. Sane(s.obj) BY <1>3 DEF Known
  <2>2. TaskForm(s) BY <1>2, <1>4 DEF TaskForm, Judges, Building, Parts
  <2> QED BY <2>1, <2>2, <1>2 DEF Form
<1>6. ASSUME First(s.of) PROVE Ordered(s)
  <2>1. Ordered(r) /\ s.of = a BY <1>1, <1>6 DEF Fits, Grounded
  <2>2. Past(listed[a]) BY <2>1, <1>4 DEF Ordered
  <2>3. listed[a].phase \in Grown /\ listed[a].uid > 0
    BY <2>2, <1>3 DEF Past, Grown, Deployed, Addon, Phases
  <2>4. Before(listed[a], listed[a]) BY <1>3, BeforeItself
  <2> QED BY <2>1, <2>2, <2>3, <2>4, <1>4 DEF Ordered, Judges
<1>7. First(s.of) /\ Unhurried => Rebuilds(s) BY <1>4 DEF Rebuilds, Judges
<1>8. ASSUME First(s.of), Unedited PROVE Calm(s)
  <2>1. Calm(r) /\ s.of = a BY <1>1, <1>8 DEF Fits, Grounded
  <2>2. CalmKey(a) BY <1>3, <1>8 DEF Known
  <2>3. s.job \in {"check", "watch"} BY <2>1, <1>4 DEF Calm, Judges
  <2>4. CASE s.job = "watch" BY <2>4, <2>1, <2>2, <1>3 DEF Calm, CalmKey
  <2>5. CASE s.job = "check"
    <3>1. addons[a].phase \in {"Checking", "Absent"} BY <2>5, <2>1 DEF Calm
    <3>2. listed[a].phase = "Checking" \/ addons[a].phase = "Absent"
      <4>1. Past(listed[a]) BY <2>5, <1>1, <1>8 DEF Fits, Grounded, Ordered, Judges
      <4>2. listed[a].phase \in Grown
        BY <4>1, <1>3 DEF Past, Grown, Deployed, Addon, Phases
      <4> QED BY <3>1, <4>2, <2>2 DEF CalmKey, Steady, Grown, Deployed
    <3> QED BY <2>5, <3>2, <2>1, <2>2 DEF Calm, CalmKey
  <2> QED BY <2>3, <2>4, <2>5
<1>9. ASSUME First(s.of), Quiet, Alone(s.of) PROVE Content(s)
  BY <1>1, <1>4, <1>9 DEF Fits, Grounded, Finds, Content, Judges
<1>10. ASSUME s.job # "upgrade", First(s.of) PROVE Finds(s)
  BY <1>9, <1>10 DEF Finds, Version
<1> QED BY <1>5, <1>6, <1>7, <1>8, <1>9, <1>10 DEF Grounded

(* An installer that goes on: what it relies on but for the cluster.        *)
LEMMA InstallerFits ==
    ASSUME IInv, NEW x \in Actors, run[x].at \in Building, NEW s,
           s.of = run[x].of, s.job = run[x].job, s.obj = run[x].obj,
           s.at \in Building \cup {"persist"},
           x \in Addons => s.at # "rollback",
           s.at = "persist" =>
              /\ s.new.uid = s.obj.uid /\ s.new.want = s.obj.want
              /\ x \in Addons =>
                    /\ s.new.have = s.new.want
                    /\ s.new.phase = "Checking" \/ (s.new.phase = "Reinitializing" /\ s.new.retries = 1)
              /\ x \in Tasks =>
                    /\ s.new.have = s.obj.have
                    /\ s.new.phase \in {"Checking", "Failed", "Reinitializing"}
                    /\ s.new.retries >= s.obj.retries
                    /\ s.new.phase = "Reinitializing" => s.new.retries > s.obj.retries
    PROVE  /\ Grounded(x, s) /\ s.job \in {"install", "reinit"}
           /\ x \in Addons => s.job = "install"
           /\ x \in Tasks => s.job = "reinit"
           /\ First(s.of) /\ Quiet /\ Alone(s.of) /\ edits <= 1 => Version(s)
<1> DEFINE r == run[x]
<1>1. TypeOK /\ Fits(x, r) /\ r.at # "idle" BY DEF IInv, Building, Parts
<1>2. r.of \in Addons /\ (x \in Addons => r.of = x) /\ (x \notin Addons => x \in Tasks)
      /\ (x \in Addons => x \notin Tasks)
  BY <1>1, AtWork, Typed
<1>3. Form(x, r) BY <1>1 DEF Fits, Grounded
<1>4. CASE x \in Addons
  <2>1. WorkerForm(r) BY <1>3, <1>4 DEF Form
  <2>2. r.at \in Parts /\ r.job = "install" BY <2>1 DEF WorkerForm, Building, Parts
  <2>3. WorkerForm(s) BY <2>1, <2>2, <1>4 DEF WorkerForm, Building, Parts
  <2>4. Form(x, s) BY <2>3, <1>2, <1>3, <1>4 DEF Form
  <2>5. First(s.of) => Ordered(s) BY <2>2, <1>1 DEF Fits, Grounded, Ordered, Judges
  <2>6. Rebuilds(s) BY <2>2 DEF Rebuilds
  <2>7. First(s.of) /\ Unedited => Calm(s) BY <2>2, <1>1 DEF Fits, Grounded, Calm
  <2>8. First(s.of) /\ Quiet /\ Alone(s.of) /\ edits <= 1 => Version(s)
    BY <2>2, <1>1 DEF Fits, Grounded, Finds, Version
  <2> QED BY <2>2, <2>4, <2>5, <2>6, <2>7, <2>8, <1>2, <1>4 DEF Grounded
<1>5. CASE x \notin Addons
  <2>1. TaskForm(r) BY <1>3, <1>5 DEF Form
  <2>2. r.job = "reinit" BY <2>1 DEF TaskForm
  <2>3. TaskForm(s) BY <2>1, <2>2, <1>5, <1>2 DEF TaskForm, Building, Parts, Judges
  <2>4. Form(x, s) BY <2>3, <1>2, <1>3, <1>5 DEF Form
  <2>5. First(s.of) => Ordered(s) BY <2>2, <1>1 DEF Fits, Grounded, Ordered, Judges
  <2>6. First(s.of) /\ Unhurried => Rebuilds(s) BY <2>2, <1>1 DEF Fits, Grounded, Rebuilds
  <2>7. First(s.of) /\ Unedited => Calm(s) BY <2>2, <1>1 DEF Fits, Grounded, Calm
  <2>8. First(s.of) /\ Quiet /\ Alone(s.of) /\ edits <= 1 => Version(s)
    BY <2>2, <1>1 DEF Fits, Grounded, Finds, Version
  <2> QED BY <2>2, <2>4, <2>5, <2>6, <2>7, <2>8, <1>2, <1>5 DEF Grounded
<1> QED BY <1>4, <1>5

(* An installation that went wrong.                                         *)
LEMMA FailureKept ==
    ASSUME IInv, TypeOK', NEW x \in Actors, run[x].at \in Parts, run' = AfterFailure(x),
           UNCHANGED <<addons, listed, dirty, cached, checking, installed, image, edits>>, OnlyFaults
    PROVE  IInv'
<1> DEFINE obj == run[x].obj
           new == [obj EXCEPT !.have = obj.want, !.phase = "Reinitializing", !.retries = 1]
<1>1. /\ TypeOK /\ run[x].at # "idle" /\ run[x].at \in Building /\ run \in [Actors -> Doing]
      /\ run[x] \in Doing /\ obj \in Addon
  BY RunType DEF IInv, Parts, Building
<1>2. /\ new \in Addon /\ new.uid = obj.uid /\ new.want = obj.want /\ new.have = obj.want
      /\ new.phase = "Reinitializing" /\ new.retries = 1
  BY <1>1, Records DEF Addon, Phases
<1>3. CASE x \in Addons
  <2> DEFINE s == Storing(x, new)
  <2>1. Moves(x, s) BY <1>1, <1>2, <1>3, PersistsType, Moved DEF AfterFailure
  <2>2. s.at = "persist" /\ s.new = new /\ s.of = run[x].of /\ s.job = run[x].job /\ s.obj = obj
    BY <1>1, <1>2, StoringIs
  <2> HIDE DEF s, new
  <2>3. x \notin Tasks BY <1>3, AddonAssumption
  <2>4. /\ Grounded(x, s) /\ s.job = "install"
        /\ First(s.of) /\ Quiet /\ Alone(s.of) /\ edits <= 1 => Version(s)
    BY <2>2, <2>3, <1>1, <1>2, <1>3, InstallerFits
  <2>5. Content(s) BY <2>2, <2>4, <1>2 DEF Content, Judges
  <2>6. Fits(x, s) BY <2>4, <2>5 DEF Fits, Grounded, Finds
  <2> QED BY <2>1, <2>2, <2>6, <1>1, ActorActs
<1>4. CASE x \notin Addons
  <2> DEFINE s == [run[x] EXCEPT !.at = "rollback"]
  <2>1. Moves(x, s)
    <3>1. run' = [run EXCEPT ![x] = s] BY <1>1, <1>4 DEF AfterFailure
    <3> QED BY <3>1, <1>1, Moved
  <2>2. s.at = "rollback" /\ s.of = run[x].of /\ s.job = run[x].job /\ s.obj = obj
    BY <1>1 DEF Doing
  <2> HIDE DEF s
  <2>3. x \in Tasks BY <1>4 DEF Actors
  <2>4. /\ Grounded(x, s) /\ s.job = "reinit"
        /\ First(s.of) /\ Quiet /\ Alone(s.of) /\ edits <= 1 => Version(s)
    BY <2>2, <2>3, <1>1, <1>4, InstallerFits DEF Building
  <2>5. Content(s) BY <2>2, <2>4 DEF Content, Judges
  <2>6. Fits(x, s) BY <2>4, <2>5 DEF Fits, Grounded, Finds
  <2> QED BY <2>1, <2>2, <2>6, <1>1, ActorActs
<1> QED BY <1>3, <1>4

LEMMA QuietSteps ==
    ASSUME IInv, TypeOK'
    PROVE  /\ \A x \in Actors : CreateFails(x) \/ PersistFails(x) => IInv'
           /\ \A t \in Tasks : Check(t) \/ Watch(t) \/ LookFails(t) \/ Return(t) => IInv'
<1> USE DEF memory, onCluster
<1>0. TypeOK BY DEF IInv
<1>1. ASSUME NEW x \in Actors, CreateFails(x) PROVE IInv'
  BY <1>0, <1>1, OneFault, FailureKept DEF CreateFails
<1>2. ASSUME NEW x \in Actors, PersistFails(x) PROVE IInv'
  BY <1>0, <1>2, OneFault, EndKept DEF PersistFails
<1>3. ASSUME NEW t \in Tasks PROVE t \in Actors /\ t \notin Addons /\ run[t] \in Doing
  BY <1>0, <1>3, RunType, Typed DEF Actors
<1>4. ASSUME NEW t \in Tasks, run[t].at = "look", run[t].job # "upgrade",
             NEW new \in Addon, UNCHANGED <<addons, listed, dirty, cached, checking, onCluster, edits>>,
             OnlyFaults,
             LET a == run[t].of  obj == listed[a] IN
                /\ obj.phase # "Absent"
                /\ run' = [Persists(t, new) EXCEPT ![t].obj = obj]
                /\ new.uid = obj.uid /\ new.want = obj.want /\ new.have = obj.have
                /\ run[t].job = "check" => new.phase \in {"Running", "Failed"}
                /\ run[t].job = "watch" => new.phase = "Failed"
      PROVE  IInv'
  <2> DEFINE a == run[t].of  obj == listed[a]  s == [Storing(t, new) EXCEPT !.obj = obj]
  <2>1. a \in Addons /\ obj \in Addon BY <1>0, <1>3, <1>4, AtWork, RunType
  <2>2. Moves(t, s)
    <3>1. run' = [run EXCEPT ![t] = s] BY <2>1, <1>0, <1>3, <1>4, PersistsType, ZenonT(40)
    <3> QED BY <3>1, <1>0, <1>3, Moved
  <2>3. s.at = "persist" /\ s.new = new /\ s.of = a /\ s.job = run[t].job /\ s.obj = obj
    BY <2>1, <1>0, <1>3, <1>4, StoringIs
  <2> HIDE DEF s
  <2>4. Fits(t, s) BY <2>3, <1>4, JudgedFits DEF Fits, Grounded
  <2>5. s.job # "reinit"
    <3>1. Form(t, run[t]) BY <1>3, <1>4 DEF IInv, Fits, Grounded
    <3> QED BY <3>1, <2>3, <1>3, <1>4 DEF Form, TaskForm, Judges
  <2> QED BY <2>2, <2>3, <2>4, <2>5, <1>3, <1>4, ActorActs
<1>5. ASSUME NEW o \in Addon, NEW p \in Phases
      PROVE  LET new == [o EXCEPT !.phase = p] IN
             new \in Addon /\ new.uid = o.uid /\ new.want = o.want /\ new.have = o.have /\ new.phase = p
  BY DEF Addon
<1>6. ASSUME NEW t \in Tasks, Check(t) PROVE IInv'
  <2> DEFINE a == run[t].of  obj == listed[a]
  <2>1. obj \in Addon BY <1>0, <1>3, <1>6, AtWork, RunType DEF Check
  <2>2. CASE Ends(t, FALSE) /\ UNCHANGED happened
    BY <2>2, <1>3, <1>6, EndKept DEF Check, OnlyFaults
  <2>3. ASSUME NEW p \in {"Running", "Failed"}, obj.phase # "Absent", OnlyFaults,
               UNCHANGED <<dirty, cached>>,
               run' = [Persists(t, [obj EXCEPT !.phase = p]) EXCEPT ![t].obj = obj]
        PROVE  IInv'
    <3>1. p \in Phases BY DEF Phases
    <3> DEFINE new == [obj EXCEPT !.phase = p]
    <3>2. /\ new \in Addon /\ new.uid = obj.uid /\ new.want = obj.want /\ new.have = obj.have
          /\ new.phase = p
      BY <3>1, <2>1, <1>5
    <3>3. run' = [Persists(t, new) EXCEPT ![t].obj = obj] BY <2>3
    <3> HIDE DEF new
    <3> QED BY <3>2, <3>3, <2>3, <1>4, <1>6 DEF Check
  <2>4. CASE UNCHANGED happened BY <2>2, <2>3, <2>4, <1>6 DEF Check, OnlyFaults
  <2>5. CASE Fault("sick") BY <2>2, <2>3, <2>5, <1>0, <1>6, OneFault DEF Check
  <2> QED BY <2>4, <2>5, <1>6 DEF Check
<1>7. ASSUME NEW t \in Tasks, Watch(t) PROVE IInv'
  <2> DEFINE a == run[t].of  obj == listed[a]  new == [obj EXCEPT !.phase = "Failed"]
  <2>1. obj \in Addon BY <1>0, <1>3, <1>7, AtWork, RunType DEF Watch
  <2>2. CASE Ends(t, FALSE) BY <2>2, <1>3, <1>7, EndKept DEF Watch, OnlyFaults
  <2>3. CASE /\ obj.phase # "Absent" /\ UNCHANGED <<dirty, cached>>
             /\ run' = [Persists(t, new) EXCEPT ![t].obj = obj]
    <3>1. /\ new \in Addon /\ new.uid = obj.uid /\ new.want = obj.want /\ new.have = obj.have
          /\ new.phase = "Failed"
      BY <2>1, <1>5 DEF Phases
    <3> HIDE DEF new
    <3> QED BY <3>1, <2>3, <1>4, <1>7 DEF Watch, OnlyFaults
  <2> QED BY <2>2, <2>3, <1>7 DEF Watch
<1>8. ASSUME NEW t \in Tasks, LookFails(t) PROVE IInv'
  BY <1>0, <1>3, <1>8, OneFault, EndKept DEF LookFails
<1>9. ASSUME NEW t \in Tasks, Return(t) PROVE IInv'
  <2>1. Moves(t, Idle(t)) BY <1>0, <1>3, <1>9, Moved DEF Return
  <2>2. Idle(t).at = "idle" BY DEF Idle
  <2> QED BY <2>1, <2>2, <1>3, <1>9, ActorActs DEF Return, OnlyFaults, Fits, Grounded
<1> QED BY <1>1, <1>2, <1>6, <1>7, <1>8, <1>9

------------------------------------------------------------------------------
(* Steps that change what is installed.                                     *)

(* Nothing depends on the objects of an add-on while it is being            *)
(* reinstalled or dropped.                                                  *)
LEMMA Unrelied ==
    ASSUME IInv, UNCHANGED <<addons, listed>>, NEW x \in Actors, run[x].at # "idle",
           run[x].job = "drop" \/ run[x].at = "rollback" \/ (x \in Tasks /\ run[x].at \in Parts),
           NEW a \in Addons, First(a), Quiet, Alone(a)
    PROVE  /\ ContentKey(a)' /\ (edits <= 1 => VersionKey(a)')
           /\ \A y \in Actors \ {x} : Works(y, a) =>
                 \A r : r = run[y] => Content(r)' /\ (edits <= 1 => Version(r)')
<1> DEFINE p == run[x]
<1>1. TypeOK /\ Known(a) /\ Alike(a) /\ Fits(x, p) BY DEF IInv
<1>2. /\ p.of = a /\ (x \in Addons => x = a) /\ (x \notin Addons => x \in Tasks)
      /\ (x \in Addons => x \notin Tasks)
  BY <1>1, Solo, AtWork, Typed
<1>3. Unhurried BY DEF Quiet, Unhurried
<1>4. Exclusive(a) /\ OneRebuilds(a) /\ OrderedKey(a) /\ ContentKey(a) /\ (edits <= 1 => VersionKey(a))
  BY <1>1, <1>3 DEF Alike, Known, FindsKey
<1>5. Form(x, p) /\ Ordered(p) /\ Rebuilds(p) BY <1>1, <1>2, <1>3 DEF Fits, Grounded
<1>6. \/ x \in Addons /\ p.job = "drop"
      \/ x \in Tasks /\ p.at \in Building /\ p.job = "reinit"
  BY <1>2, <1>5 DEF Form, WorkerForm, TaskForm, Building, Parts, Judges
<1>7. ASSUME NEW y \in Actors \ {x}, Works(y, a), NEW r, r = run[y]
      PROVE  /\ Form(y, r) /\ Ordered(r) /\ r.of = a /\ (edits <= 1 => Version(r))
             /\ r.job # "install"
  <2>1. Fits(y, r) /\ r.at # "idle" /\ r.of = a BY <1>7 DEF IInv, Works
  <2>2. Form(y, r) /\ Ordered(r) /\ (edits <= 1 => Version(r)) BY <2>1 DEF Fits, Grounded, Finds
  <2>3. ASSUME r.job = "install" PROVE FALSE
    <3>1. y \in Addons BY <2>2, <2>3 DEF Form, TaskForm, Judges
    <3>2. y = a BY <3>1, <2>1, <2>2 DEF Form
    <3>3. x \in Tasks /\ Works(x, a) BY <3>2, <1>2, <1>6, <1>7 DEF Works
    <3> QED BY <3>2, <3>3, <2>1, <2>3, <1>4, <1>7 DEF Exclusive
  <2> QED BY <2>1, <2>2, <2>3
<1>8. CASE addons[a].phase = "Absent"
  <2>1. ContentKey(a)' BY <1>8 DEF ContentKey
  <2>2. VersionKey(a)' BY <1>8 DEF VersionKey, Grown, Deployed
  <2>3. ASSUME NEW y \in Actors \ {x}, Works(y, a), NEW r, r = run[y]
        PROVE  Content(r)' /\ Version(r)'
    <3>1. Form(y, r) /\ r.of = a /\ r.job # "install" BY <2>3, <1>7
    <3>2. r.job = "reinit" => r.obj.phase = "Reinitializing"
      BY <3>1 DEF Form, TaskForm, WorkerForm, Parts
    <3>3. Content(r)' BY <3>1, <3>2, <1>8 DEF Content
    <3>4. Version(r)' BY <3>1, <1>8 DEF Version
    <3> QED BY <3>3, <3>4
  <2> QED BY <2>1, <2>2, <2>3
<1>9. CASE addons[a].phase # "Absent"
  <2>1. x \in Tasks /\ p.job = "reinit" /\ addons[a] = p.obj /\ p.obj.phase = "Reinitializing"
    BY <1>2, <1>5, <1>6, <1>9 DEF Ordered, Rebuilds, Form, TaskForm
  <2>2. ~Past(listed[a]) BY <2>1, <1>4 DEF OrderedKey, Before, Past
  <2>3. ContentKey(a)'
    <3>1. listed[a].phase \notin Deployed BY <2>2, <1>1 DEF Past, Deployed, Known, Sane
    <3> QED BY <3>1, <2>1 DEF ContentKey, Deployed
  <2>4. edits <= 1 => VersionKey(a)' BY <2>1, <1>4 DEF VersionKey, Grown, Deployed
  <2>5. ASSUME NEW y \in Actors \ {x}, Works(y, a), NEW r, r = run[y]
        PROVE  Content(r)' /\ (edits <= 1 => Version(r)')
    <3>1. /\ Form(y, r) /\ Ordered(r) /\ r.of = a /\ r.job # "install"
          /\ (edits <= 1 => Version(r))
      BY <2>5, <1>7
    <3>2. r.job \notin Judges BY <3>1, <2>2 DEF Ordered
    <3>3. ~(r.job = "reinit" /\ addons[a] = r.obj)
      <4>1. ASSUME r.job = "reinit", addons[a] = r.obj PROVE FALSE
        <5>1. y \in Tasks BY <4>1, <3>1, <2>5 DEF Form, WorkerForm, Parts, Actors
        <5>2. Does(y, a, "reinit") /\ Does(x, a, "reinit")
          BY <4>1, <2>1, <2>5, <1>2 DEF Does, Works
        <5> QED BY <5>1, <5>2, <4>1, <2>1, <2>5, <1>4 DEF OneRebuilds
      <4> QED BY <4>1
    <3>4. Content(r)' BY <3>1, <3>2, <3>3 DEF Content
    <3>5. edits <= 1 => Version(r)' BY <3>1, <3>2 DEF Version, Judges
    <3> QED BY <3>4, <3>5
  <2> QED BY <2>3, <2>4, <2>5
<1> QED BY <1>8, <1>9

(* A worker that creates something is alone with it.                        *)
LEMMA FreshInstall ==
    ASSUME IInv, UNCHANGED <<addons, listed>>, NEW x \in Addons, run[x].at \in Parts,
           run[x].at \notin installed,
           NEW a \in Addons, First(a), Quiet, Alone(a)
    PROVE  /\ ContentKey(a)' /\ (edits <= 1 => VersionKey(a)')
           /\ \A y \in Actors \ {x} : ~Works(y, a)
<1> DEFINE p == run[x]
<1>1. TypeOK /\ Known(a) /\ Alike(a) /\ x \in Actors /\ p.at # "idle" BY DEF IInv, Parts, Actors
<1>2. Fits(x, p) /\ p.of = a /\ x = a BY <1>1, Solo, AtWork DEF IInv
<1>3. Exclusive(a) /\ ContentKey(a) /\ (edits <= 1 => VersionKey(a))
  BY <1>1 DEF Alike, Known, FindsKey
<1>4. Form(x, p) /\ Ordered(p) /\ p.job = "install"
  BY <1>1, <1>2 DEF Fits, Grounded, Form, WorkerForm
<1>5. installed # Parts BY DEF Parts
<1>6. addons[a].phase \in {"Initializing", "Reinitializing", "Absent"}
  BY <1>2, <1>3, <1>4, <1>5 DEF Ordered, ContentKey, Deployed
<1>7. listed[a].phase \in Deployed => addons[a].phase = "Absent"
  BY <1>3, <1>5 DEF ContentKey
<1>8. ContentKey(a)' BY <1>6, <1>7 DEF ContentKey, Deployed
<1>9. edits <= 1 => VersionKey(a)' BY <1>6, <1>3 DEF VersionKey, Grown, Deployed
<1>10. ASSUME NEW y \in Actors \ {x}, Works(y, a) PROVE FALSE
  <2>1. y \in Tasks \/ y = a BY <1>10, AtWork DEF Works, Actors
  <2> QED BY <2>1, <1>1, <1>2, <1>3, <1>4, <1>10 DEF Exclusive
<1> QED BY <1>8, <1>9, <1>10

LEMMA InstallerMoves ==
    ASSUME IInv, TypeOK', NEW x \in Actors, run[x].at \in Building,
           x \in Addons => run[x].at \notin installed /\ run[x].at \in Parts,
           NEW s, Moves(x, s),
           s.at # "idle" => /\ s.of = run[x].of /\ s.job = run[x].job /\ s.obj = run[x].obj
                            /\ Grounded(x, s) /\ s.job \in {"install", "reinit"}
                            /\ First(s.of) /\ Quiet /\ Alone(s.of) =>
                                  Content(s)' /\ (edits <= 1 => Version(s)),
           UNCHANGED <<addons, listed, dirty, cached, checking, edits>>, OnlyFaults
    PROVE  IInv'
<1>1. /\ TypeOK /\ History /\ run[x].at # "idle" /\ (x \notin Addons => x \in Tasks)
      /\ \A a \in Addons : Known(a)
  BY DEF IInv, Building, Parts, Actors
<1>2. Onward BY <1>1, FaultHistory
<1>3. run[x].of \in Addons BY <1>1, AtWork
<1>4. Fits(x, s)'
  <2>1. s.at # "idle" /\ First(s.of) => Finds(s)'
    <3>1. SUFFICES ASSUME s.at # "idle", First(s.of), Quiet', Alone(s.of)'
                   PROVE  Content(s)' /\ (edits' <= 1 => Version(s)')
      BY DEF Finds
    <3>2. Quiet /\ Alone(s.of) BY <3>1, <1>1, <1>2, <1>3, Later
    <3>3. Content(s)' /\ (edits <= 1 => Version(s)) BY <3>1, <3>2
    <3>4. Version(s) => Version(s)' BY <3>1 DEF Version
    <3> QED BY <3>3, <3>4
  <2>2. s.at # "idle" => s.of \in Addons BY <1>3
  <2> QED BY <2>1, <2>2, <1>1, <1>2, StillFits
<1>5. ASSUME NEW a \in Addons, First(a)
      PROVE  FindsKey(a)' /\ \A y \in Actors \ {x} : Works(y, a) => Finds(run[y])'
  <2>1. SUFFICES ASSUME Quiet', Alone(a)'
                 PROVE  /\ ContentKey(a)' /\ (edits <= 1 => VersionKey(a)')
                        /\ \A y \in Actors \ {x} : Works(y, a) =>
                              \A r : r = run[y] => Content(r)' /\ (edits <= 1 => Version(r)')
    <3>1. FindsKey(a)' BY <2>1 DEF FindsKey
    <3>2. ASSUME NEW y \in Actors \ {x}, Works(y, a) PROVE Finds(run[y])'
      <4> PICK r : r = run[y] OBVIOUS
      <4>1. r.of = a BY <3>2 DEF Works
      <4>2. Finds(r)' BY <2>1, <4>1, <3>2 DEF Finds
      <4>3. run'[y] = r BY DEF Moves
      <4> QED BY <4>2, <4>3
    <3> QED BY <3>1, <3>2
  <2>2. Quiet /\ Alone(a) BY <2>1, <1>1, <1>2, Later
  <2>3. CASE x \in Addons BY <2>2, <2>3, <1>1, <1>5, FreshInstall
  <2>4. CASE x \notin Addons
    <3>1. run[x].at = "rollback" \/ (x \in Tasks /\ run[x].at \in Parts)
      BY <2>4, <1>1 DEF Building
    <3> QED BY <3>1, <2>2, <1>1, <1>5, Unrelied
  <2> QED BY <2>3, <2>4
<1>6. \A a \in Addons : First(a) => cached'[a] <= listed[a].uid
  BY <1>1 DEF Known, OrderedKey
<1> QED BY <1>1, <1>4, <1>5, <1>6, ActorMoves

LEMMA KeptCreatePart ==
    ASSUME IInv, TypeOK', NEW x \in Actors, CreatePart(x)
    PROVE  IInv'
<1> USE DEF memory, onCluster
<1> DEFINE p == run[x]  obj == p.obj
<1>1. /\ TypeOK /\ p.at \in Parts /\ p.at \in Building /\ p.at # "idle" /\ p.at # "rollback"
      /\ run \in [Actors -> Doing] /\ p \in Doing /\ obj \in Addon
      /\ UNCHANGED <<addons, listed, dirty, cached, checking, edits>> /\ OnlyFaults
  BY RunType DEF IInv, CreatePart, Parts, Building, OnlyFaults
<1>2. CASE p.at \in installed BY <1>2, <1>1, FailureKept DEF CreatePart
<1>3. CASE p.at \notin installed /\ p.at = "account"
  <2> PICK s : s = [p EXCEPT !.at = "deployment"] OBVIOUS
  <2>1. Moves(x, s)
    <3>1. run' = [run EXCEPT ![x] = s] BY <1>1, <1>3 DEF CreatePart
    <3> QED BY <3>1, <1>1, Moved
  <2>2. s.at = "deployment" /\ s.of = p.of /\ s.job = p.job /\ s.obj = obj BY <1>1 DEF Doing
  <2>3. /\ Grounded(x, s) /\ s.job \in {"install", "reinit"}
        /\ First(s.of) /\ Quiet /\ Alone(s.of) /\ edits <= 1 => Version(s)
    BY <2>2, <1>1, InstallerFits DEF Building, Parts
  <2>4. Content(s)' BY <2>2, <2>3, <1>3 DEF Content, CreatePart, Judges
  <2> QED BY <2>1, <2>2, <2>3, <2>4, <1>1, <1>3, InstallerMoves
<1>4. CASE p.at \notin installed /\ p.at = "deployment"
  <2>1. PICK new \in Addon :
           /\ AfterInstall(x) = Persists(x, new)
           /\ new.uid = obj.uid /\ new.want = obj.want /\ new.phase = "Checking"
           /\ x \in Addons => new.have = new.want
           /\ x \notin Addons => new.have = obj.have /\ new.retries = obj.retries
    <3> DEFINE n == IF x \in Addons
                    THEN [obj EXCEPT !.have = obj.want, !.phase = "Checking", !.retries = 0]
                    ELSE [obj EXCEPT !.phase = "Checking"]
    <3>1. /\ n \in Addon /\ n.uid = obj.uid /\ n.want = obj.want /\ n.phase = "Checking"
          /\ x \in Addons => n.have = n.want
          /\ x \notin Addons => n.have = obj.have /\ n.retries = obj.retries
      BY <1>1, Records DEF Addon, Phases
    <3>2. AfterInstall(x) = Persists(x, n) BY DEF AfterInstall
    <3> QED BY <3>1, <3>2
  <2> PICK s : s = Storing(x, new) OBVIOUS
  <2>2. Moves(x, s)
    <3>1. run' = [run EXCEPT ![x] = s] BY <1>1, <1>4, <2>1, PersistsType DEF CreatePart
    <3> QED BY <3>1, <1>1, Moved
  <2>3. s.at = "persist" /\ s.new = new /\ s.of = p.of /\ s.job = p.job /\ s.obj = obj
    BY <1>1, StoringIs
  <2>4. obj.retries \in Nat /\ (x \in Addons => x \notin Tasks)
    BY <1>1, AddonAssumption DEF Addon
  <2>5. /\ Grounded(x, s) /\ s.job \in {"install", "reinit"}
        /\ First(s.of) /\ Quiet /\ Alone(s.of) /\ edits <= 1 => Version(s)
    <3>1. x \in Tasks => new.retries >= obj.retries BY <2>1, <2>4
    <3> QED BY <2>1, <2>3, <2>4, <3>1, <1>1, <1>4, InstallerFits
  <2>6. ASSUME First(s.of), Quiet, Alone(s.of) PROVE Content(s)'
    <3>1. Content(p) BY <2>3, <2>6, <1>1 DEF IInv, Fits, Finds
    <3>2. p.job = "install" \/ (p.job = "reinit" /\ addons[p.of] = obj) => "account" \in installed
      BY <3>1, <1>4 DEF Content
    <3>3. installed' = installed \cup {"deployment"} /\ image' = obj.want
      BY <1>4 DEF CreatePart
    <3>4. installed \subseteq Parts BY <1>1 DEF TypeOK
    <3>5. p.job = "install" \/ (p.job = "reinit" /\ addons[p.of] = obj) => installed' = Parts
      BY <3>2, <3>3, <3>4 DEF Parts
    <3>6. addons' = addons BY <1>1
    <3> QED BY <2>1, <2>3, <2>5, <3>3, <3>5, <3>6 DEF Content, Judges
  <2> QED BY <2>2, <2>3, <2>5, <2>6, <1>1, <1>4, InstallerMoves
<1> QED BY <1>1, <1>2, <1>3, <1>4 DEF Parts

LEMMA KeptRollback ==
    ASSUME IInv, TypeOK', NEW x \in Actors, Rollback(x) \/ RollbackFails(x)
    PROVE  IInv'
<1> USE DEF memory, onCluster
<1> DEFINE p == run[x]  obj == p.obj
<1>1. /\ TypeOK /\ p.at = "rollback" /\ p.at \in Building /\ p.at # "idle"
      /\ run \in [Actors -> Doing] /\ p \in Doing /\ obj \in Addon
      /\ UNCHANGED <<addons, listed, checking, edits>>
  BY RunType DEF IInv, Rollback, RollbackFails, Building
<1>2. Form(x, p) BY <1>1 DEF IInv, Fits, Grounded
<1>3. x \notin Addons /\ x \in Tasks /\ p.job = "reinit"
  BY <1>1, <1>2 DEF Form, WorkerForm, TaskForm, Parts, Actors
<1>4. CASE RollbackFails(x)
  <2>1. run' = [run EXCEPT ![x] = Idle(x)] /\ UNCHANGED <<dirty, cached>>
    BY <1>3, <1>4 DEF RollbackFails, Ends
  <2>2. Moves(x, Idle(x)) /\ Idle(x).at = "idle" BY <2>1, <1>1, Moved DEF Idle
  <2>3. OnlyFaults BY <1>1, <1>4, OneFault DEF RollbackFails
  <2> QED BY <2>1, <2>2, <2>3, <1>1, <1>3, InstallerMoves
<1>5. CASE Rollback(x)
  <2>1. PICK new \in Addon :
           /\ run' = Persists(x, new)
           /\ new.uid = obj.uid /\ new.want = obj.want /\ new.have = obj.have
           /\ new.retries >= obj.retries
           /\ \/ new.phase = "Failed"
              \/ new.phase = obj.phase /\ new.retries > obj.retries
    <3>1. obj.retries \in 0..MaxRetry /\ MaxRetry \in Nat BY <1>1, Records, AddonAssumption
    <3>2. CASE obj.retries = MaxRetry
      <4> DEFINE n == [obj EXCEPT !.phase = "Failed"]
      <4>1. /\ n \in Addon /\ n.uid = obj.uid /\ n.want = obj.want /\ n.have = obj.have
            /\ n.retries = obj.retries /\ n.phase = "Failed"
        BY <1>1 DEF Addon, Phases
      <4>2. run' = Persists(x, n) BY <3>2, <1>5 DEF Rollback
      <4> HIDE DEF n
      <4>3. n.retries >= obj.retries BY <3>1, <4>1
      <4> QED BY <4>1, <4>2, <4>3
    <3>3. CASE obj.retries # MaxRetry
      <4> DEFINE n == [obj EXCEPT !.retries = @ + 1]
      <4>1. obj.retries + 1 \in 0..MaxRetry BY <3>1, <3>3
      <4>2. /\ n \in Addon /\ n.uid = obj.uid /\ n.want = obj.want /\ n.have = obj.have
            /\ n.retries = obj.retries + 1 /\ n.phase = obj.phase
        BY <1>1, <4>1 DEF Addon
      <4>3. run' = Persists(x, n) BY <3>3, <1>5 DEF Rollback
      <4> HIDE DEF n
      <4>4. n.retries >= obj.retries /\ n.retries > obj.retries BY <3>1, <4>2
      <4> QED BY <4>2, <4>3, <4>4
    <3> QED BY <3>2, <3>3
  <2> PICK s : s = Storing(x, new) OBVIOUS
  <2>2. Moves(x, s)
    <3>1. run' = [run EXCEPT ![x] = s] BY <1>1, <2>1, PersistsType
    <3> QED BY <3>1, <1>1, Moved
  <2>3. s.at = "persist" /\ s.new = new /\ s.of = p.of /\ s.job = p.job /\ s.obj = obj
    BY <1>1, StoringIs
  <2>4. obj.phase = "Reinitializing" BY <1>2, <1>3 DEF Form, TaskForm
  <2>5. /\ Grounded(x, s) /\ s.job \in {"install", "reinit"}
        /\ First(s.of) /\ Quiet /\ Alone(s.of) /\ edits <= 1 => Version(s)
    BY <2>1, <2>3, <2>4, <1>1, <1>3, InstallerFits
  <2>6. installed' = {} /\ UNCHANGED <<dirty, cached>> /\ OnlyFaults
    BY <1>5 DEF Rollback, OnlyFaults
  <2>7. Content(s)' BY <2>1, <2>3, <2>4, <2>6, <1>3 DEF Content, Judges
  <2> QED BY <2>2, <2>3, <2>5, <2>6, <2>7, <1>1, <1>3, InstallerMoves
<1> QED BY <1>4, <1>5

(* What goes on while the deployment gets another version.                  *)
LEMMA Upgraded ==
    ASSUME IInv, UNCHANGED <<addons, listed, installed, edits>>, NEW t \in Tasks,
           run[t].job = "upgrade", run[t].at = "look", listed[run[t].of].phase # "Absent",
           image' = image \/ image' = listed[run[t].of].want,
           NEW a \in Addons, First(a), Quiet, Alone(a)
    PROVE  /\ ContentKey(a)' /\ (edits <= 1 => VersionKey(a)')
           /\ \A y \in Actors \ {t} : Works(y, a) =>
                 \A r : r = run[y] => Content(r)' /\ (edits <= 1 => Version(r)')
<1> DEFINE p == run[t]
<1>1. TypeOK /\ Known(a) /\ Alike(a) /\ t \in Actors /\ Fits(t, p) /\ p.at # "idle"
  BY DEF IInv, Actors
<1>2. p.of = a BY <1>1, Solo
<1>3. Exclusive(a) /\ OrderedKey(a) /\ ContentKey(a) /\ (edits <= 1 => VersionKey(a))
  BY <1>1 DEF Alike, Known, FindsKey
<1>4. Past(listed[a]) BY <1>1, <1>2 DEF Fits, Grounded, Ordered, Judges
<1>5. addons[a].phase # "Reinitializing" BY <1>3, <1>4 DEF OrderedKey, Before, Past
<1>6. image' = image \/ image' = listed[a].want BY <1>2
<1>7. ContentKey(a)' BY <1>3 DEF ContentKey
<1>8. ASSUME edits <= 1 PROVE VersionKey(a)'
  BY <1>2, <1>3, <1>6, <1>8 DEF VersionKey, Grown, Deployed
<1>9. ASSUME NEW y \in Actors \ {t}, Works(y, a), NEW r, r = run[y]
      PROVE  Content(r)' /\ (edits <= 1 => Version(r)')
  <2>1. Fits(y, r) /\ r.at # "idle" /\ r.of = a BY <1>9 DEF IInv, Works
  <2>2. Form(y, r) /\ Ordered(r) /\ Content(r) /\ (edits <= 1 => Version(r))
    BY <2>1 DEF Fits, Grounded, Finds
  <2>3. r.job # "install"
    <3>1. ASSUME r.job = "install" PROVE FALSE
      <4>1. y \in Addons BY <2>2, <3>1 DEF Form, TaskForm, Judges
      <4>2. y = a BY <4>1, <2>1, <2>2 DEF Form
      <4>3. Works(t, a) BY <1>1, <1>2 DEF Works
      <4> QED BY <4>2, <4>3, <2>1, <3>1, <1>3, <1>9 DEF Exclusive
    <3> QED BY <3>1
  <2>4. r.job = "reinit" => addons[a] # r.obj
    <3>1. r.job = "reinit" => r.obj.phase = "Reinitializing"
      BY <2>2 DEF Form, TaskForm, WorkerForm, Parts
    <3> QED BY <3>1, <1>5
  <2>5. Content(r)' BY <2>1, <2>2, <2>3, <2>4 DEF Content
  <2>6. ASSUME edits <= 1 PROVE Version(r)'
    <3>1. Version(r) BY <2>2, <2>6
    <3>2. r.job = "upgrade" /\ r.at = "persist" => r.obj.phase # "Absent"
      BY <2>2 DEF Ordered, Judges, Grown, Deployed
    <3> QED BY <3>1, <3>2, <2>1, <1>2, <1>6 DEF Version
  <2> QED BY <2>5, <2>6
<1> QED BY <1>7, <1>8, <1>9

LEMMA KeptUpgrade ==
    ASSUME IInv, TypeOK', NEW t \in Tasks, Upgrade(t)
    PROVE  IInv'
<1> USE DEF memory, onCluster
<1> DEFINE p == run[t]  a == p.of  obj == listed[a]
<1>1. /\ TypeOK /\ History /\ t \in Actors /\ p.at = "look" /\ p.job = "upgrade" /\ p.at # "idle"
      /\ UNCHANGED <<addons, listed, checking, installed, edits>> /\ OnlyFaults
  BY DEF IInv, Upgrade, OnlyFaults, Actors
<1>2. a \in Addons /\ obj \in Addon BY <1>1, AtWork, RunType
<1>3. CASE Ends(t, FALSE) /\ UNCHANGED image BY <1>1, <1>3, EndKept
<1>4. ASSUME NEW new \in Addon, obj.phase # "Absent", UNCHANGED <<dirty, cached>>,
             run' = [Persists(t, new) EXCEPT ![t].obj = obj],
             new.uid = obj.uid, new.want = obj.want,
             \/ /\ new.phase = "Checking" /\ new.have = obj.want
                /\ image' = obj.want
             \/ new.phase = "Failed" /\ new.have = obj.have /\ image' = image
      PROVE  IInv'
  <2> PICK s : s = [Storing(t, new) EXCEPT !.obj = obj] OBVIOUS
  <2>1. Moves(t, s)
    <3>1. run' = [run EXCEPT ![t] = s] BY <1>1, <1>2, <1>4, PersistsType
    <3> QED BY <3>1, <1>1, Moved
  <2>2. s.at = "persist" /\ s.new = new /\ s.of = a /\ s.job = "upgrade" /\ s.obj = obj
    BY <1>1, <1>2, StoringIs
  <2>3. Grounded(t, s) /\ (First(s.of) /\ Quiet /\ Alone(s.of) => Content(s))
    BY <2>2, <1>1, <1>4, JudgedFits
  <2>4. Onward BY <1>1, FaultHistory
  <2>5. First(s.of) => Finds(s)'
    <3>1. SUFFICES ASSUME First(s.of), Quiet', Alone(s.of)'
                   PROVE  Content(s)' /\ Version(s)'
      BY DEF Finds
    <3>2. Content(s) BY <3>1, <2>2, <2>3, <2>4, <1>1, <1>2, Later
    <3>3. Content(s)' BY <3>2, <2>2, <1>1 DEF Content
    <3>4. Version(s)' BY <2>2, <1>1, <1>4 DEF Version
    <3> QED BY <3>3, <3>4
  <2>6. Fits(t, s)' BY <2>2, <2>3, <2>4, <2>5, <1>1, <1>2, StillFits
  <2>7. ASSUME NEW b \in Addons, First(b)
        PROVE  FindsKey(b)' /\ \A y \in Actors \ {t} : Works(y, b) => Finds(run[y])'
    <3>1. SUFFICES ASSUME Quiet', Alone(b)'
                   PROVE  /\ ContentKey(b)' /\ (edits <= 1 => VersionKey(b)')
                          /\ \A y \in Actors \ {t} : Works(y, b) =>
                                \A r : r = run[y] => Content(r)' /\ (edits <= 1 => Version(r)')
      <4>1. FindsKey(b)' BY <3>1, <1>1 DEF FindsKey
      <4>2. ASSUME NEW y \in Actors \ {t}, Works(y, b) PROVE Finds(run[y])'
        <5> PICK r : r = run[y] OBVIOUS
        <5>1. r.of = b BY <4>2 DEF Works
        <5>2. Finds(r)' BY <3>1, <5>1, <4>2, <1>1 DEF Finds
        <5>3. run'[y] = r BY <2>1 DEF Moves
        <5> QED BY <5>2, <5>3
      <4> QED BY <4>1, <4>2
    <3>2. Quiet /\ Alone(b) BY <3>1, <2>4, <1>1, Later
    <3>3. image' = image \/ image' = obj.want BY <1>4
    <3> QED BY <3>2, <3>3, <2>7, <1>1, <1>4, Upgraded
  <2>8. \A b \in Addons : First(b) => cached'[b] <= listed[b].uid
    BY <1>4 DEF IInv, Known, OrderedKey
  <2> QED BY <2>1, <2>2, <2>6, <2>7, <2>8, <1>1, <1>4, ActorMoves
<1>5. CASE obj.phase # "Absent" /\ UNCHANGED <<dirty, cached>> /\ "deployment" \in installed
           /\ run' = [Persists(t, [obj EXCEPT !.have = obj.want, !.phase = "Checking"]) EXCEPT ![t].obj = obj]
           /\ image' = obj.want
  <2> DEFINE new == [obj EXCEPT !.have = obj.want, !.phase = "Checking"]
  <2>1. /\ new \in Addon /\ new.uid = obj.uid /\ new.want = obj.want
        /\ new.phase = "Checking" /\ new.have = obj.want
    BY <1>2, Records DEF Addon, Phases
  <2>2. run' = [Persists(t, new) EXCEPT ![t].obj = obj] BY <1>5
  <2> HIDE DEF new
  <2> QED BY <2>1, <2>2, <1>4, <1>5
<1>6. CASE obj.phase # "Absent" /\ UNCHANGED <<dirty, cached>>
           /\ run' = [Persists(t, [obj EXCEPT !.phase = "Failed"]) EXCEPT ![t].obj = obj]
           /\ image' = image
  <2> DEFINE new == [obj EXCEPT !.phase = "Failed"]
  <2>1. /\ new \in Addon /\ new.uid = obj.uid /\ new.want = obj.want
        /\ new.phase = "Failed" /\ new.have = obj.have
    BY <1>2 DEF Addon, Phases
  <2>2. run' = [Persists(t, new) EXCEPT ![t].obj = obj] BY <1>6
  <2> HIDE DEF new
  <2> QED BY <2>1, <2>2, <1>4, <1>6
<1> QED BY <1>3, <1>5, <1>6 DEF Upgrade

------------------------------------------------------------------------------
(* A sync, which gives out a version.                                       *)

(* Actor x starts to work on version obj; s is its state.                   *)
Starts(x, s, a, obj) ==
    /\ s.of = a /\ s.obj = obj
    /\ \/ /\ x = a /\ s.job = "install" /\ s.at = "account" /\ obj.phase = "Initializing"
       \/ /\ x = a /\ s.job = "start upgrade" /\ s.at = "persist"
          /\ obj.phase = "Running" /\ obj.want # obj.have
          /\ s.new.uid = obj.uid /\ s.new.want = obj.want /\ s.new.have = obj.have
          /\ s.new.phase = "Upgrading"
       \/ x \in Tasks /\ s.job = "reinit" /\ s.at = "account" /\ obj.phase = "Reinitializing"
       \/ x \in Tasks /\ s.at = "look" /\ s.job = "check" /\ obj.phase = "Checking"
       \/ x \in Tasks /\ s.at = "look" /\ s.job = "upgrade" /\ obj.phase = "Upgrading"
       \/ /\ x \in Tasks /\ s.at = "look" /\ s.job = "watch"
          /\ obj.phase = "Running" /\ obj.want = obj.have

Sets(a, x, s) ==
    \A y \in Actors : run'[y] = IF y = x THEN s ELSE IF y = a THEN Idle(a) ELSE run[y]

LEMMA GoMoves ==
    ASSUME TypeOK, NEW a \in Addons, NEW obj \in Addon,
           NEW job \in {"reinit", "check", "upgrade", "watch"}, NEW at \in {"account", "look"},
           Go(a, obj, job, at)
    PROVE  /\ cached' = [cached EXCEPT ![a] = obj.uid]
           /\ \E x \in Tasks : \E s :
                 /\ run[x].at = "idle" /\ Sets(a, x, s)
                 /\ s.of = a /\ s.obj = obj /\ s.job = job /\ s.at = at
<1>1. PICK t \in Tasks :
         /\ run[t].at = "idle"
         /\ run' = [run EXCEPT ![t] = [of |-> a, job |-> job, at |-> at, obj |-> obj, new |-> obj],
                               ![a] = Idle(a)]
         /\ cached' = [cached EXCEPT ![a] = obj.uid]
  BY DEF Go
<1> DEFINE s == [of |-> a, job |-> job, at |-> at, obj |-> obj, new |-> obj]
<1>2. run \in [Actors -> Doing] /\ t \in Actors /\ a \in Actors /\ t # a
  BY RunType, AddonAssumption DEF Actors
<1>3. Sets(a, t, s) BY <1>1, <1>2 DEF Sets
<1>4. s.of = a /\ s.obj = obj /\ s.job = job /\ s.at = at OBVIOUS
<1> QED BY <1>1, <1>3, <1>4

LEMMA DispatchMoves ==
    ASSUME TypeOK, NEW a \in Addons, NEW obj \in Addon, NEW entry, Dispatch(a, obj, entry)
    PROVE  /\ checking \ {a} \subseteq checking'
           /\ a \in checking /\ a \notin checking' => obj.phase = "Failed"
           /\ cached' = [cached EXCEPT ![a] = entry] \/ cached' = [cached EXCEPT ![a] = obj.uid]
           /\ \E x \in Actors : \E s :
                 /\ x = a \/ (x \in Tasks /\ run[x].at = "idle")
                 /\ Sets(a, x, s)
                 /\ s.at # "idle" => Starts(x, s, a, obj) /\ (s.job = "check" => a \in checking')
<1>1. a \in Actors /\ run \in [Actors -> Doing] /\ (\A t \in Tasks : t \in Actors)
  BY RunType
<1>2. CASE \E job \in {"reinit", "check", "upgrade", "watch"} :
              /\ Go(a, obj, job, IF job = "reinit" THEN "account" ELSE "look")
              /\ UNCHANGED checking \/ checking' = checking \cup {a}
              /\ job = "reinit" => obj.phase = "Reinitializing"
              /\ job = "check" => obj.phase = "Checking" /\ a \in checking'
              /\ job = "upgrade" => obj.phase = "Upgrading"
              /\ job = "watch" => obj.phase = "Running" /\ obj.want = obj.have
  <2>1. PICK job \in {"reinit", "check", "upgrade", "watch"} :
              /\ Go(a, obj, job, IF job = "reinit" THEN "account" ELSE "look")
              /\ UNCHANGED checking \/ checking' = checking \cup {a}
              /\ job = "reinit" => obj.phase = "Reinitializing"
              /\ job = "check" => obj.phase = "Checking" /\ a \in checking'
              /\ job = "upgrade" => obj.phase = "Upgrading"
              /\ job = "watch" => obj.phase = "Running" /\ obj.want = obj.have
    BY <1>2
  <2> DEFINE at == IF job = "reinit" THEN "account" ELSE "look"
  <2>2. at \in {"account", "look"} /\ Go(a, obj, job, at) BY <2>1
  <2> PICK x \in Tasks :
         \E s : /\ run[x].at = "idle" /\ Sets(a, x, s)
                /\ s.of = a /\ s.obj = obj /\ s.job = job /\ s.at = at
    <3> HIDE DEF at
    <3> QED BY <2>2, GoMoves
  <2>3. PICK s : /\ run[x].at = "idle" /\ Sets(a, x, s)
                 /\ s.of = a /\ s.obj = obj /\ s.job = job /\ s.at = at
    OBVIOUS
  <2>4. cached' = [cached EXCEPT ![a] = obj.uid]
    <3> HIDE DEF at
    <3> QED BY <2>2, GoMoves
  <2>5. Starts(x, s, a, obj) /\ (s.job = "check" => a \in checking') BY <2>1, <2>3 DEF Starts
  <2> QED BY <2>1, <2>3, <2>4, <2>5, <1>1
<1>3. CASE Done(a, obj) /\ (UNCHANGED checking \/ (checking' = checking \ {a} /\ obj.phase = "Failed"))
  <2>1. Sets(a, a, Idle(a)) BY <1>1, <1>3 DEF Done, Sets
  <2>2. Idle(a).at = "idle" BY DEF Idle
  <2> QED BY <2>1, <2>2, <1>1, <1>3 DEF Done
<1>4. CASE /\ obj.phase = "Initializing" /\ UNCHANGED checking
           /\ run' = [run EXCEPT ![a] = [Idle(a) EXCEPT !.job = "install", !.at = "account", !.obj = obj]]
           /\ cached' = [cached EXCEPT ![a] = entry]
  <2> DEFINE s == [Idle(a) EXCEPT !.job = "install", !.at = "account", !.obj = obj]
  <2>1. s.of = a /\ s.obj = obj /\ s.job = "install" /\ s.at = "account" BY DEF Idle
  <2>2. Sets(a, a, s) BY <1>1, <1>4 DEF Sets
  <2> HIDE DEF s
  <2>3. Starts(a, s, a, obj) BY <2>1, <1>4 DEF Starts
  <2> QED BY <2>1, <2>2, <2>3, <1>1, <1>4
<1>5. CASE /\ obj.phase = "Running" /\ obj.want # obj.have /\ UNCHANGED checking
           /\ run' = [run EXCEPT ![a] = [Idle(a) EXCEPT !.job = "start upgrade", !.at = "persist", !.obj = obj,
                                        !.new = [obj EXCEPT !.phase = "Upgrading", !.retries = 0]]]
           /\ cached' = [cached EXCEPT ![a] = entry]
  <2> DEFINE new == [obj EXCEPT !.phase = "Upgrading", !.retries = 0]
             s == [Idle(a) EXCEPT !.job = "start upgrade", !.at = "persist", !.obj = obj, !.new = new]
  <2>1. new.uid = obj.uid /\ new.want = obj.want /\ new.have = obj.have /\ new.phase = "Upgrading"
    BY DEF Addon
  <2>2. s.of = a /\ s.obj = obj /\ s.job = "start upgrade" /\ s.at = "persist" /\ s.new = new
    BY DEF Idle
  <2>3. Sets(a, a, s) BY <1>1, <1>5 DEF Sets
  <2> HIDE DEF s, new
  <2>4. Starts(a, s, a, obj) BY <2>1, <2>2, <1>5 DEF Starts
  <2> QED BY <2>2, <2>3, <2>4, <1>1, <1>5
<1> QED
  <2>1. CASE obj.phase = "Initializing" BY <2>1, <1>4 DEF Dispatch
  <2>2. CASE obj.phase = "Reinitializing" BY <2>2, <1>2 DEF Dispatch
  <2>3. CASE obj.phase = "Checking" BY <2>3, <1>2, <1>3 DEF Dispatch
  <2>4. CASE obj.phase = "Upgrading" BY <2>4, <1>2, <1>3 DEF Dispatch
  <2>5. CASE obj.phase = "Running" BY <2>5, <1>2, <1>3, <1>5 DEF Dispatch
  <2>6. CASE obj.phase = "Failed" BY <2>6, <1>3 DEF Dispatch
  <2> QED BY <2>1, <2>2, <2>3, <2>4, <2>5, <2>6 DEF Dispatch

(* Whoever gets the copy may rely on it.                                    *)
LEMMA StartFits ==
    ASSUME IInv, NEW a \in Addons, NEW x \in Actors, NEW s, NEW obj \in Addon, Sane(obj),
           First(a) => obj = listed[a] /\ Stirring(a),
           Starts(x, s, a, obj)
    PROVE  Fits(x, s)
<1>1. TypeOK /\ Known(a) /\ Alike(a) /\ a \notin Tasks BY AddonAssumption DEF IInv
<1>2. Form(x, s)
  <2>1. CASE x = a BY <2>1, <1>1 DEF Starts, Form, WorkerForm, Parts
  <2>2. CASE x # a
    <3>1. x \in Tasks /\ x \notin Addons BY <2>2, AddonAssumption DEF Starts
    <3>2. TaskForm(s) BY <3>1, <2>2 DEF Starts, TaskForm, Building, Parts, Judges
    <3> QED BY <3>1, <3>2 DEF Form, Starts
  <2> QED BY <2>1, <2>2
<1> SUFFICES ASSUME First(a)
             PROVE  /\ Ordered(s) /\ (Unhurried => Rebuilds(s)) /\ (Unedited => Calm(s))
                    /\ Finds(s)
  BY <1>2 DEF Fits, Grounded, Starts
<1>3. /\ obj = listed[a] /\ s.of = a /\ s.obj = listed[a] /\ OrderedKey(a) /\ Stirring(a)
      /\ listed[a] \in Addon /\ addons[a] \in Addon
  BY <1>1, RunType DEF Starts, Known
<1>4. obj.uid > 0 BY <1>3 DEF Sane, Starts
<1>5. Ordered(s)
  <2>1. Before(obj, obj) BY BeforeItself
  <2> QED BY <2>1, <1>3, <1>4 DEF Starts, Ordered, OrderedKey, Judges, Past, Grown, Deployed
<1>6. ASSUME Unhurried PROVE Rebuilds(s)
  BY <1>1, <1>3, <1>6 DEF Alike, OneRebuilds, Rebuilds, Starts
<1>7. ASSUME Unedited PROVE Calm(s)
  <2>1. CalmKey(a) /\ OneChecks(a) BY <1>1, <1>7 DEF Known, Alike
  <2>2. Steady(listed[a]) /\ SameWant(listed[a], addons[a]) BY <2>1 DEF CalmKey
  <2>3. s.job \notin {"upgrade", "start upgrade"} BY <2>2, <1>3 DEF Starts, Steady
  <2>4. s.job = "watch" => listed[a].phase = "Running" /\ s.at = "look" BY <1>3 DEF Starts
  <2>5. s.job = "check" => s.at = "look" /\ addons[a].phase \in {"Checking", "Absent"}
    BY <2>1, <1>3 DEF Starts, OneChecks
  <2> QED BY <2>2, <2>3, <2>4, <2>5, <1>3 DEF Calm
<1>8. ASSUME Quiet, Alone(a) PROVE Content(s) /\ (edits <= 1 => Version(s))
  <2>1. ContentKey(a) BY <1>1, <1>8 DEF Known, FindsKey
  <2>2. Content(s) BY <2>1, <1>3 DEF Starts, Content, ContentKey, Judges, Deployed
  <2>3. Version(s) BY <1>3 DEF Starts, Version
  <2> QED BY <2>2, <2>3
<1> QED BY <1>5, <1>6, <1>7, <1>8, <1>3 DEF Finds

LEMMA Dispatched ==
    ASSUME IInv, TypeOK', NEW a \in Addons, NEW obj \in Addon, NEW entry, Dispatch(a, obj, entry),
           Sane(obj), obj.phase # "Absent",
           \/ obj = listed[a] /\ a \in dirty /\ run[a].at = "idle" /\ UNCHANGED <<installed, image>>
           \/ ~First(a),
           First(a) => entry <= listed[a].uid,
           dirty' = dirty \/ dirty' = dirty \ {a}, First(a) => a \notin dirty',
           UNCHANGED <<addons, listed, edits, happened>>
    PROVE  IInv'
<1>1. TypeOK /\ History BY DEF IInv
<1>2. History' /\ Onward BY <1>1, FaultHistory DEF OnlyFaults
<1> PICK x \in Actors :
       \E s : /\ x = a \/ (x \in Tasks /\ run[x].at = "idle")
              /\ Sets(a, x, s)
              /\ s.at # "idle" => Starts(x, s, a, obj) /\ (s.job = "check" => a \in checking')
  BY <1>1, DispatchMoves
<1>3. PICK s : /\ x = a \/ (x \in Tasks /\ run[x].at = "idle")
               /\ Sets(a, x, s)
               /\ s.at # "idle" => Starts(x, s, a, obj) /\ (s.job = "check" => a \in checking')
  OBVIOUS
<1>4. /\ checking \ {a} \subseteq checking'
      /\ a \in checking /\ a \notin checking' => obj.phase = "Failed"
      /\ cached' = [cached EXCEPT ![a] = entry] \/ cached' = [cached EXCEPT ![a] = obj.uid]
  BY <1>1, DispatchMoves
<1>5. /\ \A y \in Actors : run'[y] = IF y = x THEN s ELSE IF y = a THEN Idle(a) ELSE run[y]
      /\ Idle(a).at = "idle" /\ a \in Actors /\ a \notin Tasks /\ (\A t \in Tasks : t \in Actors)
  BY <1>3, AddonAssumption DEF Sets, Idle, Actors
<1>6. \A b \in Addons : ~First(a) /\ Alone(b) => ~First(b)
  <2>1. addons[a].uid \in Nat BY <1>1, Typed
  <2> QED BY <2>1 DEF First, Alone
<1>7. ASSUME NEW r, r.of \in Addons, First(r.of), Finds(r) PROVE Finds(r)'
  <2>1. CASE UNCHANGED <<installed, image>> BY <2>1, <1>1, <1>2, <1>7, StillFinds
  <2>2. CASE ~First(a)
    <3>1. ~Alone(r.of) BY <2>2, <1>6, <1>7
    <3>2. ~Alone(r.of)' BY <3>1, <1>1, <1>2, <1>7, Later
    <3> QED BY <3>2 DEF Finds
  <2> QED BY <2>1, <2>2
<1>8. ASSUME NEW y \in Actors PROVE Fits(y, run[y])'
  <2>1. CASE y = x
    <3>1. First(a) => obj = listed[a] /\ Stirring(a) BY DEF Stirring
    <3>2. s.at # "idle" => Fits(x, s) BY <3>1, <1>3, StartFits
    <3>3. s.at # "idle" => s.of \in Addons BY <1>3 DEF Starts
    <3>4. s.at # "idle" => Grounded(x, s) /\ (First(s.of) => Finds(s)') BY <3>2, <3>3, <1>7 DEF Fits
    <3>5. Fits(x, s)' BY <3>3, <3>4, <1>1, <1>2, StillFits
    <3> QED BY <3>5, <2>1, <1>5
  <2>2. CASE y # x /\ y = a
    <3> PICK r : r = Idle(a) OBVIOUS
    <3>1. run'[y] = r BY <2>2, <1>5
    <3>2. Fits(y, r)' BY <1>5 DEF Fits
    <3> QED BY <3>1, <3>2
  <2>3. CASE y # x /\ y # a
    <3>1. run'[y] = run[y] BY <2>3, <1>5
    <3>2. ASSUME run[y].at # "idle", First(run[y].of) PROVE Finds(run[y])'
      <4> PICK r : r = run[y] OBVIOUS
      <4>1. r.of \in Addons /\ Finds(r) BY <3>2, AtWork DEF IInv, Fits
      <4>2. Finds(r)' BY <4>1, <3>2, <1>7
      <4> QED BY <4>2, <3>1
    <3> QED BY <3>1, <3>2, <1>2, OthersFit
  <2> QED BY <2>1, <2>2, <2>3
<1>9. ASSUME NEW b \in Addons PROVE Known(b)'
  <2>1. Known(b) BY DEF IInv
  <2>2. ASSUME First(b) PROVE cached'[b] <= listed[b].uid
    <3>1. cached[b] <= listed[b].uid BY <2>1, <2>2 DEF Known, OrderedKey
    <3>2. cached \in [Addons -> -1..MaxUid] BY <1>1 DEF TypeOK
    <3>3. First(a) => obj.uid <= listed[a].uid BY <1>1, Typed
    <3> QED BY <3>1, <3>2, <3>3, <2>2, <1>4
  <2>3. ASSUME First(b) PROVE FindsKey(b)'
    <3>1. CASE UNCHANGED <<installed, image>>
      BY <3>1, <2>1, <2>3, <1>1, <1>2, StillFindsKey DEF Known
    <3>2. CASE ~First(a)
      <4>1. ~Alone(b)' BY <3>2, <2>3, <1>1, <1>2, <1>6, Later
      <4> QED BY <4>1 DEF FindsKey
    <3> QED BY <3>1, <3>2
  <2> QED BY <2>1, <2>2, <2>3, <1>1, <1>2, StillKnown
<1>10. ASSUME NEW b \in Addons PROVE Alike(b)'
  <2> SUFFICES ASSUME First(b) PROVE Alike(b)' BY DEF Alike, First
  <2>1. Alike(b) BY DEF IInv
  <2>2. (Unhurried' => Unhurried) /\ (Unedited' => Unedited) BY DEF Unhurried, Unedited
  <2>3. CASE b # a
    <3>1. \A t \in Tasks : Works(t, b)' => Works(t, b) /\ run'[t] = run[t]
      BY <2>3, <1>3, <1>5 DEF Works, Starts
    <3>2. run'[b] = run[b] /\ (Stirring(b)' => Stirring(b))
      <4>1. b \in Actors /\ b \notin Tasks BY AddonAssumption DEF Actors
      <4> QED BY <4>1, <2>3, <1>3, <1>5 DEF Stirring
    <3>3. b \in checking => b \in checking' BY <2>3, <1>4
    <3>4. Exclusive(b)' BY <2>1, <3>1, <3>2 DEF Alike, Exclusive
    <3>5. OneRebuilds(b) => OneRebuilds(b)' BY <3>1, <3>2 DEF OneRebuilds, Does
    <3>6. OneChecks(b) => OneChecks(b)' BY <3>1, <3>2, <3>3 DEF OneChecks, Does
    <3> QED BY <2>1, <2>2, <3>4, <3>5, <3>6 DEF Alike
  <2>4. CASE b = a
    <3>1. obj = listed[a] /\ a \in dirty /\ a \notin dirty' /\ Stirring(a) BY <2>4 DEF Stirring
    <3>2. \A t \in Tasks : Works(t, a)' =>
             \/ t # x /\ Works(t, a) /\ run'[t] = run[t]
             \/ t = x /\ run'[t] = s /\ Starts(x, s, a, obj) /\ (s.job = "check" => a \in checking')
      BY <1>3, <1>5 DEF Works
    <3>3. \A t \in Tasks : Works(t, a) => Ordered(run[t]) /\ Form(t, run[t]) /\ run[t].of = a
      BY <2>4, <1>5 DEF IInv, Fits, Grounded, Works
    <3>4. Stirring(a)' => x = a /\ run'[a] = s /\ Starts(x, s, a, obj)
      BY <3>1, <1>3, <1>5 DEF Stirring
    <3>5. Exclusive(a)'
      <4>1. SUFFICES ASSUME run'[a].at # "idle", run'[a].job = "install", NEW t \in Tasks, Works(t, a)'
                     PROVE  FALSE
        BY DEF Exclusive
      <4>2. x = a /\ listed[a].phase = "Initializing"
        BY <4>1, <3>1, <1>3, <1>5 DEF Starts
      <4>3. Ordered(run[t]) /\ Form(t, run[t]) /\ run[t].of = a BY <4>1, <4>2, <3>2, <3>3, <1>5
      <4>4. t \notin Addons BY AddonAssumption
      <4> QED BY <4>2, <4>3, <4>4 DEF Ordered, Form, TaskForm, Before, Past
    <3>6. ASSUME OneRebuilds(a) PROVE OneRebuilds(a)'
      <4>1. \A t, u \in Tasks :
               Does(t, a, "reinit")' /\ Does(u, a, "reinit")' /\ run'[t].obj = run'[u].obj => t = u
        <5>1. \A t \in Tasks : Does(t, a, "reinit")' /\ t # x =>
                 Does(t, a, "reinit") /\ run'[t] = run[t]
                 /\ (x \in Tasks /\ Does(x, a, "reinit")' => run[t].obj # listed[a])
          BY <3>1, <3>2, <3>6, <1>3 DEF Does, OneRebuilds, Starts
        <5>2. Does(x, a, "reinit")' /\ x \in Tasks => run'[x].obj = listed[a]
          BY <3>1, <3>2 DEF Does, Starts
        <5> QED BY <5>1, <5>2, <3>6 DEF OneRebuilds
      <4>2. Stirring(a)' => listed[a].phase # "Reinitializing"
        BY <3>1, <3>4, <1>5 DEF Starts
      <4> QED BY <4>1, <4>2 DEF OneRebuilds
    <3>7. ASSUME OneChecks(a) PROVE OneChecks(a)'
      <4>1. \A t \in Tasks : Does(t, a, "check")' /\ t # x =>
               Does(t, a, "check") /\ run'[t] = run[t]
               /\ ~(x \in Tasks /\ Does(x, a, "check")')
        BY <3>1, <3>2, <3>7 DEF Does, OneChecks, Starts
      <4>2. \A t, u \in Tasks : Does(t, a, "check")' /\ Does(u, a, "check")' => t = u
        BY <4>1, <3>7 DEF OneChecks
      <4>3. ASSUME NEW t \in Tasks, Does(t, a, "check")'
            PROVE  a \in checking' \/ listed[a].phase \in {"Failed", "Absent"}
        <5>1. CASE t = x BY <5>1, <4>3, <3>2 DEF Does
        <5>2. CASE t # x BY <5>2, <4>1, <4>3, <3>1, <3>7, <1>4 DEF OneChecks
        <5> QED BY <5>1, <5>2
      <4>4. Stirring(a)' => listed[a].phase # "Checking"
        BY <3>1, <3>4, <1>5 DEF Starts
      <4> QED BY <4>2, <4>3, <4>4 DEF OneChecks
    <3> QED BY <2>1, <2>2, <2>4, <3>5, <3>6, <3>7 DEF Alike
  <2> QED BY <2>3, <2>4
<1> QED BY <1>2, <1>8, <1>9, <1>10 DEF IInv

LEMMA KeptSync ==
    ASSUME IInv, TypeOK', NEW a \in Addons, Sync(a)
    PROVE  IInv'
<1> USE DEF memory, onCluster
<1>1. /\ TypeOK /\ Known(a) /\ listed[a] \in Addon /\ listed[a].uid \in Nat /\ cached[a] \in Int
  BY Typed DEF IInv
<1> DEFINE entry == IF cached[a] = -1 THEN 0 ELSE cached[a]
<1>2. First(a) => entry <= listed[a].uid BY <1>1 DEF Known, OrderedKey
<1>3. Dispatch(a, listed[a], entry) BY DEF Sync
<1> HIDE DEF entry
<1>4. Sane(listed[a]) BY <1>1 DEF Known
<1>5. /\ listed[a].phase # "Absent" /\ a \in dirty /\ run[a].at = "idle" /\ dirty' = dirty \ {a}
      /\ UNCHANGED <<addons, listed, edits, happened, installed, image>>
  BY DEF Sync
<1>6. a \notin dirty' BY <1>5
<1> QED BY <1>1, <1>2, <1>3, <1>4, <1>5, <1>6, Dispatched

(* The worker ends; the objects of an add-on that is gone, go.              *)
LEMMA KeptRemove ==
    ASSUME IInv, TypeOK', NEW a \in Addons, Remove(a) \/ RemoveFails(a)
    PROVE  IInv'
<1> USE DEF memory, onCluster
<1> DEFINE p == run[a]
<1>1. /\ TypeOK /\ History /\ a \in Actors /\ p.at = "remove" /\ p.at # "idle" /\ p.obj \in Addon
      /\ UNCHANGED <<addons, listed, edits>>
  BY RunType DEF IInv, Remove, RemoveFails
<1>2. OnlyFaults BY <1>1, OneFault DEF Remove, RemoveFails, OnlyFaults
<1>3. Fits(a, p) /\ Grounded(a, p) /\ p.of = a BY <1>1 DEF IInv, Fits, Grounded, Form
<1>4. p.job = "drop" /\ Sane(p.obj) BY <1>1, <1>3 DEF Grounded, Form, WorkerForm
<1>5. CASE /\ run' = [run EXCEPT ![a] = Idle(a)] /\ UNCHANGED <<cached, checking>>
           /\ dirty' \subseteq dirty \cup {a}
  <2> PICK s : s = Idle(a) OBVIOUS
  <2>1. Moves(a, s) /\ s.at = "idle" BY <1>1, <1>5, Moved DEF Idle
  <2>2. Fits(a, s)' BY <2>1 DEF Fits
  <2>3. \A b \in Addons : First(b) => cached'[b] <= listed[b].uid
    BY <1>5 DEF IInv, Known, OrderedKey
  <2>4. ASSUME NEW b \in Addons, First(b)
        PROVE  FindsKey(b)' /\ \A y \in Actors \ {a} : Works(y, b) => Finds(run[y])'
    <3>1. SUFFICES ASSUME Quiet', Alone(b)'
                   PROVE  /\ ContentKey(b)' /\ (edits <= 1 => VersionKey(b)')
                          /\ \A y \in Actors \ {a} : Works(y, b) =>
                                \A r : r = run[y] => Content(r)' /\ (edits <= 1 => Version(r)')
      <4>1. FindsKey(b)' BY <3>1, <1>1 DEF FindsKey
      <4>2. ASSUME NEW y \in Actors \ {a}, Works(y, b) PROVE Finds(run[y])'
        <5> PICK r : r = run[y] OBVIOUS
        <5>1. r.of = b BY <4>2 DEF Works
        <5>2. Finds(r)' BY <3>1, <5>1, <4>2, <1>1 DEF Finds
        <5>3. run'[y] = r BY <2>1 DEF Moves
        <5> QED BY <5>2, <5>3
      <4> QED BY <4>1, <4>2
    <3>2. Quiet /\ Alone(b) BY <3>1, <1>1, <1>2, FaultHistory, Later
    <3> QED BY <3>2, <2>4, <1>1, <1>4, Unrelied
  <2> QED BY <2>1, <2>2, <2>3, <2>4, <1>1, <1>2, <1>5, ActorMoves
<1>6. CASE Remove(a) /\ p.obj.phase # "Absent" /\ Dispatch(a, p.obj, -1)
  <2>1. ~First(a) BY <1>3, <1>4, <1>6 DEF Grounded, Ordered
  <2>2. dirty' = dirty /\ UNCHANGED happened BY <1>6 DEF Remove
  <2> QED BY <2>1, <2>2, <1>1, <1>4, <1>6, Dispatched
<1>7. CASE RemoveFails(a) BY <1>5, <1>7 DEF RemoveFails, Again
<1> QED BY <1>5, <1>6, <1>7 DEF Remove

LEMMA KeptSyncDeleted ==
    ASSUME IInv, TypeOK', NEW a \in Addons, SyncDeleted(a)
    PROVE  IInv'
<1> USE DEF memory, onCluster
<1>1. /\ TypeOK /\ History /\ a \in Actors /\ a \notin Tasks /\ a \in dirty /\ run[a].at = "idle"
      /\ listed[a] \in Addon /\ addons[a] \in Addon /\ listed[a].uid \in Nat /\ cached[a] \in Int
      /\ UNCHANGED <<addons, listed, edits, happened, checking, installed, image>>
      /\ dirty' = dirty \ {a} /\ Known(a)
  BY RunType, Typed DEF IInv, SyncDeleted
<1>2. History' /\ Onward BY <1>1, FaultHistory DEF OnlyFaults
<1>3. PICK s : Moves(a, s) /\ (s.at # "idle" =>
                 /\ s.of = a /\ s.job = "drop" /\ s.at = "remove" /\ s.obj = listed[a]
                 /\ cached[a] # -1)
  <2>1. CASE cached[a] = -1
    <3>1. Moves(a, run[a]) BY <2>1 DEF SyncDeleted, Moves
    <3> QED BY <3>1, <1>1
  <2>2. CASE cached[a] # -1
    <3> DEFINE s == [Idle(a) EXCEPT !.job = "drop", !.at = "remove", !.obj = listed[a]]
    <3>1. s.of = a /\ s.job = "drop" /\ s.at = "remove" /\ s.obj = listed[a] BY DEF Idle
    <3>2. run' = [run EXCEPT ![a] = s] BY <2>2 DEF SyncDeleted
    <3> HIDE DEF s
    <3>3. Moves(a, s) BY <3>2, <1>1, Moved
    <3> QED BY <3>1, <3>3, <2>2
  <2> QED BY <2>1, <2>2
<1>4. ASSUME First(a), s.at # "idle"
      PROVE  listed[a].uid > 0 /\ listed[a].phase = "Absent" /\ addons[a].phase = "Absent"
  <2>1. /\ Before(listed[a], addons[a]) /\ cached[a] <= listed[a].uid /\ Sane(listed[a])
        /\ addons[a].uid <= 1 /\ addons[a].uid \in Nat
    BY <1>1, <1>4, Typed DEF Known, OrderedKey, First
  <2>2. listed[a].uid <= addons[a].uid BY <2>1 DEF Before
  <2>3. listed[a].phase # "Absent" => listed[a].uid > 0 BY <2>1 DEF Sane
  <2>4. cached[a] # -1 BY <1>3, <1>4
  <2>5. cached[a] \in -1..MaxUid BY <1>1, RunType
  <2>6. \/ listed[a].phase = "Absent" /\ cached[a] # 0
        \/ listed[a].phase # "Absent" /\ cached[a] \notin {-1, 0, listed[a].uid}
    BY DEF SyncDeleted
  <2>7. MaxUid \in Nat BY AddonAssumption
  <2>8. listed[a].phase = "Absent" /\ listed[a].uid > 0
    BY <2>1, <2>2, <2>3, <2>4, <2>5, <2>6, <2>7, <1>1
  <2> QED BY <2>8, <2>1 DEF Before
<1>5. s.at # "idle" => Fits(a, s)
  <2> SUFFICES ASSUME s.at # "idle" PROVE Fits(a, s) OBVIOUS
  <2>1. Form(a, s) BY <1>1, <1>3 DEF Form, WorkerForm, Parts, Known
  <2>2. ASSUME First(a) PROVE Ordered(s)
    <3>1. Before(listed[a], listed[a]) BY <1>1, BeforeItself
    <3> QED BY <3>1, <1>3, <1>4, <2>2 DEF Ordered, Judges
  <2>3. Rebuilds(s) BY <1>3 DEF Rebuilds
  <2>4. ASSUME First(a), Unedited PROVE Calm(s)
    BY <1>1, <1>3, <1>4, <2>4 DEF Calm, Steady, SameWant
  <2>5. ASSUME First(a) PROVE Finds(s)
    BY <1>3, <1>4, <2>5 DEF Finds, Content, Version, Judges
  <2> QED BY <2>1, <2>2, <2>3, <2>4, <2>5, <1>3 DEF Fits, Grounded
<1>6. ASSUME NEW y \in Actors PROVE Fits(y, run[y])'
  <2>1. CASE y = a
    <3>1. s.at # "idle" => s.of \in Addons BY <1>3
    <3>2. s.at # "idle" /\ First(s.of) => Finds(s)'
      BY <3>1, <1>1, <1>2, <1>5, StillFinds DEF Fits
    <3>3. s.at # "idle" => Grounded(a, s) BY <1>5 DEF Fits
    <3>4. Fits(a, s)' BY <3>1, <3>2, <3>3, <1>1, <1>2, StillFits
    <3> QED BY <3>4, <2>1, <1>3 DEF Moves
  <2>2. CASE y # a
    <3>1. run'[y] = run[y] BY <2>2, <1>3 DEF Moves
    <3>2. ASSUME run[y].at # "idle", First(run[y].of) PROVE Finds(run[y])'
      <4> PICK r : r = run[y] OBVIOUS
      <4>1. r.of \in Addons /\ Finds(r) BY <3>2, AtWork DEF IInv, Fits
      <4>2. Finds(r)' BY <4>1, <3>2, <1>1, <1>2, StillFinds
      <4> QED BY <4>2, <3>1
    <3> QED BY <3>1, <3>2, <1>1, <1>2, OthersFit
  <2> QED BY <2>1, <2>2
<1>7. ASSUME NEW b \in Addons PROVE Known(b)'
  <2>1. Known(b) BY DEF IInv
  <2>2. ASSUME First(b) PROVE cached'[b] <= listed[b].uid /\ FindsKey(b)'
    <3>1. cached[b] <= listed[b].uid BY <2>1, <2>2 DEF Known, OrderedKey
    <3>2. cached \in [Addons -> -1..MaxUid] BY <1>1 DEF TypeOK
    <3>3. listed[b].uid \in Nat BY <1>1, Typed
    <3>4. cached' = cached \/ cached' = [cached EXCEPT ![a] = -1] BY DEF SyncDeleted
    <3>5. cached'[b] <= listed[b].uid BY <3>1, <3>2, <3>3, <3>4
    <3> QED BY <3>5, <2>1, <2>2, <1>1, <1>2, StillFindsKey DEF Known
  <2> QED BY <2>1, <2>2, <1>1, <1>2, StillKnown
<1>8. ASSUME NEW b \in Addons PROVE Alike(b)'
  <2> SUFFICES ASSUME First(b) PROVE Alike(b)' BY <1>1 DEF Alike, First
  <2>1. Alike(b) BY DEF IInv
  <2>2. (Unhurried' => Unhurried) /\ (Unedited' => Unedited) BY <1>1 DEF Unhurried, Unedited
  <2>3. \A t \in Tasks : run'[t] = run[t] /\ (Works(t, b)' <=> Works(t, b))
    BY <1>1, <1>3 DEF Moves, Works, Actors
  <2>4. run'[b].at # "idle" /\ run'[b].job = "install" => run[b].at # "idle" /\ run[b].job = "install"
    BY <1>3 DEF Moves, Actors
  <2>5. Stirring(b)' => Stirring(b) BY <1>1, <1>3 DEF Moves, Stirring, Actors
  <2>6. Exclusive(b)' BY <2>1, <2>3, <2>4 DEF Alike, Exclusive
  <2>7. OneRebuilds(b) => OneRebuilds(b)' BY <2>3, <2>5, <1>1 DEF OneRebuilds, Does
  <2>8. OneChecks(b) => OneChecks(b)' BY <2>3, <2>5, <1>1 DEF OneChecks, Does
  <2> QED BY <2>1, <2>2, <2>6, <2>7, <2>8 DEF Alike
<1> QED BY <1>2, <1>6, <1>7, <1>8 DEF IInv

------------------------------------------------------------------------------
(* Steps that store: users' and actors'.                                    *)

(* An actor that stored, or had nothing to do with it.                      *)
Winds(y) ==
    LET s == run'[y] IN
    s.at # "idle" =>
        /\ run[y].at # "idle" /\ s.of = run[y].of /\ s.job = run[y].job /\ s.obj = run[y].obj
        /\ s = run[y] \/ (s.at = "end" /\ y \notin Addons /\ s.job \in Judges)

(* What a new version of a must not break: for the key, and for an actor in *)
(* state s.                                                                 *)
KeyHolds(a) ==
    OrderedKey(a) /\ (Unhurried => RebuildsKey(a)) /\ (Unedited => CalmKey(a)) /\ FindsKey(a)
Holds(s) ==
    Ordered(s) /\ (Unhurried => Rebuilds(s)) /\ (Unedited => Calm(s)) /\ Finds(s)

LEMMA Stored ==
    ASSUME IInv, TypeOK', History', Onward, NEW a \in Addons,
           \A b \in Addons : b # a => addons'[b] = addons[b],
           UNCHANGED <<listed, dirty, checking, installed, image>>,
           \A b \in Addons : First(b) => cached'[b] <= listed[b].uid,
           \A y \in Actors : Winds(y),
           Sane(addons[a])',
           First(a)' => KeyHolds(a)',
           First(a)' /\ Stirring(a) =>
              /\ Unhurried' /\ listed[a].phase = "Reinitializing"
                    => addons'[a] = listed[a] \/ addons'[a].phase = "Absent"
              /\ Unedited' /\ listed[a].phase = "Checking"
                    => addons'[a].phase \in {"Checking", "Absent"},
           \A y \in Actors : \A s :
              First(a)' /\ s.at # "idle" /\ s.of = a /\ Fits(y, s)
                    /\ run[y].at # "idle" /\ run[y].job = s.job /\ run[y].obj = s.obj /\ run[y].of = a
                    /\ (s = run[y] \/ (s.at = "end" /\ s.job \in Judges))
                 => Holds(s)'
    PROVE  IInv'
<1>1. TypeOK /\ \A t \in Tasks : t \in Actors BY DEF IInv, Actors
<1>2. ASSUME NEW y \in Actors PROVE Fits(y, run[y])'
  <2> PICK s : s = run'[y] OBVIOUS
  <2>1. CASE s.at = "idle"
    <3>1. Fits(y, s)' BY <2>1 DEF Fits
    <3> QED BY <3>1
  <2>2. CASE s.at # "idle"
    <3>1. /\ run[y].at # "idle" /\ s.of = run[y].of /\ s.job = run[y].job /\ s.obj = run[y].obj
          /\ s = run[y] \/ (s.at = "end" /\ y \notin Addons /\ s.job \in Judges)
      BY <2>2 DEF Winds
    <3>2. Fits(y, run[y]) BY DEF IInv
    <3>3. Fits(y, s) BY <3>1, <3>2, EndFits
    <3>4. s.of \in Addons BY <3>1, AtWork
    <3>5. CASE s.of # a
      <4>1. addons'[s.of] = addons[s.of] /\ listed'[s.of] = listed[s.of] BY <3>4, <3>5
      <4>2. First(s.of) => Finds(s)' BY <4>1, <3>3, <3>4, <2>2, <1>1, StillFinds DEF Fits
      <4>3. Fits(y, s)' BY <4>1, <4>2, <3>3, <3>4, <2>2, <1>1, StillFits DEF Fits
      <4> QED BY <4>3
    <3>6. CASE s.of = a
      <4>1. First(a)' => Holds(s)' BY <3>1, <3>3, <3>6, <2>2 DEF Judges
      <4>2. Form(y, s)' BY <3>3, <2>2 DEF Fits, Grounded, Form, TaskForm, WorkerForm, Sane
      <4>3. Fits(y, s)' BY <4>1, <4>2, <3>6 DEF Fits, Grounded, Holds
      <4> QED BY <4>3
    <3> QED BY <3>5, <3>6
  <2> QED BY <2>1, <2>2
<1>3. ASSUME NEW b \in Addons PROVE Known(b)'
  <2>1. Known(b) BY DEF IInv
  <2>2. CASE b # a
    <3>1. First(b) => FindsKey(b)' BY <2>1, <2>2, <1>1, StillFindsKey DEF Known
    <3> QED BY <3>1, <2>1, <2>2, <1>1, StillKnown
  <2>3. CASE b = a
    <3>1. Sane(listed[a])' BY <2>1, <2>3 DEF Known, Sane
    <3> QED BY <3>1, <2>3 DEF Known, KeyHolds
  <2> QED BY <2>2, <2>3
<1>4. ASSUME NEW b \in Addons PROVE Alike(b)'
  <2> SUFFICES ASSUME First(b)'
               PROVE  Exclusive(b)' /\ (Unhurried' => OneRebuilds(b)') /\ (Unedited' => OneChecks(b)')
    BY DEF Alike
  <2>1. /\ Exclusive(b) /\ (Unhurried => OneRebuilds(b)) /\ (Unedited => OneChecks(b))
        /\ (Unhurried' => Unhurried) /\ (Unedited' => Unedited)
    BY <1>1, Later DEF IInv, Alike
  <2>2. \A t \in Tasks : Works(t, b)' => /\ Works(t, b) /\ run'[t].job = run[t].job
                                         /\ run'[t].obj = run[t].obj
    BY <1>1 DEF Winds, Works
  <2>3. b \in Actors BY DEF Actors
  <2>4. run'[b].at # "idle" => run[b].at # "idle" /\ run'[b].job = run[b].job BY <2>3 DEF Winds
  <2>5. Stirring(b)' => Stirring(b) BY <2>4 DEF Stirring
  <2>6. Exclusive(b)' BY <2>1, <2>2, <2>4 DEF Exclusive
  <2>7. ASSUME Unhurried' PROVE OneRebuilds(b)'
    <3>1. Stirring(b) /\ listed[b].phase = "Reinitializing"
             => addons'[b] = listed[b] \/ addons'[b].phase = "Absent"
      BY <2>1, <2>7 DEF OneRebuilds
    <3> QED BY <3>1, <2>1, <2>2, <2>5, <2>7 DEF OneRebuilds, Does
  <2>8. ASSUME Unedited' PROVE OneChecks(b)'
    <3>1. Stirring(b) /\ listed[b].phase = "Checking" => addons'[b].phase \in {"Checking", "Absent"}
      BY <2>1, <2>8 DEF OneChecks
    <3> QED BY <3>1, <2>1, <2>2, <2>5, <2>8 DEF OneChecks, Does
  <2> QED BY <2>6, <2>7, <2>8
<1> QED BY <1>2, <1>3, <1>4 DEF IInv

(* What an actor stores.                                                    *)
Writes(r) ==
    LET old == r.obj  new == r.new IN
    \/ /\ r.job = "install" /\ old.phase = "Initializing" /\ new.have = new.want
       /\ new.phase = "Checking" \/ (new.phase = "Reinitializing" /\ new.retries = 1)
    \/ /\ r.job = "start upgrade" /\ ~Unedited /\ old.phase = "Running" /\ old.want # old.have
       /\ new.have = old.have /\ new.phase = "Upgrading"
    \/ /\ r.job = "reinit" /\ old.phase = "Reinitializing" /\ new.have = old.have
       /\ new.phase \in {"Checking", "Failed", "Reinitializing"}
       /\ new.retries >= old.retries
       /\ new.phase = "Reinitializing" => new.retries > old.retries
    \/ /\ r.job = "check" /\ old.phase \in Grown /\ new.have = old.have
       /\ new.phase \in {"Running", "Failed"}
       /\ Unedited => /\ old.phase # "Upgrading"
                      /\ new.phase = "Running" => old.phase = "Checking"
    \/ /\ r.job = "upgrade" /\ ~Unedited /\ old.phase \in Grown
       /\ \/ new.phase = "Failed" /\ new.have = old.have
          \/ new.phase = "Checking" /\ new.have = new.want
    \/ /\ r.job = "watch" /\ old.phase \in Grown /\ new.phase = "Failed" /\ new.have = old.have
       /\ Unedited => old.phase \in {"Running", "Failed"}

LEMMA WritesIs ==
    ASSUME IInv, NEW x \in Actors, NEW r, r = run[x], r.at = "persist",
           addons[r.of] = r.obj, r.obj.phase # "Absent"
    PROVE  /\ r.of \in Addons /\ r.new \in Addon /\ r.obj \in Addon
           /\ r.new.uid = r.obj.uid /\ r.new.want = r.obj.want /\ r.new.phase # "Absent"
           /\ r.obj.uid > 0 /\ Sane(r.new)
           /\ First(r.of) => Writes(r) /\ Before(r.obj, r.new)
<1>1. TypeOK /\ Fits(x, r) /\ Form(x, r) /\ r.at # "idle" BY DEF IInv, Fits, Grounded
<1>2. /\ r.of \in Addons /\ r.new \in Addon /\ r.obj \in Addon /\ addons[r.of].uid > 0
  BY <1>1, AtWork, RunType
<1>3. r.new.uid = r.obj.uid /\ r.new.want = r.obj.want /\ r.obj.uid > 0
  BY <1>1, <1>2 DEF Form
<1>4. CASE x \in Addons
  <2>1. WorkerForm(r) BY <1>1, <1>4 DEF Form
  <2>2. r.new.phase \in {"Checking", "Reinitializing", "Upgrading"}
    BY <2>1 DEF WorkerForm
  <2>3. ASSUME First(r.of) PROVE Writes(r)
    <3>1. Unedited => Calm(r) BY <1>1, <2>3 DEF Fits, Grounded
    <3> QED BY <2>1, <3>1, <1>1 DEF WorkerForm, Writes, Calm
  <2>4. ASSUME First(r.of) PROVE Before(r.obj, r.new)
    <3>1. \/ r.obj.phase = "Initializing"
          \/ r.obj.phase = "Running" /\ r.new.phase = "Upgrading"
      BY <2>1 DEF WorkerForm
    <3>2. r.obj.uid <= r.new.uid BY <1>2, <1>3, AddonAssumption DEF Addon
    <3> QED BY <3>1, <3>2, <1>3 DEF Before, Past
  <2> QED BY <2>2, <2>3, <2>4, <1>2, <1>3 DEF Sane
<1>5. CASE x \notin Addons
  <2>1. TaskForm(r) BY <1>1, <1>5 DEF Form
  <2>2. r.new.phase \in {"Checking", "Failed", "Reinitializing", "Running"}
    BY <2>1, <1>1 DEF TaskForm, Judges
  <2>3. ASSUME First(r.of) PROVE Writes(r)
    <3>1. Unedited => Calm(r) BY <1>1, <2>3 DEF Fits, Grounded
    <3>2. r.job \in Judges => r.obj.phase \in Grown
      BY <1>1, <2>3 DEF Fits, Grounded, Ordered
    <3> QED BY <2>1, <3>1, <3>2, <1>1 DEF TaskForm, Writes, Calm, Steady, Judges
  <2>4. ASSUME First(r.of) PROVE Before(r.obj, r.new)
    <3>1. r.new.phase \in {"Checking", "Failed", "Reinitializing", "Running"} BY <2>2
    <3>2. r.job = "reinit" => r.obj.phase = "Reinitializing" /\ r.obj.retries <= r.new.retries
      BY <2>3, <2>4, <1>2 DEF Writes, Addon
    <3>3. r.job # "reinit" => r.new.phase # "Reinitializing" /\ r.obj.phase \in Grown
      BY <2>3, <2>4, <2>1 DEF Writes, TaskForm, Judges
    <3> QED BY <3>1, <3>2, <3>3, <1>2, <1>3 DEF Before, Past, Grown, Deployed, Addon
  <2> QED BY <2>2, <2>3, <2>4, <1>2, <1>3 DEF Sane
<1> QED BY <1>4, <1>5

(* The key, when a working actor has stored.                                *)
LEMMA KeyAfterWrite ==
    ASSUME IInv, TypeOK', Onward, NEW x \in Actors, NEW r, r = run[x], r.at = "persist",
           NEW a \in Addons, r.of = a, addons[a] = r.obj, r.obj.phase # "Absent",
           addons'[a] = r.new, First(a),
           UNCHANGED <<listed, installed, image>>, cached'[a] <= listed[a].uid
    PROVE  KeyHolds(a)'
<1> DEFINE old == r.obj  new == r.new  l == listed[a]
<1>1. /\ TypeOK /\ Known(a) /\ Fits(x, r) /\ listed[a] \in Addon /\ r.at # "idle"
      /\ OrderedKey(a) /\ Sane(listed[a]) /\ Ordered(r)
  BY RunType DEF IInv, Known, Fits, Grounded
<1>2. /\ new \in Addon /\ old \in Addon /\ new.uid = old.uid /\ new.want = old.want
      /\ new.phase # "Absent" /\ old.uid > 0 /\ Writes(r) /\ Before(old, new)
  BY WritesIs
<1>3. Before(l, old) BY <1>1 DEF OrderedKey
<1>4. Before(l, new)
  <2>1. Sane(old) BY <1>1 DEF Known
  <2> QED BY <2>1, <1>1, <1>2, <1>3, BeforeTrans
<1>5. OrderedKey(a)'
  <2>1. l.phase = "Initializing" => new.phase \in {"Initializing", "Reinitializing", "Checking", "Absent"}
    <3>1. l.phase = "Initializing" => r.job \notin Judges BY <1>1 DEF Ordered, Past
    <3>2. l.phase = "Initializing" => r.job # "reinit"
      BY <1>1, <1>2 DEF Ordered, Before, Writes
    <3>3. l.phase = "Initializing" => r.job # "start upgrade"
      BY <1>1, <1>2 DEF Ordered, Before, Writes, Past
    <3> QED BY <3>1, <3>2, <3>3, <1>2 DEF Writes, Judges
  <2> QED BY <2>1, <1>4 DEF OrderedKey, Before, Past
<1>6. RebuildsKey(a)'
  <2>1. ASSUME l.phase = "Reinitializing", new.phase = "Reinitializing", l.retries = new.retries
        PROVE  FALSE
    <3>1. old.phase # "Initializing" /\ r.job # "install" BY <2>1, <1>2, <1>3 DEF Before, Writes
    <3>2. old.phase = "Reinitializing" /\ new.retries > old.retries
      BY <3>1, <2>1, <1>2 DEF Writes
    <3>3. l.retries <= old.retries BY <3>2, <2>1, <1>3 DEF Before
    <3>4. l.retries \in Int /\ old.retries \in Int /\ new.retries \in Int
      BY <1>1, <1>2, AddonAssumption DEF Addon
    <3> QED BY <2>1, <3>2, <3>3, <3>4
  <2> QED BY <2>1 DEF RebuildsKey
<1>7. ASSUME Unedited' PROVE CalmKey(a)'
  <2>1. Unedited /\ CalmKey(a) /\ Calm(r) BY <1>1, <1>7, Later DEF Known, Fits, Grounded
  <2>2. Steady(new)
    BY <2>1, <1>2 DEF Calm, CalmKey, Writes, Steady, Grown, Deployed
  <2>3. Steady(l) /\ SameWant(l, new) BY <2>1, <1>2 DEF CalmKey, SameWant
  <2>4. l.phase = "Running" => new.phase \in {"Running", "Failed", "Absent"}
    BY <2>1, <1>2 DEF CalmKey, Writes
  <2>5. l.phase = "Failed" => new.phase \in {"Failed", "Absent"}
    BY <2>1, <1>2 DEF CalmKey, Writes
  <2>6. ASSUME l.phase = "Checking", new.phase = "Checking" PROVE FALSE
    <3>1. old.phase \in {"Initializing", "Reinitializing"} BY <2>1, <2>6, <1>2 DEF Writes
    <3>2. l.uid > 0 BY <2>6, <1>1 DEF Sane
    <3> QED BY <3>1, <3>2, <2>6, <1>3 DEF Before, Past
  <2> QED BY <2>2, <2>3, <2>4, <2>5, <2>6 DEF CalmKey, Steady, SameWant
<1>8. ASSUME Quiet', Alone(a)' PROVE ContentKey(a)' /\ (edits' <= 1 => VersionKey(a)')
  <2>1. /\ Quiet /\ Alone(a) /\ (edits' <= 1 => edits <= 1) /\ ContentKey(a) /\ Content(r)
        /\ (edits <= 1 => VersionKey(a) /\ Version(r))
    BY <1>1, <1>8, Later DEF Known, FindsKey, Fits, Finds
  <2>2. old.phase # "Absent" /\ addons[a] = old BY <1>2
  <2>3. new.phase \in Deployed => installed = Parts
    BY <2>1, <2>2, <1>2 DEF Writes, Content, ContentKey, Judges, Deployed
  <2>4. l.phase \in Deployed => installed = Parts BY <2>1, <2>2 DEF ContentKey
  <2>5. ContentKey(a)' BY <2>3, <2>4 DEF ContentKey
  <2>6. ASSUME edits <= 1 PROVE VersionKey(a)'
    <3>1. VersionKey(a) /\ Version(r) BY <2>1, <2>6
    <3>2. ASSUME new.have = new.want, l.phase # "Absent" PROVE l.want = new.want
      <4>1. old.want = addons[a].want => l.want = addons[a].want
        BY <3>1, <3>2, <2>2 DEF Version
      <4> QED BY <4>1, <2>2, <1>2
    <3>3. ASSUME new.phase \in Grown, installed = Parts, new.have = new.want PROVE image = new.want
      <4>1. CASE r.job = "install" BY <4>1, <3>3, <2>1, <1>2 DEF Writes, Content, Grown, Deployed
      <4>2. CASE r.job = "start upgrade" BY <4>2, <3>3, <1>2 DEF Writes
      <4>3. CASE r.job = "reinit"
        BY <4>3, <3>3, <2>1, <2>2, <1>2 DEF Writes, Content, Grown, Deployed, Parts
      <4>4. CASE r.job \in Judges
        <5>1. CASE old.phase \in Grown /\ new.have = old.have
          BY <5>1, <3>1, <3>3, <2>2, <1>2 DEF VersionKey
        <5>2. CASE r.job = "upgrade" /\ new.phase = "Checking"
          BY <5>2, <3>1, <2>2, <1>2 DEF Version
        <5> QED BY <5>1, <5>2, <4>4, <1>2 DEF Writes, Judges
      <4> QED BY <4>1, <4>2, <4>3, <4>4, <1>2 DEF Writes, Judges
    <3> QED BY <3>2, <3>3 DEF VersionKey
  <2> QED BY <2>1, <2>5, <2>6
<1> QED BY <1>5, <1>6, <1>7, <1>8 DEF KeyHolds, FindsKey

(* The actors, when one of them has stored.                                 *)
LEMMA ActorsAfterWrite ==
    ASSUME IInv, TypeOK', Onward, NEW x \in Actors, NEW r, r = run[x], r.at = "persist",
           NEW a \in Addons, r.of = a, addons[a] = r.obj, r.obj.phase # "Absent",
           addons'[a] = r.new, First(a),
           UNCHANGED <<listed, installed, image>>,
           NEW y \in Actors, NEW s, s.at # "idle", s.of = a, Fits(y, s),
           run[y].at # "idle", run[y].job = s.job, run[y].obj = s.obj, run[y].of = a,
           s = run[y] \/ (s.at = "end" /\ s.job \in Judges)
    PROVE  Holds(s)'
<1> DEFINE old == r.obj  new == r.new  l == listed[a]
<1>1. /\ TypeOK /\ Known(a) /\ Alike(a) /\ Fits(x, r) /\ r.at # "idle" /\ Form(x, r) /\ Works(x, a)
      /\ listed[a] \in Addon /\ OrderedKey(a) /\ Sane(listed[a])
      /\ s.obj \in Addon /\ Form(y, s) /\ Ordered(s) /\ Works(y, a) /\ Sane(s.obj)
  BY RunType DEF IInv, Known, Fits, Grounded, Works, Form
<1>2. /\ new \in Addon /\ old \in Addon /\ new.uid = old.uid /\ new.want = old.want
      /\ new.phase # "Absent" /\ old.uid > 0 /\ Writes(r)
  BY WritesIs
<1>3. /\ (x \in Addons => x = a) /\ (y \in Addons => y = a)
      /\ (x \notin Addons => x \in Tasks) /\ (y \notin Addons => y \in Tasks)
      /\ (x \in Addons => x \notin Tasks) /\ (y \in Addons => y \notin Tasks)
  BY <1>1, AtWork, AddonAssumption DEF Works
<1>4. r.job = "reinit" => x \in Tasks
  BY <1>1, <1>3 DEF Form, WorkerForm, Parts
<1>5. s.job = "reinit" => y \in Tasks /\ s = run[y] /\ s.obj.phase = "Reinitializing"
  BY <1>1, <1>3 DEF Form, WorkerForm, TaskForm, Parts, Judges
<1>6. s.job = "install" => x = y /\ s = r
  <2>1. SUFFICES ASSUME s.job = "install" PROVE x = y /\ s = r OBVIOUS
  <2>2. y \in Addons BY <2>1, <1>1 DEF Form, TaskForm, Judges
  <2>3. x \notin Tasks BY <2>1, <2>2, <1>1, <1>3 DEF Alike, Exclusive
  <2> QED BY <2>1, <2>2, <2>3, <1>3 DEF Judges
<1>7. Ordered(s)'
  <2>1. s.job = "install" => new.phase \in {"Checking", "Reinitializing"}
    BY <1>2, <1>6 DEF Writes
  <2>2. s.job # "drop" BY <1>1 DEF Ordered
  <2> QED BY <2>1, <2>2, <1>1 DEF Ordered, Before, Past
<1>8. ASSUME Unhurried' PROVE Rebuilds(s)'
  <2>1. SUFFICES ASSUME s.job = "reinit", s.at \in Building PROVE FALSE BY DEF Rebuilds
  <2>2. Unhurried /\ OneRebuilds(a) /\ Rebuilds(s)
    BY <1>1, <1>8, Later DEF Alike, Fits, Grounded
  <2>3. old = s.obj BY <2>1, <2>2 DEF Rebuilds
  <2>4. r.job = "reinit" BY <2>1, <2>3, <1>2, <1>5 DEF Writes, Grown, Deployed
  <2>5. x = y
    BY <2>1, <2>2, <2>3, <2>4, <1>1, <1>4, <1>5 DEF OneRebuilds, Does
  <2> QED BY <2>1, <2>5, <1>5 DEF Building, Parts
<1>9. ASSUME Unedited' PROVE Calm(s)'
  <2>1. Unedited /\ OneChecks(a) /\ Calm(s) BY <1>1, <1>9, Later DEF Alike, Fits, Grounded
  <2>2. SameWant(s.obj, new) BY <2>1, <1>2 DEF Calm, SameWant
  <2>3. ~(s.job = "check" /\ s.at = "look")
    <3>1. SUFFICES ASSUME s.job = "check", s.at = "look" PROVE FALSE OBVIOUS
    <3>2. old.phase = "Checking" BY <3>1, <2>1 DEF Calm
    <3>3. r.job = "check" BY <3>2, <2>1, <1>2 DEF Writes
    <3>4. x \in Tasks /\ y \in Tasks
      BY <3>1, <3>3, <1>1, <1>3 DEF Form, WorkerForm, Parts
    <3>5. x = y BY <3>1, <3>3, <3>4, <2>1, <1>1 DEF OneChecks, Does
    <3> QED BY <3>1, <3>5
  <2>4. s.job = "check" /\ s.at = "persist" /\ s.new.phase = "Running" => s.obj.phase = "Checking"
    BY <2>1 DEF Calm
  <2> QED BY <2>1, <2>2, <2>3, <2>4 DEF Calm, Steady, SameWant
<1>10. ASSUME Quiet', Alone(a)' PROVE Content(s)' /\ (edits' <= 1 => Version(s)')
  <2>1. /\ Quiet /\ Alone(a) /\ (edits' <= 1 => edits <= 1) /\ Content(s)
        /\ (edits <= 1 => Version(s))
    BY <1>1, <1>10, Later DEF Fits, Finds
  <2>2. s.job \in Judges => installed = Parts BY <2>1 DEF Content
  <2>3. ~(s.job = "reinit" /\ new = s.obj)
    <3>1. SUFFICES ASSUME s.job = "reinit", new = s.obj PROVE FALSE OBVIOUS
    <3>2. Before(s.obj, old) BY <1>1, <1>2, BeforeTrans DEF Ordered, OrderedKey
    <3>3. new.phase = "Reinitializing" BY <3>1, <1>5
    <3>4. old.phase = "Reinitializing" /\ new.retries > old.retries
      BY <3>1, <3>2, <3>3, <1>2 DEF Writes, Before
    <3>5. new.retries <= old.retries BY <3>1, <3>2, <3>3, <3>4 DEF Before
    <3>6. new.retries \in Int /\ old.retries \in Int BY <1>2, AddonAssumption DEF Addon
    <3> QED BY <3>4, <3>5, <3>6
  <2>4. Content(s)' BY <2>1, <2>2, <2>3 DEF Content
  <2>5. edits <= 1 => Version(s)' BY <2>1, <1>2 DEF Version
  <2> QED BY <2>1, <2>4, <2>5
<1> QED BY <1>7, <1>8, <1>9, <1>10 DEF Holds, Finds

(* An add-on is written by an actor that still works for it.                *)
LEMMA Written ==
    ASSUME IInv, TypeOK', NEW x \in Actors, run[x].at = "persist",
           addons[run[x].of] = run[x].obj, run[x].obj.phase # "Absent",
           addons' = [addons EXCEPT ![run[x].of] = run[x].new],
           UNCHANGED <<listed, dirty, checking, installed, image, edits>>, OnlyFaults,
           \A b \in Addons : First(b) => cached'[b] <= listed[b].uid,
           \A y \in Actors : Winds(y)
    PROVE  IInv'
<1> PICK r : r = run[x] OBVIOUS
<1> PICK a : a = r.of OBVIOUS
<1>1. /\ TypeOK /\ History /\ Known(a) /\ Alike(a) /\ a \in Addons /\ r.new.uid = r.obj.uid
      /\ Sane(r.new) /\ r.new.phase # "Absent"
      /\ First(a) => Writes(r) /\ Before(r.obj, r.new)
  BY WritesIs DEF IInv
<1>2. addons'[a] = r.new /\ addons[a] = r.obj /\ \A b \in Addons : b # a => addons'[b] = addons[b]
  BY <1>1 DEF TypeOK
<1>3. \A b \in Addons : addons'[b].uid = addons[b].uid BY <1>1, <1>2
<1>4. Onward BY <1>1, <1>3, Typed DEF Onward, OnlyFaults
<1>5. History'
  <2>1. "edit" \in happened' => "edit" \in happened BY DEF OnlyFaults, AllFaults
  <2>2. "reuse" \in happened => "reuse" \in happened' BY DEF OnlyFaults
  <2> QED BY <2>1, <2>2, <1>1, <1>3 DEF History, First
<1>6. First(a)' => First(a) BY <1>1, <1>3 DEF First
<1>7. Sane(addons[a])' BY <1>1, <1>2 DEF Sane
<1>8. First(a)' => KeyHolds(a)' BY <1>1, <1>2, <1>4, <1>6, KeyAfterWrite
<1>9. ASSUME NEW y \in Actors, NEW s, First(a)', s.at # "idle", s.of = a, Fits(y, s),
             run[y].at # "idle", run[y].job = s.job, run[y].obj = s.obj, run[y].of = a,
             s = run[y] \/ (s.at = "end" /\ s.job \in Judges)
      PROVE  Holds(s)'
  BY <1>1, <1>2, <1>4, <1>6, <1>9, ActorsAfterWrite
<1>10. ASSUME First(a)', Stirring(a), Unhurried', listed[a].phase = "Reinitializing" PROVE FALSE
  <2>1. Unhurried /\ OneRebuilds(a) BY <1>1, <1>4, <1>6, <1>10, Later DEF Alike
  <2>2. r.obj = listed[a] BY <2>1, <1>2, <1>10 DEF OneRebuilds
  <2>3. r.job = "reinit" /\ r.at # "idle" /\ Form(x, r)
    BY <2>2, <1>1, <1>6, <1>10 DEF Writes, Grown, Deployed, IInv, Fits, Grounded
  <2>4. x \in Tasks BY <2>3 DEF Form, WorkerForm, Parts, Actors
  <2> QED BY <2>1, <2>2, <2>3, <2>4, <1>10 DEF OneRebuilds, Does, Works
<1>11. ASSUME First(a)', Stirring(a), Unedited', listed[a].phase = "Checking" PROVE FALSE
  <2>1. Unedited /\ OneChecks(a) BY <1>1, <1>4, <1>6, <1>11, Later DEF Alike
  <2>2. r.obj.phase = "Checking" BY <2>1, <1>2, <1>11 DEF OneChecks
  <2>3. r.job = "check" /\ r.at # "idle" /\ Form(x, r)
    BY <2>1, <2>2, <1>1, <1>6, <1>11 DEF Writes, IInv, Fits, Grounded
  <2>4. x \in Tasks BY <2>3 DEF Form, WorkerForm, Parts, Actors
  <2> QED BY <2>1, <2>3, <2>4, <1>11 DEF OneChecks, Does, Works
<1> QED BY <1>1, <1>2, <1>4, <1>5, <1>7, <1>8, <1>9, <1>10, <1>11, Stored

LEMMA KeptPersist ==
    ASSUME IInv, TypeOK', NEW x \in Actors, Persist(x) \/ PersistLost(x)
    PROVE  IInv'
<1> USE DEF memory, onCluster
<1> PICK r : r = run[x] OBVIOUS
<1> PICK a : a = r.of OBVIOUS
<1>1. /\ TypeOK /\ r.at = "persist" /\ a \in Addons /\ a \in Actors
      /\ (x \in Addons => a = x) /\ Fits(x, r)
  BY AtWork DEF IInv, Persist, PersistLost, Actors
<1>2. r.obj.phase # "Absent"
  BY <1>1 DEF Fits, Grounded, Form, TaskForm, WorkerForm, Parts
<1>3. ASSUME NEW b \in Addons, First(b) PROVE cached[b] <= listed[b].uid
  BY <1>3 DEF IInv, Known, OrderedKey
<1>4. CASE Persist(x) /\ addons[a] = r.obj /\ addons' = [addons EXCEPT ![a] = r.new] /\ Ends(x, TRUE)
  <2>1. PICK s : /\ Moves(x, s)
                 /\ s.at # "idle" => /\ s = [run[x] EXCEPT !.at = "end"]
                                     /\ s.at = "end" /\ s.of = run[x].of /\ s.job = run[x].job
                                     /\ s.obj = run[x].obj /\ s.job \in {"check", "upgrade"}
    BY <1>1, <1>4, EndsMoves
  <2>2. ASSUME NEW y \in Actors PROVE Winds(y)
    <3>1. CASE y # x BY <3>1, <2>1 DEF Moves, Winds
    <3>2. CASE y = x
      <4>1. run'[y] = s BY <3>2, <2>1 DEF Moves
      <4>2. s.job \in {"check", "upgrade"} /\ s.at # "idle" => x \notin Addons
        BY <2>1, <1>1 DEF Fits, Grounded, Form, WorkerForm, Parts
      <4> QED BY <4>1, <4>2, <3>2, <2>1, <1>1 DEF Winds, Judges
    <3> QED BY <3>1, <3>2
  <2>3. cached' = cached \/ (x \in Addons /\ cached' = [cached EXCEPT ![x] = run[x].obj.uid])
    BY <1>1, <1>4, EndsMoves
  <2>4. ASSUME NEW b \in Addons, First(b) PROVE cached'[b] <= listed[b].uid
    <3>1. ASSUME x = b PROVE run[x].obj.uid <= listed[b].uid
      BY <3>1, <2>4, <1>1 DEF Fits, Grounded, Ordered, Before
    <3>2. cached \in [Addons -> -1..MaxUid] BY <1>1 DEF TypeOK
    <3> QED BY <3>1, <3>2, <2>3, <2>4, <1>3
  <2>5. UNCHANGED dirty
    <3>1. x \notin Addons \/ UNCHANGED dirty BY <1>4 DEF Ends
    <3> QED BY <3>1, <1>4 DEF Ends
  <2> QED BY <2>2, <2>4, <2>5, <1>1, <1>2, <1>4, Written DEF Persist, OnlyFaults
<1>5. CASE Persist(x) /\ UNCHANGED addons /\ (Ends(x, TRUE) \/ Ends(x, FALSE))
  BY <1>1, <1>5, EndKept DEF Persist, OnlyFaults
<1>6. CASE PersistLost(x)
  <2>1. ASSUME NEW y \in Actors PROVE Winds(y) BY <1>6 DEF PersistLost, Winds
  <2>2. OnlyFaults BY <1>1, <1>6, OneFault DEF PersistLost
  <2>3. \A b \in Addons : First(b) => cached'[b] <= listed[b].uid BY <1>3, <1>6 DEF PersistLost
  <2> QED BY <2>1, <2>2, <2>3, <1>1, <1>2, <1>6, Written DEF PersistLost
<1> QED BY <1>4, <1>5, <1>6 DEF Persist

(* A name is given for the first time: nobody works for it.  Given again,   *)
(* nothing is claimed of it.                                                *)
LEMMA KeptCreateAddon ==
    ASSUME IInv, TypeOK', NEW a \in Addons, NEW v \in 1..MaxVersion, CreateAddon(a, v)
    PROVE  IInv'
<1> USE DEF memory, onCluster
<1>1. /\ TypeOK /\ History /\ Known(a) /\ addons[a].uid \in Nat /\ listed[a].uid \in Nat
      /\ addons[a].phase = "Absent" /\ listed[a] \in Addon
  BY Typed DEF IInv, CreateAddon, Exists
<1>2. /\ addons'[a].uid = addons[a].uid + 1 /\ addons'[a].phase = "Initializing"
      /\ addons'[a].have = 0
      /\ \A b \in Addons : b # a => addons'[b] = addons[b]
  <2>1. addons'[a] = [Nowhere EXCEPT !.uid = addons[a].uid + 1, !.phase = "Initializing", !.want = v]
        /\ \A b \in Addons : b # a => addons'[b] = addons[b]
    BY <1>1 DEF CreateAddon, TypeOK
  <2> QED BY <2>1 DEF Nowhere
<1>3. Onward
  <2>1. happened \subseteq happened' BY DEF CreateAddon
  <2>2. \A b \in Addons : addons[b].uid <= addons'[b].uid BY <1>1, <1>2, Typed
  <2>3. edits <= edits' BY <1>1, Typed DEF CreateAddon
  <2> QED BY <2>1, <2>2, <2>3 DEF Onward
<1>4. First(a)' => addons[a].uid = 0 /\ addons'[a].uid = 1 BY <1>1, <1>2 DEF First
<1>5. History'
  <2>1. "edit" \in happened' => "edit" \in happened BY DEF CreateAddon
  <2>2. CASE addons[a].uid = 0
    <3>1. happened' = happened BY <2>2 DEF CreateAddon
    <3>2. First(a)' BY <2>2, <1>2 DEF First
    <3> QED BY <3>1, <3>2, <1>1, <1>2 DEF History, First, CreateAddon
  <2>3. CASE addons[a].uid # 0
    <3>1. "reuse" \in happened' BY <2>3 DEF CreateAddon
    <3> QED BY <3>1, <2>1, <1>1 DEF History, CreateAddon
  <2> QED BY <2>2, <2>3
<1>6. ASSUME First(a)' PROVE listed[a].uid = 0 /\ listed[a].phase = "Absent"
  <2>1. First(a) /\ addons[a].uid = 0 BY <1>1, <1>4, <1>6 DEF First
  <2>2. Before(listed[a], addons[a]) /\ Sane(listed[a]) BY <2>1, <1>1 DEF Known, OrderedKey
  <2>3. listed[a].uid = 0 BY <2>1, <2>2, <1>1 DEF Before
  <2> QED BY <2>2, <2>3 DEF Sane
<1>7. First(a)' => KeyHolds(a)'
  <2> SUFFICES ASSUME First(a)' PROVE KeyHolds(a)' OBVIOUS
  <2>1. listed'[a] = listed[a] /\ listed[a].uid = 0 /\ listed[a].phase = "Absent"
    BY <1>6 DEF CreateAddon
  <2>2. OrderedKey(a)'
    <3>1. cached'[a] <= listed[a].uid
      BY <1>1, <1>4, Later, <1>3 DEF Known, OrderedKey, CreateAddon
    <3> QED BY <3>1, <2>1, <1>2, <1>4 DEF OrderedKey, Before, Past
  <2>3. RebuildsKey(a)' BY <2>1 DEF RebuildsKey
  <2>4. CalmKey(a)' BY <2>1, <1>2 DEF CalmKey, Steady, SameWant
  <2>5. FindsKey(a)'
    BY <2>1, <1>2 DEF FindsKey, ContentKey, VersionKey, Deployed, Grown
  <2> QED BY <2>2, <2>3, <2>4, <2>5 DEF KeyHolds
<1>8. ASSUME First(a)', NEW y \in Actors, run[y].at # "idle", run[y].of = a PROVE FALSE
  BY <1>4, <1>8, AtWork
<1>9. \A y \in Actors : Winds(y) BY DEF CreateAddon, Winds
<1>10. \A b \in Addons : First(b) => cached'[b] <= listed[b].uid
  BY DEF IInv, Known, OrderedKey, CreateAddon
<1>11. Sane(addons[a])' BY <1>1, <1>2 DEF Sane
<1> QED BY <1>1, <1>2, <1>3, <1>5, <1>6, <1>7, <1>8, <1>9, <1>10, <1>11, Stored DEF CreateAddon

LEMMA KeptDeleteAddon ==
    ASSUME IInv, TypeOK', NEW a \in Addons, DeleteAddon(a)
    PROVE  IInv'
<1> USE DEF memory, onCluster
<1>1. /\ TypeOK /\ History /\ Known(a) /\ addons[a].uid \in Nat /\ listed[a].uid \in Nat
      /\ addons[a].phase # "Absent" /\ listed[a] \in Addon /\ addons[a].uid > 0
  <2>1. addons[a].phase # "Absent" /\ Sane(addons[a]) BY DEF DeleteAddon, Exists, IInv, Known
  <2> QED BY <2>1, Typed DEF IInv, Sane
<1>2. /\ addons'[a].uid = addons[a].uid /\ addons'[a].phase = "Absent"
      /\ \A b \in Addons : b # a => addons'[b] = addons[b]
  <2>1. addons'[a] = [Nowhere EXCEPT !.uid = addons[a].uid]
        /\ \A b \in Addons : b # a => addons'[b] = addons[b]
    BY <1>1 DEF DeleteAddon, TypeOK
  <2> QED BY <2>1 DEF Nowhere
<1>3. \A b \in Addons : addons'[b].uid = addons[b].uid BY <1>2
<1>4. Onward
  <2>1. \A b \in Addons : addons[b].uid <= addons'[b].uid BY <1>1, <1>3, Typed
  <2>2. edits <= edits' BY <1>1, Typed DEF DeleteAddon
  <2> QED BY <2>1, <2>2 DEF Onward, DeleteAddon
<1>5. History'
  <2>1. edits' > 0 BY <1>1, Typed DEF DeleteAddon
  <2> QED BY <2>1, <1>1, <1>3 DEF History, First, DeleteAddon
<1>6. First(a)' => First(a) BY <1>3 DEF First
<1>7. First(a)' => KeyHolds(a)'
  <2> SUFFICES ASSUME First(a)' PROVE KeyHolds(a)' OBVIOUS
  <2>1. OrderedKey(a) /\ (Unedited => CalmKey(a)) /\ listed'[a] = listed[a] /\ cached' = cached
        /\ (Unedited' <=> Unedited)
    BY <1>1, <1>6 DEF Known, DeleteAddon, Unedited
  <2>2. OrderedKey(a)' BY <2>1, <1>2 DEF OrderedKey, Before, Past
  <2>3. RebuildsKey(a)' BY <1>2 DEF RebuildsKey
  <2>4. Unedited' => CalmKey(a)' BY <2>1, <1>2 DEF CalmKey, Steady, SameWant
  <2>5. FindsKey(a)'
    BY <1>2 DEF FindsKey, ContentKey, VersionKey, Grown, Deployed
  <2> QED BY <2>2, <2>3, <2>4, <2>5 DEF KeyHolds
<1>8. ASSUME First(a)', NEW y \in Actors, NEW s, s.at # "idle", s.of = a, Fits(y, s)
      PROVE  Holds(s)'
  <2>1. Ordered(s) /\ (Unedited => Calm(s)) /\ (Unedited' <=> Unedited)
    BY <1>6, <1>8 DEF Fits, Grounded, DeleteAddon, Unedited
  <2>2. Ordered(s)' BY <2>1, <1>2, <1>8 DEF Ordered, Before, Past, DeleteAddon
  <2>3. Rebuilds(s)' BY <1>2, <1>8 DEF Rebuilds
  <2>4. Unedited' => Calm(s)'
    BY <2>1, <1>2, <1>8 DEF Calm, Steady, SameWant, DeleteAddon
  <2>5. Finds(s)'
    <3>1. s.job = "reinit" => s.obj.phase # "Absent"
      <4>1. Form(y, s) BY <1>8 DEF Fits, Grounded
      <4> QED BY <4>1 DEF Form, WorkerForm, TaskForm, Parts
    <3>2. Quiet' /\ Alone(a)' => Content(s)
      BY <1>1, <1>4, <1>6, <1>8, Later DEF Fits, Finds
    <3> QED BY <3>1, <3>2, <1>2, <1>8 DEF Finds, Content, Version, DeleteAddon
  <2> QED BY <2>2, <2>3, <2>4, <2>5 DEF Holds
<1>9. \A y \in Actors : Winds(y) BY DEF DeleteAddon, Winds
<1>10. \A b \in Addons : First(b) => cached'[b] <= listed[b].uid
  BY DEF IInv, Known, OrderedKey, DeleteAddon
<1>11. Sane(addons[a])' BY <1>2 DEF Sane
<1> QED BY <1>1, <1>2, <1>4, <1>5, <1>7, <1>8, <1>9, <1>10, <1>11, Stored DEF DeleteAddon

(* Before the first edit all versions want the same; none wants what the    *)
(* edit asks for.                                                           *)
LEMMA KeptEditVersion ==
    ASSUME IInv, TypeOK', NEW a \in Addons, NEW v \in 1..MaxVersion, EditVersion(a, v)
    PROVE  IInv'
<1> USE DEF memory, onCluster
<1>1. /\ TypeOK /\ History /\ Known(a) /\ Alike(a) /\ addons[a].phase # "Absent"
      /\ edits \in Nat /\ edits' = edits + 1 /\ v # addons[a].want
  BY Typed DEF IInv, EditVersion, Exists
<1>2. /\ addons'[a].uid = addons[a].uid /\ addons'[a].phase = addons[a].phase
      /\ addons'[a].have = addons[a].have /\ addons'[a].retries = addons[a].retries
      /\ addons'[a].want = v
      /\ \A b \in Addons : b # a => addons'[b] = addons[b]
  BY <1>1, RunType, ZenonT(40) DEF EditVersion, TypeOK, Addon
<1>3. \A b \in Addons : addons'[b].uid = addons[b].uid BY <1>2
<1>4. Onward
  <2>1. \A b \in Addons : addons[b].uid <= addons'[b].uid BY <1>1, <1>3, Typed
  <2>2. edits <= edits' BY <1>1
  <2> QED BY <2>1, <2>2 DEF Onward, EditVersion
<1>5. History'
  <2>1. edits' > 0 BY <1>1
  <2>2. "reuse" \in happened => "reuse" \in happened' BY DEF EditVersion
  <2> QED BY <2>1, <2>2, <1>1, <1>3 DEF History, First
<1>6. ASSUME First(a)' PROVE First(a) BY <1>3, <1>6 DEF First
<1>7. ~Unedited' BY DEF Unedited, EditVersion
<1>8. Unhurried' => Unhurried /\ addons[a].phase # "Reinitializing" BY DEF Unhurried, EditVersion
<1>9. Quiet' => Unhurried' BY DEF Quiet, Unhurried
<1>10. ASSUME edits' <= 1 PROVE Unedited
  <2>1. ~(edits > 0) BY <1>1, <1>10
  <2> QED BY <2>1, <1>1 DEF History, Unedited
<1>11. First(a)' => KeyHolds(a)'
  <2> SUFFICES ASSUME First(a)' PROVE KeyHolds(a)' OBVIOUS
  <2>1. /\ OrderedKey(a) /\ (Unedited => CalmKey(a)) /\ FindsKey(a)
        /\ listed'[a] = listed[a] /\ cached' = cached /\ installed' = installed /\ image' = image
    BY <1>1, <1>6 DEF Known, EditVersion
  <2>2. OrderedKey(a)' BY <2>1, <1>2 DEF OrderedKey, Before, Past
  <2>3. Unhurried' => RebuildsKey(a)' BY <1>2, <1>8 DEF RebuildsKey
  <2>4. ASSUME Quiet', Alone(a)' PROVE ContentKey(a)' /\ (edits' <= 1 => VersionKey(a)')
    <3>1. ContentKey(a) BY <2>1, <2>4, <1>1, <1>4, Later DEF FindsKey
    <3>2. ContentKey(a)' BY <3>1, <2>1, <1>2 DEF ContentKey
    <3>3. ASSUME edits' <= 1 PROVE VersionKey(a)'
      <4>1. Steady(addons[a]) BY <3>3, <2>1, <1>10 DEF CalmKey
      <4> QED BY <4>1, <1>1, <1>2 DEF Steady, VersionKey, Grown, Deployed
    <3> QED BY <3>2, <3>3
  <2> QED BY <2>2, <2>3, <2>4, <1>7 DEF KeyHolds, FindsKey
<1>12. ASSUME First(a)', NEW y \in Actors, NEW s, s.at # "idle", s.of = a, Fits(y, s)
       PROVE  Holds(s)'
  <2>1. /\ Ordered(s) /\ (Unhurried => Rebuilds(s)) /\ (Unedited => Calm(s)) /\ Finds(s)
        /\ Form(y, s) /\ listed' = listed /\ installed' = installed /\ image' = image
    BY <1>6, <1>12 DEF Fits, Grounded, EditVersion
  <2>2. Ordered(s)' BY <2>1, <1>2, <1>12 DEF Ordered, Before, Past
  <2>3. s.job = "reinit" => s.obj.phase = "Reinitializing"
    BY <2>1 DEF Form, WorkerForm, TaskForm, Parts
  <2>4. Unhurried' => Rebuilds(s)'
    BY <2>1, <2>3, <1>1, <1>8, <1>12 DEF Rebuilds
  <2>5. ASSUME Quiet', Alone(a)' PROVE Content(s)' /\ (edits' <= 1 => Version(s)')
    <3>1. Content(s) BY <2>1, <2>5, <1>1, <1>4, <1>12, Later DEF Finds
    <3>2. s.job = "reinit" => addons'[a] # s.obj BY <2>3, <2>5, <1>2, <1>8, <1>9
    <3>3. Content(s)' BY <3>1, <3>2, <2>1, <1>2, <1>12 DEF Content
    <3>4. ASSUME edits' <= 1 PROVE Version(s)'
      <4>1. Calm(s) BY <3>4, <2>1, <1>10
      <4> QED BY <4>1, <1>1, <1>2, <1>12 DEF Calm, SameWant, Version
    <3> QED BY <3>3, <3>4
  <2> QED BY <2>2, <2>4, <2>5, <1>7, <1>12 DEF Holds, Finds
<1>13. ASSUME First(a)', Stirring(a), Unhurried', listed[a].phase = "Reinitializing" PROVE FALSE
  BY <1>1, <1>6, <1>8, <1>13 DEF Alike, OneRebuilds
<1>14. \A y \in Actors : Winds(y) BY DEF EditVersion, Winds
<1>15. \A b \in Addons : First(b) => cached'[b] <= listed[b].uid
  BY DEF IInv, Known, OrderedKey, EditVersion
<1>16. Sane(addons[a])' BY <1>1, <1>2 DEF Sane, Known
<1> QED BY <1>1, <1>2, <1>4, <1>5, <1>7, <1>11, <1>12, <1>13, <1>14, <1>15, <1>16, Stored DEF EditVersion

------------------------------------------------------------------------------
(* A copy is taken anew.                                                    *)
LEMMA Copied ==
    ASSUME IInv, TypeOK', Onward, NEW a \in Addons,
           UNCHANGED <<addons, edits, installed, image>>, OnlyFaults,
           listed'[a] = addons[a], First(a) => cached'[a] <= addons[a].uid
    PROVE  Known(a)'
<1> PICK o : o = addons[a] OBVIOUS
<1>1. TypeOK /\ Known(a) /\ o \in Addon /\ Sane(o) BY RunType DEF IInv, Known
<1>2. Before(o, o) BY <1>1, BeforeItself
<1>3. Sane(addons[a])' /\ Sane(listed[a])' BY <1>1 DEF Sane
<1> SUFFICES ASSUME First(a) PROVE KeyHolds(a)'
  BY <1>3 DEF Known, KeyHolds, First
<1>4. (Unedited => CalmKey(a)) /\ FindsKey(a) /\ addons'[a] = o BY <1>1 DEF Known
<1>5. OrderedKey(a)' BY <1>2, <1>4 DEF OrderedKey, Before, Past
<1>6. RebuildsKey(a)' BY <1>4 DEF RebuildsKey
<1>7. Unedited' => CalmKey(a)'
  BY <1>1, <1>4, Later DEF CalmKey, Steady, SameWant
<1>8. FindsKey(a)'
  <2>1. Quiet' /\ Alone(a)' => ContentKey(a) /\ (edits' <= 1 => VersionKey(a))
    BY <1>1, <1>4, Later DEF FindsKey
  <2> QED BY <2>1, <1>4 DEF FindsKey, ContentKey, VersionKey
<1> QED BY <1>5, <1>6, <1>7, <1>8 DEF KeyHolds

(* The informer's copy of a becomes the stored one, which no actor at work  *)
(* has yet.                                                                 *)
LEMMA KeptDeliver ==
    ASSUME IInv, TypeOK', NEW a \in Addons, Deliver(a)
    PROVE  IInv'
<1> USE DEF memory, onCluster
<1> PICK o : o = addons[a] OBVIOUS
<1> PICK l : l = listed[a] OBVIOUS
<1>1. /\ TypeOK /\ History /\ Known(a) /\ Alike(a) /\ o \in Addon /\ l \in Addon /\ l # o
      /\ o.uid \in Nat /\ l.uid \in Nat /\ Sane(o) /\ Sane(l)
      /\ UNCHANGED <<addons, cached, run, checking, edits, happened, installed, image>>
      /\ dirty' = dirty \cup {a}
  BY RunType, Typed DEF IInv, Known, Deliver
<1>2. listed'[a] = o /\ \A b \in Addons : b # a => listed'[b] = listed[b]
  BY <1>1 DEF Deliver, TypeOK
<1>3. History' /\ Onward BY <1>1, FaultHistory DEF OnlyFaults
<1>4. First(a) => Before(l, o) BY <1>1 DEF Known, OrderedKey
<1>5. Before(o, o) BY <1>1, BeforeItself
<1>6. ASSUME First(a), NEW y \in Actors, Works(y, a), run[y].job \in Judges
      PROVE  /\ Past(l) /\ Past(o) /\ l.phase \in Grown \cup {"Absent"}
             /\ l.phase = "Absent" => o.phase = "Absent"
  <2>1. Ordered(run[y]) BY <1>6 DEF IInv, Fits, Grounded, Works
  <2>2. Past(l) BY <2>1, <1>6 DEF Ordered, Works
  <2> QED BY <2>2, <1>1, <1>4, <1>6 DEF Before, Past, Grown, Deployed, Addon, Phases
<1>7. ASSUME NEW b \in Addons PROVE Known(b)'
  <2>1. Known(b) BY DEF IInv
  <2>2. CASE b # a
    <3>1. First(b) => FindsKey(b)' BY <2>1, <2>2, <1>1, <1>2, <1>3, StillFindsKey DEF Known
    <3>2. First(b) => cached'[b] <= listed[b].uid BY <2>1, <1>1 DEF Known, OrderedKey
    <3> QED BY <3>1, <3>2, <2>1, <2>2, <1>1, <1>2, <1>3, StillKnown
  <2>3. CASE b = a
    <3>1. First(a) => cached[a] <= o.uid
      BY <1>1, <1>4, Typed DEF Known, OrderedKey, Before
    <3> QED BY <3>1, <2>3, <1>1, <1>2, <1>3, Copied DEF OnlyFaults, Known
  <2> QED BY <2>2, <2>3
<1>8. ASSUME NEW y \in Actors PROVE Fits(y, run[y])'
  <2> PICK s : s = run[y] OBVIOUS
  <2>1. Fits(y, s) /\ run'[y] = s BY <1>1 DEF IInv
  <2>2. CASE s.at = "idle" \/ s.of # a
    <3>1. s.at # "idle" => s.of \in Addons BY AtWork
    <3>2. s.at # "idle" => addons'[s.of] = addons[s.of] /\ listed'[s.of] = listed[s.of]
      BY <3>1, <2>2, <1>1, <1>2
    <3>3. s.at # "idle" /\ First(s.of) => Finds(s)'
      BY <3>1, <3>2, <2>1, <1>1, <1>3, StillFinds DEF Fits
    <3>4. Fits(y, s)' BY <3>1, <3>2, <3>3, <2>1, <1>1, <1>3, StillFits DEF Fits
    <3> QED BY <3>4, <2>1
  <2>3. CASE s.at # "idle" /\ s.of = a
    <3>1. Form(y, s)' BY <2>1, <2>3 DEF Fits, Grounded, Form, TaskForm, WorkerForm, Sane
    <3> SUFFICES ASSUME First(a) PROVE Holds(s)'
      <4>1. First(a)' <=> First(a) BY <1>1 DEF First
      <4>2. Fits(y, s)' BY <4>1, <3>1, <2>3 DEF Fits, Grounded, Holds
      <4> QED BY <4>2, <2>1
    <3>2. /\ Ordered(s) /\ (Unhurried => Rebuilds(s)) /\ (Unedited => Calm(s)) /\ Finds(s)
          /\ Sane(s.obj) /\ s.obj \in Addon /\ Works(y, a)
      BY <2>1, <2>3, <1>1, RunType DEF Fits, Grounded, Form, Works
    <3>3. Ordered(s)'
      <4>1. Before(s.obj, o) BY <3>2, <2>3, <1>1, <1>4, BeforeTrans DEF Ordered
      <4>2. s.job \in Judges => Past(o) BY <3>2, <1>6
      <4> QED BY <4>1, <4>2, <3>2, <2>3, <1>1, <1>2 DEF Ordered, Before, Past
    <3>4. Unhurried' => Rebuilds(s)' BY <3>2, <1>1 DEF Rebuilds, Unhurried
    <3>5. ASSUME Unedited' PROVE Calm(s)'
      <4>1. Calm(s) /\ CalmKey(a) BY <3>2, <3>5, <1>1 DEF Known, Unedited
      <4>2. s.job = "watch" => o.phase \in {"Running", "Failed", "Absent"}
        <5>1. s.job = "watch" /\ l.phase = "Absent" => o.phase = "Absent" BY <3>2, <1>6 DEF Judges
        <5> QED BY <5>1, <4>1, <2>3 DEF Calm, CalmKey
      <4> QED BY <4>1, <4>2, <2>3, <1>1, <1>2 DEF Calm, Steady, SameWant
    <3>6. Finds(s)'
      <4>1. Quiet' /\ Alone(a)' => Content(s) BY <3>2, <2>3, <1>1, <1>3, Later DEF Finds
      <4>2. Quiet' /\ Alone(a)' /\ edits' <= 1 => Version(s)
        BY <3>2, <2>3, <1>1, <1>3, Later DEF Finds
      <4>3. Content(s) => Content(s)' BY <1>1 DEF Content
      <4>4. Version(s) => Version(s)' BY <2>3, <1>1, <1>2 DEF Version
      <4> QED BY <4>1, <4>2, <4>3, <4>4, <2>3 DEF Finds
    <3> QED BY <3>3, <3>4, <3>5, <3>6 DEF Holds
  <2> QED BY <2>2, <2>3
<1>9. ASSUME NEW b \in Addons PROVE Alike(b)'
  <2> SUFFICES ASSUME First(b) PROVE Alike(b)' BY <1>1 DEF Alike, First
  <2>1. Alike(b) BY DEF IInv
  <2>2. \A t \in Tasks : Works(t, b)' <=> Works(t, b) BY <1>1 DEF Works
  <2>3. Exclusive(b)' BY <2>1, <2>2, <1>1 DEF Alike, Exclusive
  <2>4. CASE b # a
    <3>1. (Stirring(b)' <=> Stirring(b)) /\ listed'[b] = listed[b]
      BY <2>4, <1>1, <1>2 DEF Stirring
    <3>2. OneRebuilds(b) => OneRebuilds(b)' BY <3>1, <2>2, <1>1 DEF OneRebuilds, Does
    <3>3. OneChecks(b) => OneChecks(b)' BY <3>1, <2>2, <1>1 DEF OneChecks, Does
    <3> QED BY <3>2, <3>3, <2>1, <2>3, <1>1 DEF Alike, Unhurried, Unedited
  <2>5. CASE b = a
    <3>1. ASSUME Unhurried' PROVE OneRebuilds(a)'
      <4>1. OneRebuilds(a) /\ RebuildsKey(a) /\ First(a)
        BY <3>1, <2>1, <2>5, <1>1 DEF Alike, Known, Unhurried
      <4>2. ASSUME NEW t \in Tasks, Does(t, a, "reinit"), o.phase = "Reinitializing"
            PROVE  run[t].obj # o
        <5>1. t \in Actors BY DEF Actors
        <5>2. Before(run[t].obj, l) BY <4>1, <4>2, <5>1 DEF IInv, Fits, Grounded, Ordered, Does, Works
        <5> SUFFICES ASSUME run[t].obj = o PROVE FALSE OBVIOUS
        <5>3. Before(o, l) /\ Before(l, o) BY <5>2, <4>1, <1>4
        <5>4. o.uid > 0 /\ l.uid > 0 BY <5>3, <4>2, <1>1 DEF Sane, Before
        <5>5. l.phase = "Reinitializing"
          BY <5>3, <5>4, <4>2, <1>1 DEF Before, Past, Addon, Phases
        <5>6. l.retries \in Int /\ o.retries \in Int BY <1>1, AddonAssumption DEF Addon
        <5>7. l.retries = o.retries BY <5>3, <5>5, <5>6, <4>2 DEF Before
        <5> QED BY <5>5, <5>7, <4>1, <4>2, <1>1 DEF RebuildsKey
      <4> QED BY <4>1, <4>2, <2>2, <2>5, <1>1, <1>2 DEF OneRebuilds, Does
    <3>2. ASSUME Unedited' PROVE OneChecks(a)'
      <4>1. OneChecks(a) /\ CalmKey(a) /\ First(a)
        BY <3>2, <2>1, <2>5, <1>1 DEF Alike, Known, Unedited
      <4>2. ASSUME NEW t \in Tasks, Does(t, a, "check")
            PROVE  /\ o.phase # "Checking"
                   /\ a \in checking \/ o.phase \in {"Failed", "Absent"}
        <5>1. /\ l.phase \in Grown \cup {"Absent"} /\ (l.phase = "Absent" => o.phase = "Absent")
          BY <4>1, <4>2, <1>6 DEF Does, Judges, Works, Actors
        <5>2. o.phase # "Checking"
          BY <5>1, <4>1, <1>1 DEF CalmKey, Steady, Grown, Deployed
        <5>3. a \in checking \/ l.phase \in {"Failed", "Absent"} BY <4>1, <4>2 DEF OneChecks
        <5> QED BY <5>1, <5>2, <5>3, <4>1 DEF CalmKey
      <4> QED BY <4>1, <4>2, <2>2, <2>5, <1>1, <1>2 DEF OneChecks, Does
    <3> QED BY <3>1, <3>2, <2>3, <2>5 DEF Alike
  <2> QED BY <2>4, <2>5
<1> QED BY <1>3, <1>7, <1>8, <1>9 DEF IInv

(* The process forgets what it did, and copies what is stored.              *)
LEMMA KeptForget ==
    ASSUME IInv, TypeOK',
           \/ Restart
           \/ \E a \in Addons : SyncPanics(a)
           \/ \E x \in Actors : PanicsForImage(x)
    PROVE  IInv'
<1> USE DEF memory, onCluster
<1>1. /\ TypeOK /\ History /\ Forget /\ OnlyFaults
      /\ UNCHANGED <<addons, edits, installed, image>>
  BY OneFault DEF IInv, Restart, SyncPanics, PanicsForImage, OnlyFaults
<1>2. History' /\ Onward BY <1>1, FaultHistory
<1>3. \A y \in Actors : run'[y].at = "idle" BY <1>1 DEF Forget, Idle
<1>4. \A y \in Actors : Fits(y, run[y])' BY <1>3 DEF Fits
<1>5. ASSUME NEW b \in Addons PROVE Known(b)'
  BY <1>1, <1>2, Copied, Typed DEF Forget
<1>6. ASSUME NEW b \in Addons PROVE Alike(b)'
  <2>1. \A t \in Tasks : ~Works(t, b)' BY <1>3 DEF Works, Actors
  <2>2. listed' = addons /\ addons' = addons BY <1>1 DEF Forget
  <2>3. Exclusive(b)' BY <2>1 DEF Exclusive
  <2>4. OneRebuilds(b)' BY <2>1, <2>2 DEF OneRebuilds, Does
  <2>5. OneChecks(b)' BY <2>1, <2>2 DEF OneChecks, Does
  <2> QED BY <2>3, <2>4, <2>5 DEF Alike
<1> QED BY <1>2, <1>4, <1>5, <1>6 DEF IInv

(* Somebody removes the deployment: what the controller finds is no longer  *)
(* claimed.  A step that changes nothing is a case of it.                   *)
LEMMA KeptStill ==
    ASSUME IInv, TypeOK', UNCHANGED <<addons, memory, edits>>, OnlyFaults,
           Quiet' => UNCHANGED <<installed, image>>
    PROVE  IInv'
<1> USE DEF memory
<1>1. TypeOK /\ History BY DEF IInv
<1>2. History' /\ Onward BY <1>1, FaultHistory
<1>3. ASSUME NEW y \in Actors PROVE Fits(y, run[y])'
  <2> PICK r : r = run[y] OBVIOUS
  <2>1. ASSUME r.at # "idle", First(r.of) PROVE Finds(r)'
    <3>1. r.of \in Addons /\ Finds(r) BY <2>1, AtWork DEF IInv, Fits
    <3>2. CASE Quiet' BY <3>1, <3>2, <1>1, <1>2, StillFinds
    <3>3. CASE ~Quiet' BY <3>3 DEF Finds
    <3> QED BY <3>2, <3>3
  <2>2. r.at # "idle" => r.of \in Addons BY AtWork
  <2>3. r.at # "idle" => Grounded(y, r) BY DEF IInv, Fits
  <2>4. Fits(y, r)' BY <2>1, <2>2, <2>3, <1>1, <1>2, StillFits
  <2> QED BY <2>4
<1>4. ASSUME NEW a \in Addons PROVE Known(a)'
  <2>1. Known(a) BY DEF IInv
  <2>2. ASSUME First(a) PROVE FindsKey(a)'
    <3>1. CASE Quiet' BY <2>1, <2>2, <3>1, <1>1, <1>2, StillFindsKey DEF Known
    <3>2. CASE ~Quiet' BY <3>2 DEF FindsKey
    <3> QED BY <3>1, <3>2
  <2>3. First(a) => cached'[a] <= listed[a].uid BY <2>1 DEF Known, OrderedKey
  <2> QED BY <2>1, <2>2, <2>3, <1>1, <1>2, StillKnown
<1>5. ASSUME NEW a \in Addons PROVE Alike(a)'
  <2>1. Alike(a) /\ (Unhurried' => Unhurried) /\ (Unedited' => Unedited)
    BY <1>1, <1>2, Later DEF IInv
  <2>2. First(a)' => First(a) BY DEF First
  <2>3. Exclusive(a) => Exclusive(a)' BY DEF Exclusive, Works
  <2>4. OneRebuilds(a) => OneRebuilds(a)' BY DEF OneRebuilds, Does, Works, Stirring
  <2>5. OneChecks(a) => OneChecks(a)' BY DEF OneChecks, Does, Works, Stirring
  <2> QED BY <2>1, <2>2, <2>3, <2>4, <2>5 DEF Alike
<1> QED BY <1>2, <1>3, <1>4, <1>5 DEF IInv

LEMMA KeptInit == Init => IInv
<1> SUFFICES ASSUME Init PROVE IInv OBVIOUS
<1>1. \A x \in Actors : run[x] = Idle(x) /\ Idle(x).at = "idle" BY DEF Init, Idle
<1>2. /\ \A a \in Addons : addons[a] = Nowhere /\ listed[a] = Nowhere /\ cached[a] = -1
      /\ Nowhere \in Addon
      /\ Nowhere.uid = 0 /\ Nowhere.phase = "Absent"
  BY Records DEF Init, Nowhere
<1>3. TypeOK
  <2>1. run \in [Actors -> Doing] BY IdleType DEF Init
  <2>2. addons \in [Addons -> Addon] /\ listed \in [Addons -> Addon] BY <1>2 DEF Init
  <2>3. cached \in [Addons -> -1..MaxUid] /\ image \in 0..MaxVersion BY Records DEF Init
  <2>4. edits \in 0..MaxEdits BY AddonAssumption DEF Init
  <2> QED BY <2>1, <2>2, <2>3, <2>4 DEF Init, TypeOK, Doing
<1>4. History BY <1>2 DEF Init, History, First
<1>5. \A x \in Actors : Fits(x, run[x]) BY <1>1 DEF Fits
<1>6. ASSUME NEW a \in Addons PROVE Known(a)
  <2>1. Before(Nowhere, Nowhere) BY <1>2, BeforeItself
  <2>2. Sane(addons[a]) /\ Sane(listed[a]) BY <1>2 DEF Sane
  <2>3. OrderedKey(a) BY <1>2, <2>1 DEF OrderedKey
  <2>4. RebuildsKey(a) /\ CalmKey(a) BY <1>2 DEF RebuildsKey, CalmKey, Steady, SameWant
  <2>5. FindsKey(a) BY <1>2 DEF FindsKey, ContentKey, VersionKey, Deployed, Grown
  <2> QED BY <2>2, <2>3, <2>4, <2>5 DEF Known
<1>7. ASSUME NEW a \in Addons PROVE Alike(a)
  <2>1. \A t \in Tasks : ~Works(t, a) BY <1>1 DEF Works, Actors
  <2> QED BY <2>1, <1>2 DEF Alike, Exclusive, OneRebuilds, OneChecks, Does
<1> QED BY <1>3, <1>4, <1>5, <1>6, <1>7 DEF IInv

LEMMA Inductive == IInv /\ [Next]_vars => IInv'
<1> SUFFICES ASSUME IInv, [Next]_vars PROVE IInv' OBVIOUS
<1> USE DEF memory, onCluster
<1>1. TypeOK' /\ TypeOK BY TypeNext DEF IInv
<1>2. ASSUME NEW a \in Addons,
             \/ \E v \in 1..MaxVersion : CreateAddon(a, v) \/ EditVersion(a, v)
             \/ DeleteAddon(a) \/ Deliver(a) \/ Work(a) \/ RemoveFails(a)
      PROVE  IInv'
  BY <1>1, <1>2, KeptCreateAddon, KeptEditVersion, KeptDeleteAddon, KeptDeliver, KeptSync,
     KeptSyncDeleted, KeptForget, KeptRemove
     DEF Work
<1>3. ASSUME NEW x \in Actors,
             Step(x) \/ CreateFails(x) \/ RollbackFails(x) \/ PersistFails(x) \/ PersistLost(x)
      PROVE  IInv'
  BY <1>1, <1>3, KeptCreatePart, KeptRollback, KeptPersist, KeptForget, QuietSteps DEF Step
<1>4. ASSUME NEW t \in Tasks, Poll(t) \/ LookFails(t) PROVE IInv'
  BY <1>1, <1>4, KeptUpgrade, QuietSteps DEF Poll
<1>5. CASE Restart
  BY <1>1, <1>5, KeptForget
<1>6. CASE Removed
  BY <1>1, <1>6, OneFault, KeptStill DEF Removed, Fault, Quiet
<1>7. CASE UNCHANGED vars
  BY <1>1, <1>7, KeptStill DEF vars, OnlyFaults
<1> QED BY <1>2, <1>3, <1>4, <1>5, <1>6, <1>7 DEF Next

(* A stored add-on changes only by what users ask and by what actors store. *)
LEMMA PhaseSteps == IInv /\ [Next]_vars => [\A a \in Addons : PhaseStep(a)]_addons
<1> SUFFICES ASSUME IInv, Next, addons' # addons, NEW a \in Addons PROVE PhaseStep(a)
  BY DEF vars
<1> USE DEF memory, onCluster
<1>1. TypeOK /\ History BY DEF IInv
<1>2. ASSUME NEW b \in Addons, NEW v \in 1..MaxVersion, CreateAddon(b, v) PROVE PhaseStep(a)
  <2>1. addons[a].phase = "Absent" \/ addons'[a] = addons[a]
    BY <1>1, <1>2 DEF CreateAddon, Exists, TypeOK
  <2>2. addons[a].retries \in Nat BY <1>1, RunType, AddonAssumption DEF Addon
  <2> QED BY <2>1, <2>2 DEF PhaseStep
<1>3. ASSUME NEW b \in Addons, NEW v \in 1..MaxVersion, EditVersion(b, v) PROVE PhaseStep(a)
  <2>1. addons'[a] = addons[a] \/ addons'[a] = [addons[a] EXCEPT !.want = v]
    BY <1>1, <1>3 DEF EditVersion, TypeOK
  <2>2. addons[a] \in Addon BY <1>1, RunType
  <2>3. addons'[a].phase = addons[a].phase /\ addons'[a].retries = addons[a].retries
    BY <2>1, <2>2 DEF Addon
  <2>4. addons[a].retries \in Nat BY <2>2, AddonAssumption DEF Addon
  <2> QED BY <2>3, <2>4 DEF PhaseStep
<1>4. ASSUME NEW b \in Addons, DeleteAddon(b) PROVE PhaseStep(a)
  <2>1. addons'[a] = addons[a] \/ addons'[a].phase = "Absent"
    BY <1>1, <1>4 DEF DeleteAddon, TypeOK, Nowhere
  <2>2. addons[a].retries \in Nat BY <1>1, RunType, AddonAssumption DEF Addon
  <2> QED BY <2>1, <2>2 DEF PhaseStep
<1>5. ASSUME NEW x \in Actors, Persist(x) \/ PersistLost(x) PROVE PhaseStep(a)
  <2> PICK r : r = run[x] OBVIOUS
  <2>1. r.at = "persist" /\ addons[r.of] = r.obj /\ addons' = [addons EXCEPT ![r.of] = r.new]
    BY <1>5 DEF Persist, PersistLost
  <2> SUFFICES ASSUME addons[a].phase # "Absent", "reuse" \notin happened PROVE PhaseStep(a)
    BY DEF PhaseStep
  <2>2. CASE a = r.of
    <3>1. addons[a] = r.obj /\ addons'[a] = r.new /\ First(a)
      BY <2>1, <2>2, <1>1 DEF TypeOK, History
    <3>2. Writes(r) /\ r.obj \in Addon /\ r.new \in Addon BY <3>1, <2>1, <2>2, WritesIs
    <3> QED BY <3>1, <3>2 DEF Writes, PhaseStep, Arrows, Unedited, Grown, Deployed
  <2>3. CASE a # r.of
    <3>1. addons'[a] = addons[a] BY <2>1, <2>3, <1>1 DEF TypeOK
    <3>2. addons[a].retries \in Nat BY <1>1, RunType, AddonAssumption DEF Addon
    <3> QED BY <3>1, <3>2 DEF PhaseStep
  <2> QED BY <2>2, <2>3
<1>6. ASSUME NEW b \in Addons, Deliver(b) \/ Work(b) \/ RemoveFails(b) PROVE FALSE
  BY <1>6 DEF Deliver, Work, Sync, SyncDeleted, SyncPanics, Remove, RemoveFails
<1>7. ASSUME NEW x \in Actors, CreatePart(x) \/ Rollback(x) \/ CreateFails(x) \/ RollbackFails(x)
                                   \/ PersistFails(x) \/ PanicsForImage(x)
      PROVE  FALSE
  BY <1>7 DEF CreatePart, Rollback, CreateFails, RollbackFails, PersistFails, PanicsForImage
<1>8. ASSUME NEW t \in Tasks, Poll(t) \/ LookFails(t) PROVE FALSE
  BY <1>8 DEF Poll, Check, Upgrade, Watch, Return, LookFails
<1>9. ~Restart /\ ~Removed BY DEF Restart, Removed
<1> QED BY <1>2, <1>3, <1>4, <1>5, <1>6, <1>7, <1>8, <1>9 DEF Next, Step

------------------------------------------------------------------------------
(* The invariant the rest follows from: what every worker and goroutine may *)
(* rely on, what is known of every name, and that no two do the same.       *)
THEOREM Invariant == Spec => []IInv
<1>1. Init => IInv BY KeptInit
<1>2. IInv /\ [Next]_vars => IInv' BY Inductive
<1> QED BY <1>1, <1>2, PTL DEF Spec

(* Types of the variables (AddonController).                                *)
THEOREM TypeCorrect == Spec => []TypeOK
<1>1. IInv => TypeOK BY DEF IInv
<1> QED BY <1>1, Invariant, PTL

(* An add-on that says it is deployed has all its objects on the cluster,   *)
(* whichever workers and goroutines fail, stop or come late; and one whose  *)
(* version was changed once at most runs the version it says                *)
(* (controller.go:257).                                                     *)
THEOREM InstalledIsThere == Spec => []DeployedIsInstalled
<1>1. IInv => DeployedIsInstalled
  <2> SUFFICES ASSUME IInv, Quiet, NEW a \in Addons, Alone(a)
               PROVE  IsInstalled(a) /\ (edits <= 1 => HasItsVersion(a))
    BY DEF DeployedIsInstalled
  <2>1. First(a) BY DEF IInv, History, Quiet
  <2>2. ContentKey(a) /\ (edits <= 1 => VersionKey(a)) BY <2>1 DEF IInv, Known, FindsKey
  <2>3. IsInstalled(a) BY <2>2 DEF ContentKey, IsInstalled, Deployed
  <2>4. ASSUME edits <= 1 PROVE HasItsVersion(a)
    BY <2>2, <2>3, <2>4 DEF VersionKey, IsInstalled, HasItsVersion, Grown, Deployed
  <2> QED BY <2>3, <2>4
<1> QED BY <1>1, Invariant, PTL

(* Whoever writes the phase, and however late, it goes the way the          *)
(* controller means it to go: nothing runs that was not checked, retries    *)
(* only grow, what failed stays failed (controller.go:574, :619).           *)
THEOREM PhasesInOrder == Spec => PhaseOrder
<1>1. IInv /\ [Next]_vars => [\A a \in Addons : PhaseStep(a)]_addons BY PhaseSteps
<1> QED BY <1>1, Invariant, PTL DEF Spec, PhaseOrder

==============================================================================
