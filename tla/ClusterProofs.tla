----------------------------- MODULE ClusterProofs -----------------------------
(***************************************************************************)
(* The cluster controller, for every number of health loops, clusters of   *)
(* the name, edits and faults: a cluster that is being deleted does not    *)
(* come back, it is gone only after its content, and a running baremetal   *)
(* cluster has the credential its machines know.                           *)
(*                                                                         *)
(* The induction rests on what "current" stands for: a copy that the API   *)
(* admits an update from is the stored object, and a health loop whose     *)
(* result is admitted looked at this very object.                          *)
(***************************************************************************)
EXTENDS ClusterController, TLAPS

(* What a holder of a current copy knows. *)
Copies ==
    /\ "informer" \in current => listed = cluster
    /\ "worker" \in current /\ work.at # "idle" => work.obj = cluster
    /\ \A l \in Loops :
        l \in current /\ loops[l] \in {"Running", "Failed"}
            => cluster.phase \notin {"Absent", "Terminating"}

(* No copy is of a later cluster. *)
Uids == listed.uid <= cluster.uid /\ work.obj.uid <= cluster.uid

(* A cluster that is built has a step to go. *)
StepsLeft(c) == c.phase = "Initializing" => c.step <= LastStep
Steps == StepsLeft(cluster) /\ StepsLeft(listed) /\ StepsLeft(work.obj)

(* The steps are run for baremetal clusters that are being built. *)
Builds ==
    work.at \in {"credential", "step", "failed", "store", "token"}
        => work.obj.phase = "Initializing" /\ work.obj.kind = "baremetal"

(* Without finalizer, and where a worker is past the content of this       *)
(* cluster, the content is gone.                                           *)
ContentGone ==
    /\ cluster.phase = "Absent" => ~cluster.finalizer
    /\ ~cluster.finalizer \/ (work.at \in {"finalize", "remove"} /\ work.obj.uid = cluster.uid)
        => addons # "stored"

(* The worker's token is the stored one, until its first step made a new   *)
(* one; the second has installed it.                                       *)
WorkersToken ==
    /\ work.at = "step" => work.token = token
    /\ work.at \in {"store", "token"} =>
        /\ work.token > 0
        /\ work.obj.step > 1 => work.token = token
        /\ work.obj.step = 2 => token = installed

(* The worker has stored the cluster with its token made, not the token. *)
TokenUnderWay == work.at = "token" /\ work.obj.step = 1

(* How far a baremetal cluster is tells what was done for its credential. *)
Credential ==
    (cluster.kind = "baremetal" /\ cluster.phase \in {"Initializing", "Running", "Failed"}
        /\ happened \cap {"torn", "hijacked"} = {})
    =>  /\ cluster.phase \in {"Running", "Failed"} => cluster.step > LastStep
        /\ cluster.step > 1 /\ ~TokenUnderWay => token > 0
        /\ cluster.step > 2 => token = installed /\ token > 0 /\ ~TokenUnderWay

IInv ==
    /\ TypeOK /\ Copies /\ Uids /\ Steps /\ Builds
    /\ ContentGone /\ WorkersToken /\ Credential

------------------------------------------------------------------------------
(* Clusters and workers.                                                   *)

Worker ==
    [at : {"idle", "update", "credential", "step", "failed", "store", "token",
           "look", "content", "finalize", "remove"},
     obj : Cluster, token : Tokens]

(* A free name is a cluster, without content to finalize.                  *)
LEMMA NothingType ==
    ASSUME NEW uid \in 0..MaxUid
    PROVE  /\ Nothing(uid) \in Cluster /\ Nothing(uid).uid = uid
           /\ Nothing(uid).phase = "Absent" /\ ~Nothing(uid).finalizer
<1>1. (CHOOSE k \in Kinds : TRUE) \in Kinds BY ClusterAssumption
<1> QED BY <1>1 DEF Nothing, Cluster, Phases, LastStep

(* The idle worker is a worker with no cluster.                            *)
LEMMA IdleType ==
    /\ Idle \in Worker /\ Idle.at = "idle" /\ Idle.token = 0
    /\ Idle.obj.uid = 0 /\ Idle.obj.phase = "Absent"
<1>1. 0 \in 0..MaxUid BY ClusterAssumption
<1>2. Nothing(0) \in Cluster /\ Nothing(0).uid = 0 /\ Nothing(0).phase = "Absent"
  BY <1>1, NothingType
<1> QED BY <1>2 DEF Idle, Worker, Tokens

(* What a build step makes of a cluster that has one to go.                *)
LEMMA SteppedType ==
    ASSUME NEW c \in Cluster, c.phase = "Initializing", c.step <= LastStep
    PROVE  /\ Stepped(c) \in Cluster /\ StepsLeft(Stepped(c))
           /\ Stepped(c).uid = c.uid /\ Stepped(c).kind = c.kind
           /\ Stepped(c).finalizer = c.finalizer /\ Stepped(c).step = c.step + 1
           /\ Stepped(c).phase = IF c.step = LastStep THEN "Running" ELSE "Initializing"
<1> DEFINE step == c.step + 1
           phase == IF c.step = LastStep THEN "Running" ELSE c.phase
<1>1. step \in 1..LastStep + 1 /\ phase \in Phases BY DEF Cluster, LastStep, Phases
<1>2. Stepped(c) = [c EXCEPT !.step = step, !.phase = phase] BY DEF Stepped, Cluster
<1> HIDE DEF step, phase
<1>3. /\ Stepped(c) \in Cluster /\ Stepped(c).uid = c.uid /\ Stepped(c).kind = c.kind
      /\ Stepped(c).finalizer = c.finalizer /\ Stepped(c).step = step /\ Stepped(c).phase = phase
  BY <1>1, <1>2 DEF Cluster
<1> QED BY <1>3 DEF step, phase, StepsLeft, LastStep, Cluster

(* Another phase leaves the rest of a cluster alone.                       *)
LEMMA OtherPhase ==
    ASSUME NEW c \in Cluster, NEW p \in Phases
    PROVE  LET new == [c EXCEPT !.phase = p]
           IN  new \in Cluster /\ new.phase = p /\ new.uid = c.uid /\ new.kind = c.kind
               /\ new.step = c.step /\ new.finalizer = c.finalizer
BY DEF Cluster

(* So does the loss of the finalizer.                                      *)
LEMMA NoFinalizer ==
    ASSUME NEW c \in Cluster
    PROVE  LET new == [c EXCEPT !.finalizer = FALSE]
           IN  new \in Cluster /\ new.phase = c.phase /\ new.uid = c.uid /\ new.kind = c.kind
               /\ new.step = c.step /\ ~new.finalizer
BY DEF Cluster

------------------------------------------------------------------------------
(* The API.                                                                *)

(* A new cluster has its finalizer and all its steps to go.                *)
LEMMA CreateInv == ASSUME IInv, NEW kind \in Kinds, CreateCluster(kind) PROVE IInv'
<1> DEFINE new == [uid |-> cluster.uid + 1, kind |-> kind, phase |-> "Initializing",
                   step |-> 1, finalizer |-> TRUE]
<1>1. /\ cluster' = new /\ current' = {} /\ addons' \in {addons, "stored"}
      /\ UNCHANGED <<token, listed, dirty, cached, health, work, loops, alive, installed, edits, happened>>
  BY DEF CreateCluster, Write, memory, machines, history
<1>2. cluster \in Cluster /\ listed \in Cluster /\ work \in Worker BY DEF IInv, TypeOK, Worker
<1>3. new \in Cluster
  BY <1>2, ClusterAssumption DEF CreateCluster, Cluster, Phases, LastStep
<1>4. TypeOK' BY <1>1, <1>3 DEF IInv, TypeOK
<1>5. Uids' /\ Copies' /\ Steps' /\ Builds'
  BY <1>1, <1>2 DEF IInv, Uids, Copies, Steps, StepsLeft, Builds, Cluster, Worker, LastStep
<1>6. ContentGone' BY <1>1, <1>2 DEF IInv, Uids, ContentGone, Cluster, Worker
<1>7. WorkersToken' /\ Credential'
  BY <1>1 DEF IInv, WorkersToken, Credential, TokenUnderWay, LastStep
<1> QED BY <1>4, <1>5, <1>6, <1>7 DEF IInv

(* The credential of an imported cluster.                                  *)
LEMMA CreateCredentialInv == ASSUME IInv, CreateCredential PROVE IInv'
<1>1. /\ cluster.kind = "imported" /\ token = -1 /\ token' = 0
      /\ UNCHANGED <<cluster, addons, current, listed, dirty, cached, health, work, loops,
                     alive, installed, edits, happened>>
  BY DEF CreateCredential, memory, machines, history
<1>2. work \in Worker BY DEF IInv, TypeOK, Worker
<1>3. TypeOK' BY <1>1 DEF IInv, TypeOK, Tokens
<1>4. Uids' /\ Copies' /\ Steps' /\ Builds' /\ ContentGone'
  BY <1>1 DEF IInv, Uids, Copies, Steps, StepsLeft, Builds, ContentGone
<1>5. WorkersToken' /\ Credential'
  BY <1>1, <1>2 DEF IInv, WorkersToken, Credential, Worker, Tokens
<1> QED BY <1>3, <1>4, <1>5 DEF IInv

(* A write of the stored cluster with another phase, which is "Initial-    *)
(* izing" only if it was, and "Running" or "Failed" only if it was or is   *)
(* noted as hijacked.                                                      *)
LEMMA PhaseWrite ==
    ASSUME IInv, NEW p \in Phases \ {"Absent"}, Write([cluster EXCEPT !.phase = p]),
           UNCHANGED <<token, addons, installed, work, listed>>, TypeOK',
           p = "Initializing" => cluster.phase = "Initializing",
           p \in {"Running", "Failed"} =>
               \/ cluster.phase \in {"Running", "Failed"}
               \/ cluster.phase = "Initializing" /\ (cluster.kind = "baremetal" => "hijacked" \in happened'),
           happened \subseteq happened'
    PROVE  IInv'
<1>1. cluster \in Cluster BY DEF IInv, TypeOK
<1>2. /\ cluster'.phase = p /\ cluster'.uid = cluster.uid /\ cluster'.kind = cluster.kind
      /\ cluster'.step = cluster.step /\ cluster'.finalizer = cluster.finalizer /\ current' = {}
  BY <1>1, OtherPhase DEF Write
<1>3. Uids' /\ Copies' /\ Steps' /\ Builds' /\ ContentGone' /\ WorkersToken'
  BY <1>2 DEF IInv, Uids, Copies, Steps, StepsLeft, Builds, ContentGone, WorkersToken
<1>4. Credential' BY <1>2 DEF IInv, Credential, TokenUnderWay
<1> QED BY <1>3, <1>4 DEF IInv

(* A free name has no content left.                                        *)
LEMMA GoneInv ==
    ASSUME IInv, Removable, Write(Nothing(cluster.uid)), TypeOK',
           UNCHANGED <<token, addons, installed, listed>>,
           work' = work \/ work' = Idle, happened \subseteq happened'
    PROVE  IInv'
<1>1. /\ cluster'.phase = "Absent" /\ cluster'.uid = cluster.uid /\ ~cluster'.finalizer
      /\ current' = {}
  BY NothingType DEF IInv, TypeOK, Cluster, Write
<1>2. addons # "stored" BY DEF IInv, ContentGone, Removable
<1>3. cluster \in Cluster BY DEF IInv, TypeOK
<1>4. Uids' /\ Copies' /\ Steps' /\ Builds' /\ WorkersToken'
  BY <1>1, <1>3, IdleType
  DEF IInv, Uids, Copies, Steps, StepsLeft, Builds, WorkersToken, Cluster
<1>5. ContentGone' /\ Credential' BY <1>1, <1>2 DEF ContentGone, Credential
<1> QED BY <1>4, <1>5 DEF IInv

(* An edit makes copies old.                                               *)
LEMMA EditInv == ASSUME IInv, EditCluster PROVE IInv'
<1>1. /\ cluster' = cluster /\ current' = {} /\ edits' = edits + 1 /\ edits < MaxEdits
      /\ UNCHANGED <<token, addons, listed, dirty, cached, health, work, loops, alive, installed, happened>>
  BY DEF EditCluster, Write, memory, machines
<1>2. TypeOK'
  <2>1. edits' \in 0..MaxEdits BY <1>1, ClusterAssumption DEF IInv, TypeOK
  <2> QED BY <1>1, <2>1 DEF IInv, TypeOK
<1>3. Uids' /\ Copies' /\ Steps' /\ Builds' /\ ContentGone' /\ WorkersToken' /\ Credential'
  BY <1>1 DEF IInv, Uids, Copies, Steps, StepsLeft, Builds, ContentGone, WorkersToken, Credential,
     TokenUnderWay
<1> QED BY <1>2, <1>3 DEF IInv

(* A deletion marks the cluster, or frees its name.                        *)
LEMMA DeleteInv == ASSUME IInv, DeleteCluster PROVE IInv'
<1>1. /\ edits' = edits + 1 /\ edits < MaxEdits
      /\ UNCHANGED <<token, addons, listed, dirty, cached, health, work, loops, alive, installed, happened>>
  BY DEF DeleteCluster, memory, machines
<1>2. edits' \in 0..MaxEdits BY <1>1, ClusterAssumption DEF IInv, TypeOK
<1>3. cluster \in Cluster /\ cluster.uid \in 0..MaxUid BY DEF IInv, TypeOK, Cluster
<1>4. CASE MarkDeleted
  <2>1. Write([cluster EXCEPT !.phase = "Terminating"]) BY <1>4 DEF MarkDeleted
  <2>2. "Terminating" \in Phases \ {"Absent"} BY DEF Phases
  <2>3. TypeOK' BY <1>1, <1>2, <1>3, <2>1, <2>2, OtherPhase DEF IInv, TypeOK, Write
  <2> QED BY <1>1, <2>1, <2>2, <2>3, PhaseWrite
<1>5. CASE Removable /\ Write(Nothing(cluster.uid))
  <2>1. TypeOK' BY <1>1, <1>2, <1>3, <1>5, NothingType DEF IInv, TypeOK, Write
  <2> QED BY <1>1, <1>5, <2>1, GoneInv
<1> QED BY <1>4, <1>5 DEF DeleteCluster

(* An add-on that is stored when it is not listed any more is late.        *)
LEMMA InstallInv == ASSUME IInv, InstallAddon PROVE IInv'
<1>1. /\ addons' = IF NoLongerListed THEN "late" ELSE "stored"
      /\ UNCHANGED <<cluster, token, current, listed, dirty, cached, health, work, loops,
                     alive, installed, edits, happened>>
  BY DEF InstallAddon, memory, machines, history
<1>2. cluster \in Cluster BY DEF IInv, TypeOK
<1>3. TypeOK' BY <1>1 DEF IInv, TypeOK
<1>4. ContentGone' BY <1>1 DEF IInv, ContentGone, NoLongerListed
<1>5. Uids' /\ Copies' /\ Steps' /\ Builds' /\ WorkersToken' /\ Credential'
  BY <1>1 DEF IInv, Uids, Copies, Steps, StepsLeft, Builds, WorkersToken, Credential,
     TokenUnderWay
<1> QED BY <1>3, <1>4, <1>5 DEF IInv

(* Machines fail and are repaired.                                         *)
LEMMA MachinesInv == ASSUME IInv, Break \/ Repair PROVE IInv'
<1>1. /\ UNCHANGED <<cluster, token, addons, current, listed, dirty, cached, health, work, loops,
                     installed, edits>>
      /\ happened \subseteq happened' /\ happened' \subseteq FaultKinds \cup {"torn", "hijacked"}
      /\ alive' \in {"healthy", "sick", "down"}
  <2>1. CASE Break
    BY <2>1 DEF Break, Fault, stored, memory, IInv, TypeOK
  <2>2. CASE Repair
    BY <2>2 DEF Repair, stored, memory, history, IInv, TypeOK
  <2> QED BY <2>1, <2>2
<1>2. TypeOK' BY <1>1 DEF IInv, TypeOK
<1>3. Uids' /\ Copies' /\ Steps' /\ Builds' /\ ContentGone' /\ WorkersToken' /\ Credential'
  BY <1>1 DEF IInv, Uids, Copies, Steps, StepsLeft, Builds, ContentGone, WorkersToken, Credential,
     TokenUnderWay
<1> QED BY <1>2, <1>3 DEF IInv

------------------------------------------------------------------------------
(* The worker and the informer.                                            *)

(* The informer's copy is brought up to date.                              *)
LEMMA DeliverInv == ASSUME IInv, Deliver PROVE IInv'
<1>1. /\ listed' = cluster /\ current' = current \cup {"informer"} /\ dirty' = (dirty \/ Exists)
      /\ UNCHANGED <<cluster, token, addons, cached, health, work, loops, alive, installed, edits, happened>>
  BY DEF Deliver, stored, machines, history
<1>2. TypeOK'
  <2>1. dirty' \in BOOLEAN BY <1>1 DEF Exists
  <2> QED BY <1>1, <2>1 DEF IInv, TypeOK, Holders
<1>3. "informer" \notin Loops BY ClusterAssumption
<1>4. cluster \in Cluster BY DEF IInv, TypeOK
<1>5. Uids' /\ Copies' /\ Steps' /\ Builds' /\ ContentGone' /\ WorkersToken' /\ Credential'
  BY <1>1, <1>3, <1>4 DEF IInv, Uids, Copies, Steps, StepsLeft, Builds, ContentGone, WorkersToken,
     Credential, TokenUnderWay, Cluster
<1> QED BY <1>2, <1>5 DEF IInv

(* A worker that starts, or stops, or goes on with something that is none  *)
(* of building: the stored objects stay, and it holds no token under way.  *)
LEMMA WorkerTurns ==
    ASSUME IInv, TypeOK', UNCHANGED <<cluster, token, addons, installed, listed>>,
           work'.at \notin {"step", "store", "token"},
           work'.at = "failed" => work'.obj = work.obj /\ work.at \in {"step", "failed"},
           work'.at = "credential" => work'.obj.phase = "Initializing" /\ work'.obj.kind = "baremetal",
           work'.at \in {"finalize", "remove"} => addons # "stored",
           work'.obj \in {work.obj, listed, cluster, Idle.obj},
           happened \subseteq happened', TokenUnderWay => work' = work \/ "torn" \in happened' \/ ~Exists,
           "informer" \in current' => "informer" \in current,
           "worker" \in current' /\ work'.at # "idle" => work'.obj = cluster,
           \A l \in Loops : l \in current' /\ loops'[l] \in {"Running", "Failed"} =>
               cluster.phase \notin {"Absent", "Terminating"}
    PROVE  IInv'
<1>1. cluster \in Cluster /\ listed \in Cluster /\ work.obj \in Cluster BY DEF IInv, TypeOK
<1>2. Uids' BY <1>1, IdleType DEF IInv, Uids, Cluster
<1>3. Copies' BY DEF IInv, Copies
<1>4. Steps' BY IdleType DEF IInv, Steps, StepsLeft
<1>5. Builds' BY DEF IInv, Builds
<1>6. ContentGone' /\ WorkersToken' BY DEF IInv, ContentGone, WorkersToken
<1>7. Credential' BY DEF IInv, Credential, TokenUnderWay, Exists
<1> QED BY <1>2, <1>3, <1>4, <1>5, <1>6, <1>7 DEF IInv

(* A health loop is started.                                               *)
LEMMA LoopStarts ==
    ASSUME IInv, NEW h, EnsureHealth(h)
    PROVE  /\ loops' \in [Loops -> {"idle", "look", "Running", "Failed"}] /\ health' = TRUE
           /\ \A l \in Loops : loops'[l] = loops[l] \/ loops'[l] = "look"
BY DEF EnsureHealth, IInv, TypeOK

(* The informer's copy is the worker's, and as new.                        *)
LEMMA TakeChanges ==
    ASSUME IInv, NEW at \in {"look", "update", "credential"}, Take(at)
    PROVE  /\ work' \in Worker /\ work'.at = at /\ work'.obj = listed
           /\ current' \subseteq Holders /\ current' \ {"worker"} = current \ {"worker"}
           /\ "worker" \in current' => listed = cluster
<1> DEFINE w == [Idle EXCEPT !.at = at, !.obj = listed]
<1>1. listed \in Cluster /\ current \subseteq Holders /\ Copies BY DEF IInv, TypeOK
<1>2. w \in Worker /\ w.at = at /\ w.obj = listed BY <1>1, IdleType DEF Worker
<1>3. work' = w BY DEF Take
<1> HIDE DEF w
<1>4. current' = IF "informer" \in current THEN current \cup {"worker"} ELSE current \ {"worker"}
  BY DEF Take
<1> QED BY <1>1, <1>2, <1>3, <1>4 DEF Copies, Holders

(* The key is taken: nothing is done, or the copy is looked at, updated or *)
(* built.                                                                  *)
LEMMA SyncInv == ASSUME IInv, Sync PROVE IInv'
<1> DEFINE replaced == cached \notin {-1, 0, listed.uid}
           entry == IF replaced THEN -1 ELSE IF cached = -1 THEN 0 ELSE cached
           h == health /\ ~replaced
<1>1. /\ work.at = "idle" /\ dirty' = FALSE
      /\ UNCHANGED <<cluster, token, addons, listed, alive, installed, edits, happened>>
  BY DEF Sync, stored, machines, history
<1>2. /\ listed \in Cluster /\ cached \in -1..MaxUid /\ health \in BOOLEAN /\ current \subseteq Holders
      /\ Copies /\ loops \in [Loops -> {"idle", "look", "Running", "Failed"}] /\ work \in Worker
      /\ "worker" \notin Loops /\ MaxUid \in Nat
  BY ClusterAssumption DEF IInv, TypeOK, Worker
<1>3. entry \in -1..MaxUid /\ listed.uid \in -1..MaxUid /\ h \in BOOLEAN
  BY <1>2 DEF Cluster
<1>4. ~TokenUnderWay BY <1>1 DEF TokenUnderWay
<1>5. CASE /\ listed.phase \in {"Absent", "Terminating"}
           /\ cached' = -1
           /\ health' = (health /\ cached = -1)
           /\ IF listed.phase = "Terminating" THEN Take("look") ELSE UNCHANGED <<work, current>>
           /\ UNCHANGED loops
  <2>1. health' \in BOOLEAN /\ cached' \in -1..MaxUid BY <1>2, <1>5
  <2>2. CASE listed.phase = "Terminating" /\ Take("look")
    <3>1. TypeOK' BY <1>1, <1>5, <2>1, <2>2, TakeChanges DEF IInv, TypeOK, Worker
    <3> QED BY <1>1, <1>2, <1>4, <1>5, <2>2, <3>1, TakeChanges, WorkerTurns DEF Copies
  <2>3. CASE UNCHANGED <<work, current>>
    <3>1. TypeOK' BY <1>1, <1>5, <2>1, <2>3 DEF IInv, TypeOK
    <3> QED BY <1>1, <1>2, <1>4, <1>5, <2>3, <3>1, WorkerTurns DEF Copies
  <2> QED BY <1>5, <2>2, <2>3
<1>6. CASE listed.phase = "Running" /\ cached' = entry /\ EnsureHealth(h) /\ Take("update")
  <2>1. TypeOK'
    <3>1. cached' \in -1..MaxUid /\ health' \in BOOLEAN BY <1>3, <1>6, LoopStarts
    <3> HIDE DEF h, entry
    <3> QED BY <1>1, <1>6, <3>1, LoopStarts, TakeChanges DEF IInv, TypeOK, Worker
  <2> HIDE DEF h, entry
  <2> QED BY <1>1, <1>2, <1>4, <1>6, <2>1, LoopStarts, TakeChanges, WorkerTurns DEF Copies
<1>7. CASE cached' = listed.uid /\ EnsureHealth(h) /\ UNCHANGED <<work, current>>
  <2> HIDE DEF h
  <2>1. TypeOK'
    <3>1. cached' \in -1..MaxUid /\ health' \in BOOLEAN BY <1>3, <1>7, LoopStarts
    <3> QED BY <1>1, <1>7, <3>1, LoopStarts DEF IInv, TypeOK
  <2> QED BY <1>1, <1>2, <1>4, <1>7, <2>1, LoopStarts, WorkerTurns DEF Copies
<1>8. CASE listed.phase = "Initializing" /\ listed.kind = "baremetal" /\ cached' = entry
           /\ health' = h /\ Take("credential") /\ UNCHANGED loops
  <2>1. cached' \in -1..MaxUid /\ health' \in BOOLEAN BY <1>3, <1>8
  <2> HIDE DEF h, entry
  <2>2. TypeOK' BY <1>1, <1>8, <2>1, TakeChanges DEF IInv, TypeOK, Worker
  <2> QED BY <1>1, <1>2, <1>4, <1>8, <2>2, TakeChanges, WorkerTurns DEF Copies
<1> QED BY <1>5, <1>6, <1>7, <1>8 DEF Sync

(* The worker returns.                                                     *)
LEMMA Returns ==
    ASSUME IInv, TypeOK', UNCHANGED <<cluster, token, addons, installed, listed, current, loops>>,
           work' = Idle, happened \subseteq happened',
           TokenUnderWay => "torn" \in happened' \/ ~Exists
    PROVE  IInv'
BY IdleType, WorkerTurns DEF IInv, Copies

(* Done and Again keep the types.                                          *)
LEMMA ReturnTypes ==
    ASSUME IInv, Done \/ Again
    PROVE  /\ work' = Idle /\ work' \in Worker /\ dirty' \in BOOLEAN /\ cached' \in -1..MaxUid
           /\ UNCHANGED <<listed, health, loops>>
<1>1. dirty \in BOOLEAN /\ cached \in -1..MaxUid /\ work.obj \in Cluster /\ MaxUid \in Nat
  BY ClusterAssumption DEF IInv, TypeOK
<1>2. work.obj.uid \in -1..MaxUid BY <1>1 DEF Cluster
<1> QED BY <1>1, <1>2, IdleType DEF Done, Again

(* The update of an unchanged cluster.                                     *)
LEMMA UpdateInv == ASSUME IInv, Update PROVE IInv'
<1>1. /\ work.at = "update" /\ (Done \/ Again)
      /\ UNCHANGED <<cluster, token, addons, current, alive, installed, edits, happened>>
  BY DEF Update, stored, machines, history
<1>2. TypeOK' BY <1>1, ReturnTypes DEF IInv, TypeOK, Worker
<1> QED BY <1>1, <1>2, ReturnTypes, Returns DEF TokenUnderWay

------------------------------------------------------------------------------
(* Building.                                                               *)

(* Facts every lemma below uses.                                           *)
LEMMA Holds ==
    ASSUME IInv
    PROVE  /\ cluster \in Cluster /\ listed \in Cluster /\ work \in Worker
           /\ token \in {-1} \cup Tokens /\ installed \in Tokens
           /\ current \subseteq Holders
BY DEF IInv, TypeOK, Worker

(* A worker that goes on with the same copy.                               *)
LEMMA SameCopy ==
    ASSUME NEW w \in Worker,
           NEW at \in {"step", "store", "failed", "token", "content", "finalize", "remove"}
    PROVE  /\ [w EXCEPT !.at = at] \in Worker /\ [w EXCEPT !.at = at].at = at
           /\ [w EXCEPT !.at = at].obj = w.obj /\ [w EXCEPT !.at = at].token = w.token
BY DEF Worker

(* The credential is read, or created without a token.                     *)
LEMMA GetCredentialInv == ASSUME IInv, GetCredential PROVE IInv'
<1>1. /\ work.at = "credential"
      /\ UNCHANGED <<cluster, addons, current, alive, installed, edits, happened>>
  BY DEF GetCredential, machines, history
<1>2. CASE Again /\ UNCHANGED token
  <2>1. TypeOK' BY <1>1, <1>2, ReturnTypes DEF IInv, TypeOK, Worker
  <2> QED BY <1>1, <1>2, <2>1, ReturnTypes, Returns DEF TokenUnderWay
<1>3. CASE /\ token' = IF token = -1 THEN 0 ELSE token
           /\ work' = [work EXCEPT !.at = "step", !.token = token']
           /\ UNCHANGED <<listed, dirty, cached, health, loops>>
  <2>1. token' \in Tokens BY <1>3, Holds DEF Tokens
  <2>2. work' \in Worker /\ work'.at = "step" /\ work'.obj = work.obj /\ work'.token = token'
    BY <1>3, <2>1, Holds DEF Worker
  <2>3. TypeOK' BY <1>1, <1>3, <2>1, <2>2 DEF IInv, TypeOK, Worker
  <2>4. Uids' /\ Copies' /\ Steps' /\ Builds' /\ ContentGone' /\ WorkersToken'
    BY <1>1, <1>3, <2>2
    DEF IInv, Uids, Copies, Steps, StepsLeft, Builds, ContentGone, WorkersToken
  <2>5. Credential' BY <1>1, <1>3, <2>2, Holds DEF IInv, Credential, TokenUnderWay, Cluster, Tokens
  <2> QED BY <2>3, <2>4, <2>5 DEF IInv
<1> QED BY <1>2, <1>3 DEF GetCredential

(* There is a token that is neither stored, installed nor the worker's.    *)
LEMMA FreshToken ==
    ASSUME IInv, work.at = "step" PROVE NewToken \in Tokens /\ NewToken > 0
<1>1. work.token = token BY DEF IInv, WorkersToken
<1>2. \E t \in Tokens \ {0} : t \notin {token, installed, work.token}
  BY <1>1, Holds DEF Tokens
<1>3. NewToken \in Tokens \ {0} BY <1>2 DEF NewToken
<1> QED BY <1>3 DEF Tokens

(* The first step makes a token, the second installs the stored one.       *)
LEMMA RunStepInv == ASSUME IInv, RunStep PROVE IInv'
<1> DEFINE t == IF work.obj.step = 1 THEN NewToken ELSE work.token
<1>1. /\ work.at = "step" /\ ~NoToken
      /\ work' = [work EXCEPT !.at = "store", !.token = t]
      /\ installed' = IF work.obj.step = 2 THEN work.token ELSE installed
      /\ UNCHANGED <<cluster, token, addons, current, listed, dirty, cached, health, loops, alive,
                     edits, happened>>
  BY DEF RunStep, stored, history
<1>2. work.token = token /\ work.token \in Tokens /\ work.obj \in Cluster
  BY <1>1, Holds DEF IInv, WorkersToken, Worker
<1>3. t \in Tokens /\ t > 0
  <2>1. work.obj.step \in 1..LastStep + 1 BY <1>2 DEF Cluster
  <2>2. CASE work.obj.step = 1 BY <1>1, <2>2, FreshToken
  <2>3. CASE work.obj.step # 1
    BY <1>1, <1>2, <2>1, <2>3 DEF NoToken, Tokens, LastStep
  <2> QED BY <2>2, <2>3
<1>4. work' \in Worker /\ work'.at = "store" /\ work'.obj = work.obj /\ work'.token = t
  <2> HIDE DEF t
  <2> QED BY <1>1, <1>3, Holds DEF Worker
<1>5. TypeOK' BY <1>1, <1>2, <1>4 DEF IInv, TypeOK, Worker
<1>6. Uids' /\ Copies' /\ Steps' /\ Builds' /\ ContentGone'
  BY <1>1, <1>4 DEF IInv, Uids, Copies, Steps, StepsLeft, Builds, ContentGone
<1>7. WorkersToken'
  <2>1. t > 0 /\ (work.obj.step > 1 => t = token) BY <1>2, <1>3 DEF Cluster
  <2> HIDE DEF t
  <2> QED BY <1>1, <1>2, <1>4, <2>1 DEF WorkersToken
<1>8. Credential' BY <1>1, <1>2, <1>4 DEF IInv, Credential, TokenUnderWay
<1> QED BY <1>5, <1>6, <1>7, <1>8 DEF IInv

(* A step that fails.                                                      *)
LEMMA StepFailsInv == ASSUME IInv, StepFails PROVE IInv'
<1>1. /\ work.at = "step" /\ work' = [work EXCEPT !.at = "failed"]
      /\ UNCHANGED <<cluster, token, addons, current, listed, dirty, cached, health, loops, alive,
                     installed, edits>>
      /\ happened \subseteq happened' /\ happened' \subseteq FaultKinds \cup {"torn", "hijacked"}
  BY DEF StepFails, Fault, stored, machines, IInv, TypeOK
<1>2. work' \in Worker /\ work'.at = "failed" /\ work'.obj = work.obj BY <1>1, Holds, SameCopy
<1>3. TypeOK' BY <1>1, <1>2 DEF IInv, TypeOK, Worker
<1>4. Copies BY DEF IInv
<1> QED BY <1>1, <1>2, <1>3, <1>4, WorkerTurns DEF Copies, TokenUnderWay

(* It is noted in the cluster, if that can be stored.                      *)
LEMMA StoreFailureInv == ASSUME IInv, StoreFailure PROVE IInv'
<1>1. /\ work.at = "failed" /\ Again /\ cluster' = cluster /\ current' \subseteq current
      /\ UNCHANGED <<token, addons, alive, installed, edits, happened>>
  BY DEF StoreFailure, Write, machines, history
<1>2. TypeOK' BY <1>1, ReturnTypes DEF IInv, TypeOK, Worker
<1>3. Copies BY DEF IInv
<1> QED BY <1>1, <1>2, <1>3, IdleType, ReturnTypes, WorkerTurns DEF Copies, TokenUnderWay

(* What storing the step a worker has run makes of an admitted cluster:    *)
(* what the step before required is required of the worker no more.        *)
LEMMA StepStored ==
    ASSUME IInv, work.at = "store", Admitted("worker"), Write(Stepped(work.obj)), TypeOK',
           UNCHANGED <<token, addons, installed, listed>>, happened \subseteq happened',
           \/ work'.at = "token" /\ work'.obj = work.obj /\ work'.token = work.token
           \/ work' = Idle /\ (work.obj.step = 1 => "torn" \in happened')
    PROVE  IInv'
<1>1. work.obj = cluster /\ current' = {} /\ cluster' = Stepped(cluster)
  BY DEF IInv, Copies, Admitted, Write
<1>2. /\ cluster \in Cluster /\ cluster.phase = "Initializing" /\ cluster.kind = "baremetal"
      /\ cluster.step <= LastStep /\ cluster.step \in 1..LastStep + 1 /\ cluster.uid \in Nat
  BY <1>1, Holds DEF IInv, Builds, Steps, StepsLeft, Cluster
<1>3. /\ StepsLeft(cluster') /\ cluster'.uid = cluster.uid /\ cluster'.kind = cluster.kind
      /\ cluster'.finalizer = cluster.finalizer /\ cluster'.step = cluster.step + 1
      /\ cluster'.phase = IF cluster.step = LastStep THEN "Running" ELSE "Initializing"
  BY <1>1, <1>2, SteppedType
<1>4. WorkersToken /\ Credential /\ Copies /\ Uids /\ Steps /\ Builds /\ ContentGone BY DEF IInv
<1>5. Uids' /\ Copies'
  <2>1. work'.obj.uid = work.obj.uid \/ work'.obj.uid = 0 BY IdleType
  <2> QED BY <1>1, <1>2, <1>3, <1>4, <2>1 DEF Uids, Copies
<1>6. Steps' BY <1>3, <1>4, IdleType DEF Steps, StepsLeft
<1>7. Builds' BY <1>1, <1>2, IdleType DEF Builds
<1>8. ContentGone' BY <1>1, <1>3, <1>4, IdleType DEF ContentGone
<1>9. WorkersToken' BY <1>1, <1>4, IdleType DEF WorkersToken
<1>10. Credential'
  <2>1. CASE cluster.step = 1
    BY <1>1, <1>2, <1>3, <2>1 DEF Credential, TokenUnderWay, LastStep
  <2>2. CASE cluster.step = 2
    <3>1. token = installed /\ token > 0 BY <1>1, <1>4, <2>2 DEF WorkersToken
    <3> QED BY <1>1, <1>2, <1>3, <2>2, <3>1, IdleType DEF Credential, TokenUnderWay, LastStep
  <2>3. CASE cluster.step = 3
    BY <1>1, <1>2, <1>3, <1>4, <2>3, IdleType DEF Credential, TokenUnderWay, LastStep
  <2> QED BY <1>2, <2>1, <2>2, <2>3 DEF LastStep
<1> QED BY <1>5, <1>6, <1>7, <1>8, <1>9, <1>10 DEF IInv

(* The step is stored, or refused.                                         *)
LEMMA StoreClusterInv == ASSUME IInv, StoreCluster PROVE IInv'
<1>1. /\ work.at = "store"
      /\ UNCHANGED <<token, addons, alive, installed, edits, happened>>
  BY DEF StoreCluster, machines, history
<1>2. CASE /\ Admitted("worker") /\ Write(Stepped(work.obj))
           /\ work' = [work EXCEPT !.at = "token"]
           /\ UNCHANGED <<listed, dirty, cached, health, loops>>
  <2>1. work' \in Worker /\ work'.at = "token" /\ work'.obj = work.obj /\ work'.token = work.token
    BY <1>2, Holds, SameCopy
  <2>2. Stepped(work.obj) \in Cluster
    <3>1. work.obj \in Cluster /\ work.obj.phase = "Initializing" /\ work.obj.step <= LastStep
      BY <1>1, Holds DEF IInv, Builds, Steps, StepsLeft, Worker
    <3> QED BY <3>1, SteppedType
  <2>3. TypeOK' BY <1>1, <1>2, <2>1, <2>2 DEF IInv, TypeOK, Write, Worker
  <2> QED BY <1>1, <1>2, <2>1, <2>3, StepStored
<1>3. CASE Again /\ UNCHANGED <<cluster, current>>
  <2>1. TypeOK' BY <1>1, <1>3, ReturnTypes DEF IInv, TypeOK, Worker
  <2> QED BY <1>1, <1>3, <2>1, ReturnTypes, Returns DEF TokenUnderWay
<1> QED BY <1>2, <1>3 DEF StoreCluster

(* The step is stored, the answer lost.                                    *)
LEMMA StoreLostInv == ASSUME IInv, StoreLost PROVE IInv'
<1>1. /\ work.at = "store" /\ Admitted("worker") /\ Write(Stepped(work.obj)) /\ Again
      /\ UNCHANGED <<token, addons, alive, installed, edits>>
      /\ happened' = happened \cup {"lost"} \cup TearsIf(TRUE) /\ "lost" \in FaultKinds
  BY DEF StoreLost, machines
<1>2. /\ happened \subseteq happened' /\ (work.obj.step = 1 => "torn" \in happened')
      /\ happened' \subseteq FaultKinds \cup {"torn", "hijacked"}
  BY <1>1 DEF TearsIf, IInv, TypeOK
<1>3. Stepped(work.obj) \in Cluster
  <2>1. work.obj \in Cluster /\ work.obj.phase = "Initializing" /\ work.obj.step <= LastStep
    BY <1>1, Holds DEF IInv, Builds, Steps, StepsLeft, Worker
  <2> QED BY <2>1, SteppedType
<1>4. TypeOK' BY <1>1, <1>2, <1>3, ReturnTypes DEF IInv, TypeOK, Write, Worker
<1> QED BY <1>1, <1>2, <1>4, ReturnTypes, StepStored

(* The credential follows the cluster.                                     *)
LEMMA StoreTokenInv == ASSUME IInv, StoreToken PROVE IInv'
<1>1. /\ work.at = "token"
      /\ UNCHANGED <<cluster, addons, current, alive, installed, edits, happened>>
  BY DEF StoreToken, machines, history
<1>2. CASE Exists /\ token' = work.token /\ Done
  <2>1. TypeOK' BY <1>1, <1>2, ReturnTypes, Holds DEF IInv, TypeOK, Worker
  <2>2. /\ work' = Idle /\ UNCHANGED <<listed, loops>> BY <1>2, ReturnTypes
  <2>3. Uids' /\ Copies' /\ Steps' /\ Builds' /\ ContentGone' /\ WorkersToken'
    BY <1>1, <2>2, Holds, IdleType
    DEF IInv, Uids, Copies, Steps, StepsLeft, Builds, ContentGone, WorkersToken, Cluster
  <2>4. Credential'
    <3>1. work.token > 0 /\ (work.obj.step > 1 => work.token = token) /\ work.obj.step \in 1..LastStep + 1
      BY <1>1, Holds DEF IInv, WorkersToken, Worker, Cluster
    <3>2. CASE work.obj.step = 1
      BY <1>1, <1>2, <2>2, <3>1, <3>2, IdleType DEF IInv, Credential, TokenUnderWay
    <3>3. CASE work.obj.step > 1
      BY <1>1, <1>2, <2>2, <3>1, <3>3, IdleType DEF IInv, Credential, TokenUnderWay
    <3> QED BY <3>1, <3>2, <3>3 DEF LastStep
  <2> QED BY <2>1, <2>3, <2>4 DEF IInv
<1>3. CASE ~Exists /\ UNCHANGED token /\ Again
  <2>1. TypeOK' BY <1>1, <1>3, ReturnTypes DEF IInv, TypeOK, Worker
  <2> QED BY <1>1, <1>3, <2>1, ReturnTypes, Returns
<1> QED BY <1>2, <1>3 DEF StoreToken

------------------------------------------------------------------------------
(* Deletion.                                                               *)

(* The deleter looks whether the cluster is to be deleted.                 *)
LEMMA LookToDeleteInv == ASSUME IInv, LookToDelete PROVE IInv'
<1>1. /\ work.at = "look"
      /\ UNCHANGED <<cluster, token, addons, listed, dirty, cached, health, loops, alive, installed,
                     edits, happened>>
  BY DEF LookToDelete, stored, machines, history
<1>2. Copies /\ ContentGone /\ "worker" \notin Loops BY ClusterAssumption DEF IInv
<1>3. CASE work' = Idle /\ UNCHANGED current
  <2>1. TypeOK' BY <1>1, <1>3, IdleType DEF IInv, TypeOK, Worker
  <2> QED BY <1>1, <1>3, <2>1, Returns DEF TokenUnderWay
<1>4. CASE /\ cluster.phase = "Terminating"
           /\ work' = [work EXCEPT !.at = IF cluster.finalizer THEN "content" ELSE "remove",
                                   !.obj = cluster]
           /\ current' = current \cup {"worker"}
  <2>1. /\ work' \in Worker /\ work'.at = IF cluster.finalizer THEN "content" ELSE "remove"
        /\ work'.obj = cluster
    BY <1>4, Holds DEF Worker
  <2>2. TypeOK' BY <1>1, <1>4, <2>1, Holds DEF IInv, TypeOK, Worker, Holders
  <2>3. cluster.finalizer \in BOOLEAN BY Holds DEF Cluster
  <2>4. work'.at \in {"finalize", "remove"} => addons # "stored"
    BY <1>2, <2>1, <2>3 DEF ContentGone
  <2> QED BY <1>1, <1>2, <1>4, <2>1, <2>2, <2>4, WorkerTurns DEF Copies, TokenUnderWay
<1> QED BY <1>3, <1>4 DEF LookToDelete

(* The content is deleted.                                                 *)
LEMMA DeleteContentInv == ASSUME IInv, DeleteContent PROVE IInv'
<1>1. /\ work.at = "content" /\ addons' = "none"
      /\ work' = [work EXCEPT !.at = "finalize"]
      /\ UNCHANGED <<cluster, token, current, listed, dirty, cached, health, loops, alive, installed,
                     edits, happened>>
  BY DEF DeleteContent, machines, history
<1>2. work' \in Worker /\ work'.at = "finalize" /\ work'.obj = work.obj BY <1>1, Holds, SameCopy
<1>3. TypeOK' BY <1>1, <1>2 DEF IInv, TypeOK, Worker
<1>4. Uids' /\ Copies' /\ Steps' /\ Builds' /\ ContentGone' /\ WorkersToken' /\ Credential'
  BY <1>1, <1>2 DEF IInv, Uids, Copies, Steps, StepsLeft, Builds, ContentGone, WorkersToken,
     Credential, TokenUnderWay
<1> QED BY <1>3, <1>4 DEF IInv

(* The finalizer goes, of the cluster whose content went.                  *)
LEMMA FinalizeInv == ASSUME IInv, Finalize PROVE IInv'
<1>1. /\ work.at = "finalize" /\ work' = [work EXCEPT !.at = "remove"]
      /\ UNCHANGED <<token, addons, listed, dirty, cached, health, loops, alive, installed,
                     edits, happened>>
  BY DEF Finalize, machines, history
<1>2. work' \in Worker /\ work'.at = "remove" /\ work'.obj = work.obj BY <1>1, Holds, SameCopy
<1>3. CASE Exists /\ cluster.uid = work.obj.uid /\ Write([cluster EXCEPT !.finalizer = FALSE])
  <2>1. /\ cluster' \in Cluster /\ cluster'.phase = cluster.phase /\ cluster'.uid = cluster.uid
        /\ cluster'.kind = cluster.kind /\ cluster'.step = cluster.step /\ current' = {}
        /\ ~cluster'.finalizer
    BY <1>3, Holds, NoFinalizer DEF Write
  <2>2. TypeOK' BY <1>1, <1>2, <2>1 DEF IInv, TypeOK, Worker
  <2>3. addons # "stored" BY <1>1, <1>3 DEF IInv, ContentGone
  <2>4. ContentGone' BY <1>1, <2>1, <2>3 DEF ContentGone
  <2>5. Uids' /\ Copies' /\ Steps' /\ Builds' /\ WorkersToken' /\ Credential'
    BY <1>1, <1>2, <2>1 DEF IInv, Uids, Copies, Steps, StepsLeft, Builds, WorkersToken,
       Credential, TokenUnderWay
  <2> QED BY <2>2, <2>4, <2>5 DEF IInv
<1>4. CASE UNCHANGED <<cluster, current>>
  <2>1. TypeOK' BY <1>1, <1>2, <1>4 DEF IInv, TypeOK, Worker
  <2>2. Uids' /\ Copies' /\ Steps' /\ Builds' /\ ContentGone' /\ WorkersToken' /\ Credential'
    BY <1>1, <1>2, <1>4 DEF IInv, Uids, Copies, Steps, StepsLeft, Builds, ContentGone,
       WorkersToken, Credential, TokenUnderWay
  <2> QED BY <2>1, <2>2 DEF IInv
<1> QED BY <1>3, <1>4 DEF Finalize

(* The cluster is removed.                                                 *)
LEMMA RemoveInv == ASSUME IInv, Remove PROVE IInv'
<1>1. /\ work.at = "remove" /\ work' = Idle
      /\ UNCHANGED <<token, addons, listed, dirty, cached, health, loops, alive, installed,
                     edits, happened>>
  BY DEF Remove, machines, history
<1>2. CASE Removable /\ Write(Nothing(cluster.uid))
  <2>1. cluster.uid \in 0..MaxUid BY Holds DEF Cluster
  <2>2. TypeOK' BY <1>1, <1>2, <2>1, NothingType, IdleType DEF IInv, TypeOK, Worker, Write
  <2> QED BY <1>1, <1>2, <2>2, GoneInv
<1>3. CASE UNCHANGED <<cluster, current>>
  <2>1. TypeOK' BY <1>1, <1>3, IdleType DEF IInv, TypeOK, Worker
  <2> QED BY <1>1, <1>3, <2>1, Returns DEF TokenUnderWay
<1> QED BY <1>2, <1>3 DEF Remove

------------------------------------------------------------------------------
(* The health loops.                                                       *)

(* A loop looks at the cluster.                                            *)
LEMMA LookInv == ASSUME IInv, NEW l \in Loops, Look(l) PROVE IInv'
<1>1. UNCHANGED <<cluster, token, addons, listed, dirty, cached, health, work, alive, installed,
                  edits, happened>>
  BY DEF Look, stored, machines, history
<1>2. l \notin {"informer", "worker"} BY ClusterAssumption
<1>3. /\ loops' \in [Loops -> {"idle", "look", "Running", "Failed"}] /\ current' \subseteq Holders
      /\ current' \cap {"informer", "worker"} = current \cap {"informer", "worker"}
      /\ \A k \in Loops \ {l} : loops'[k] = loops[k] /\ (k \in current' => k \in current)
      /\ loops'[l] \in {"Running", "Failed"} => cluster.phase \notin {"Absent", "Terminating"}
  <2>1. loops \in [Loops -> {"idle", "look", "Running", "Failed"}] /\ current \subseteq Holders
    BY DEF IInv, TypeOK
  <2> QED BY <1>2, <2>1 DEF Look, Holders
<1>4. TypeOK' BY <1>1, <1>3 DEF IInv, TypeOK
<1>5. Copies' BY <1>1, <1>3 DEF IInv, Copies
<1>6. Uids' /\ Steps' /\ Builds' /\ ContentGone' /\ WorkersToken' /\ Credential'
  BY <1>1 DEF IInv, Uids, Steps, StepsLeft, Builds, ContentGone, WorkersToken, Credential,
     TokenUnderWay
<1> QED BY <1>4, <1>5, <1>6 DEF IInv

(* A loop drops what it found.                                             *)
LEMMA LoopDrops ==
    ASSUME IInv, NEW l \in Loops, loops' = [loops EXCEPT ![l] = "look"],
           UNCHANGED <<cluster, current, token, addons, listed, dirty, cached, health, work, alive,
                       installed, edits>>,
           happened \subseteq happened', happened' \subseteq FaultKinds \cup {"torn", "hijacked"}
    PROVE  IInv'
<1>1. TypeOK' BY DEF IInv, TypeOK
<1>2. Copies' BY DEF IInv, Copies, TypeOK
<1>3. Uids' /\ Steps' /\ Builds' /\ ContentGone' /\ WorkersToken' /\ Credential'
  BY DEF IInv, Uids, Steps, StepsLeft, Builds, ContentGone, WorkersToken, Credential, TokenUnderWay
<1> QED BY <1>1, <1>2, <1>3 DEF IInv

(* What a loop found of a cluster that is stored and not being deleted.    *)
LEMMA PutInv == ASSUME IInv, NEW l \in Loops, Put(l) PROVE IInv'
<1>1. /\ loops[l] \in {"Running", "Failed"} /\ loops' = [loops EXCEPT ![l] = "look"]
      /\ UNCHANGED <<token, addons, listed, dirty, cached, health, work, alive, installed, edits>>
  BY DEF Put, machines
<1>2. CASE /\ Admitted(l) /\ Write([cluster EXCEPT !.phase = loops[l]])
           /\ happened' = happened \cup IF Building THEN {"hijacked"} ELSE {}
  <2>1. PICK p : p = loops[l] OBVIOUS
  <2>2. p \in {"Running", "Failed"} /\ p \in Phases \ {"Absent"} BY <1>1, <2>1 DEF Phases
  <2>3. Write([cluster EXCEPT !.phase = p]) BY <1>2, <2>1
  <2>4. cluster.phase \notin {"Absent", "Terminating"} /\ cluster \in Cluster
    BY <1>1, <1>2, Holds DEF IInv, Copies, Admitted
  <2>5. /\ happened \subseteq happened' /\ happened' \subseteq FaultKinds \cup {"torn", "hijacked"}
        /\ (Building => "hijacked" \in happened')
    BY <1>2 DEF IInv, TypeOK
  <2>6. TypeOK'
    <3>1. cluster' \in Cluster /\ current' = {} BY <2>2, <2>3, <2>4, OtherPhase DEF Write
    <3> QED BY <1>1, <2>5, <3>1 DEF IInv, TypeOK
  <2>7. \/ cluster.phase \in {"Running", "Failed"}
        \/ cluster.phase = "Initializing" /\ (cluster.kind = "baremetal" => "hijacked" \in happened')
    BY <2>4, <2>5 DEF Cluster, Phases, Building
  <2> QED BY <1>1, <2>2, <2>3, <2>5, <2>6, <2>7, PhaseWrite
<1>3. CASE UNCHANGED <<cluster, current, happened>>
  BY <1>1, <1>3, LoopDrops DEF IInv, TypeOK
<1> QED BY <1>2, <1>3 DEF Put

(* The update of a loop fails.                                             *)
LEMMA PutFailsInv == ASSUME IInv, NEW l \in Loops, PutFails(l) PROVE IInv'
<1>1. happened \subseteq happened' /\ happened' \subseteq FaultKinds \cup {"torn", "hijacked"}
  BY DEF PutFails, Fault, IInv, TypeOK
<1> QED BY <1>1, LoopDrops DEF PutFails, stored, machines

------------------------------------------------------------------------------
(* Faults.                                                                 *)

(* A call of the worker fails.                                             *)
LEMMA CallFailsInv == ASSUME IInv, CallFails PROVE IInv'
<1>1. /\ Again /\ UNCHANGED <<cluster, token, addons, current, alive, installed, edits>>
      /\ happened' = happened \cup {"call"} \cup TearsIf(work.at = "token") /\ "call" \in FaultKinds
  BY DEF CallFails, stored, machines
<1>2. /\ happened \subseteq happened' /\ (TokenUnderWay => "torn" \in happened')
      /\ happened' \subseteq FaultKinds \cup {"torn", "hijacked"}
  BY <1>1 DEF TearsIf, TokenUnderWay, IInv, TypeOK
<1>3. TypeOK' BY <1>1, <1>2, ReturnTypes DEF IInv, TypeOK, Worker
<1> QED BY <1>1, <1>2, <1>3, ReturnTypes, Returns

(* The process forgets everything but what is stored.                      *)
LEMMA ForgetInv ==
    ASSUME IInv, Forget, UNCHANGED <<cluster, token, addons, alive, installed, edits>>,
           happened \subseteq happened', happened' \subseteq FaultKinds \cup {"torn", "hijacked"},
           TokenUnderWay => "torn" \in happened'
    PROVE  IInv'
<1>1. /\ listed' = cluster /\ current' = {"informer"} /\ dirty' = Exists /\ cached' = -1
      /\ health' = FALSE /\ work' = Idle /\ loops' = [l \in Loops |-> "idle"]
  BY DEF Forget
<1>2. "informer" \notin Loops /\ MaxUid \in Nat BY ClusterAssumption
<1>3. TypeOK'
  <2>1. dirty' \in BOOLEAN BY <1>1 DEF Exists
  <2>2. cached' \in -1..MaxUid BY <1>1, <1>2
  <2>3. loops' \in [Loops -> {"idle", "look", "Running", "Failed"}] BY <1>1
  <2>4. listed' \in Cluster /\ work' \in Worker /\ current' \subseteq Holders
        /\ health' \in BOOLEAN
    BY <1>1, Holds, IdleType DEF Holders
  <2> QED BY <2>1, <2>2, <2>3, <2>4 DEF IInv, TypeOK, Worker
<1>4. Uids' /\ Copies' /\ Steps' /\ Builds' /\ ContentGone' /\ WorkersToken' /\ Credential'
  BY <1>1, <1>2, Holds, IdleType DEF IInv, Uids, Copies, Steps, StepsLeft, Builds, ContentGone,
     WorkersToken, Credential, TokenUnderWay, Cluster
<1> QED BY <1>3, <1>4 DEF IInv

(* A restart.                                                              *)
LEMMA RestartInv == ASSUME IInv, Restart PROVE IInv'
<1>1. happened' = happened \cup {"restart"} \cup TearsIf(work.at = "token") /\ "restart" \in FaultKinds
  BY DEF Restart
<1>2. /\ happened \subseteq happened' /\ (TokenUnderWay => "torn" \in happened')
      /\ happened' \subseteq FaultKinds \cup {"torn", "hijacked"}
  BY <1>1 DEF TearsIf, TokenUnderWay, IInv, TypeOK
<1> QED BY <1>2, ForgetInv DEF Restart, stored, machines

(* The end of the process at a step without a token.                       *)
LEMMA StepPanicsInv == ASSUME IInv, StepPanics PROVE IInv'
BY ForgetInv DEF StepPanics, TokenUnderWay, stored, machines, history, IInv, TypeOK

------------------------------------------------------------------------------
(* The invariant.                                                          *)

(* It holds before the cluster is made.                                    *)
LEMMA InitInv == Init => IInv
<1> SUFFICES ASSUME Init PROVE IInv OBVIOUS
<1>1. 0 \in 0..MaxUid /\ MaxUid \in Nat /\ MaxEdits \in Nat BY ClusterAssumption
<1>2. /\ cluster \in Cluster /\ listed = cluster /\ cluster.phase = "Absent" /\ cluster.uid = 0
      /\ ~cluster.finalizer /\ addons = "none"
      /\ work \in Worker /\ work.at = "idle" /\ work.obj.uid = 0 /\ work.obj.phase = "Absent"
  BY <1>1, NothingType, IdleType DEF Init
<1>3. TypeOK
  <2>1. cached \in -1..MaxUid BY <1>1 DEF Init
  <2>2. loops \in [Loops -> {"idle", "look", "Running", "Failed"}] BY DEF Init
  <2>3. token \in {-1} \cup Tokens /\ installed \in Tokens BY DEF Init, Tokens
  <2>4. edits \in 0..MaxEdits BY <1>1 DEF Init
  <2>5. work \in Worker BY <1>2
  <2> QED BY <1>2, <2>1, <2>2, <2>3, <2>4, <2>5 DEF Init, TypeOK, Worker
<1>4. Uids /\ Steps /\ Builds /\ ContentGone /\ WorkersToken /\ Credential
  BY <1>2 DEF Uids, Steps, StepsLeft, Builds, ContentGone, WorkersToken, Credential, TokenUnderWay
<1>5. Copies BY <1>2 DEF Init, Copies
<1> QED BY <1>3, <1>4, <1>5 DEF IInv

(* Every step of the worker keeps it.                                      *)
LEMMA WorkInv == ASSUME IInv, Work PROVE IInv'
BY SyncInv, UpdateInv, GetCredentialInv, RunStepInv, StepPanicsInv, StoreFailureInv, StoreClusterInv,
   StoreTokenInv, LookToDeleteInv, DeleteContentInv, FinalizeInv, RemoveInv
   DEF Work

(* Every step keeps it.                                                    *)
LEMMA NextInv == IInv /\ [Next]_vars => IInv'
<1> SUFFICES ASSUME IInv, [Next]_vars PROVE IInv' OBVIOUS
<1>1. ASSUME NEW kind \in Kinds, CreateCluster(kind) PROVE IInv' BY <1>1, CreateInv
<1>2. ASSUME NEW l \in Loops, Look(l) \/ Put(l) \/ PutFails(l) PROVE IInv'
  BY <1>2, LookInv, PutInv, PutFailsInv
<1>3. CASE UNCHANGED vars
  BY <1>3 DEF vars, stored, memory, machines, history, IInv, TypeOK, Uids, Copies, Steps, StepsLeft,
     Builds, ContentGone, WorkersToken, Credential, TokenUnderWay
<1> QED
  BY <1>1, <1>2, <1>3, CreateCredentialInv, EditInv, DeleteInv, InstallInv, MachinesInv, DeliverInv, WorkInv,
     StepFailsInv, CallFailsInv, StoreLostInv, RestartInv
  DEF Next

(* The inductive invariant of the cluster controller.                      *)
THEOREM Invariant == Spec => []IInv
BY InitInv, NextInv, PTL DEF Spec

(* The variables keep their types.                                         *)
THEOREM TypeCorrect == Spec => []TypeOK
<1>1. IInv => TypeOK BY DEF IInv
<1> QED BY <1>1, Invariant, PTL

(* A running baremetal cluster has the credential its machines know        *)
(* (doInitializing), unless the token got lost on the way or a left-over   *)
(* health loop judged the cluster unfinished.                              *)
THEOREM CredentialFits == Spec => []RunningHasCredential
<1>1. IInv => RunningHasCredential
  BY Holds DEF IInv, Credential, RunningHasCredential, LastStep, Cluster
<1> QED BY <1>1, Invariant, PTL

(* A name is free only after the content of its cluster is deleted         *)
(* (cluster_deleter).                                                      *)
THEOREM ContentIsDeleted == Spec => []ContentGoesFirst
<1>1. IInv => ContentGoesFirst BY DEF IInv, ContentGone, ContentGoesFirst, Exists
<1> QED BY <1>1, Invariant, PTL


------------------------------------------------------------------------------
(* The end of a cluster.                                                   *)

Final ==
    (cluster.phase = "Terminating" /\ cluster'.uid = cluster.uid)
        => cluster'.phase \in {"Terminating", "Absent"}

(* A build step is stored over the very cluster it was made for.           *)
LEMMA SteppedIsFinal ==
    ASSUME IInv, work.at = "store", Admitted("worker"), Write(Stepped(work.obj))
    PROVE  Final
<1>1. work.obj = cluster BY DEF IInv, Copies, Admitted
<1>2. work.obj.phase = "Initializing" BY DEF IInv, Builds
<1> QED BY <1>1, <1>2 DEF Final

(* A round of a health loop that began before the deletion is refused.     *)
LEMMA PutIsFinal == ASSUME IInv, NEW l \in Loops, Put(l) PROVE Final
<1>1. loops[l] \in {"Running", "Failed"} /\ (Admitted(l) \/ UNCHANGED cluster) BY DEF Put
<1>2. Admitted(l) => cluster.phase # "Terminating" BY <1>1 DEF IInv, Copies, Admitted
<1> QED BY <1>1, <1>2 DEF Final

(* No step of the worker brings the cluster back.                          *)
LEMMA WorkIsFinal == ASSUME IInv, Work PROVE Final
<1>1. cluster \in Cluster /\ cluster.uid \in 0..MaxUid BY Holds DEF Cluster
<1>2. CASE StoreCluster BY <1>2, SteppedIsFinal DEF StoreCluster, Final
<1>3. CASE StoreFailure BY <1>3 DEF StoreFailure, Write, Final
<1>4. CASE Finalize BY <1>1, <1>4, NoFinalizer DEF Finalize, Write, Final
<1>5. CASE Remove BY <1>1, <1>5, NothingType DEF Remove, Write, Final
<1>6. CASE Sync \/ Update \/ GetCredential \/ RunStep \/ StepPanics
  BY <1>6 DEF Sync, Update, GetCredential, RunStep, StepPanics, stored, Final
<1>7. CASE StoreToken \/ LookToDelete \/ DeleteContent
  BY <1>7 DEF StoreToken, LookToDelete, DeleteContent, stored, Final
<1> QED BY <1>2, <1>3, <1>4, <1>5, <1>6, <1>7 DEF Work

(* Nor does any other step.                                                *)
LEMMA NextIsFinal == ASSUME IInv, [Next]_vars PROVE Final
<1>1. cluster \in Cluster /\ cluster.uid \in 0..MaxUid BY Holds DEF Cluster
<1>2. ASSUME NEW kind \in Kinds, CreateCluster(kind) PROVE Final
  BY <1>2 DEF CreateCluster, Exists, Final
<1>3. ASSUME NEW l \in Loops, Look(l) \/ PutFails(l) PROVE Final
  BY <1>3 DEF Look, PutFails, stored, Final
<1>4. CASE EditCluster BY <1>4 DEF EditCluster, Write, Final
<1>5. CASE DeleteCluster
  <2>1. "Terminating" \in Phases BY DEF Phases
  <2> QED BY <1>1, <1>5, <2>1, NothingType, OtherPhase
      DEF DeleteCluster, MarkDeleted, Write, Final
<1>6. CASE StoreLost BY <1>6, SteppedIsFinal DEF StoreLost
<1>7. CASE CreateCredential \/ InstallAddon \/ Break \/ Repair \/ Deliver \/ StepFails \/ CallFails \/ Restart
  BY <1>7 DEF CreateCredential, InstallAddon, Break, Repair, Deliver, StepFails, CallFails, Restart, stored, Final
<1>8. CASE UNCHANGED vars BY <1>8 DEF vars, stored, Final
<1> QED BY <1>2, <1>3, <1>4, <1>5, <1>6, <1>7, <1>8, PutIsFinal, WorkIsFinal DEF Next

(* A cluster that is being deleted is never shown as running, failed or    *)
(* being built again, whatever health loop, step or update was under way   *)
(* when it was marked (watchClusterHealth, doInitializing).                *)
THEOREM DeletionIsFinal == Spec => TerminatingIsFinal
<1>1. IInv /\ [Next]_vars
        => [(cluster.phase = "Terminating" /\ cluster'.uid = cluster.uid)
              => cluster'.phase \in {"Terminating", "Absent"}]_cluster
  BY NextIsFinal DEF Final
<1> QED BY <1>1, Invariant, PTL DEF Spec, TerminatingIsFinal
==============================================================================
