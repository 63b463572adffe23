--------------------------- MODULE AddonController ---------------------------
(***************************************************************************)
(* The controller of one kind of add-on (CronHPA; TappController is the    *)
(* same text, the other kinds are variations): it installs the add-on's    *)
(* objects on a cluster, waits for them, upgrades, watches and removes     *)
(* them.  A worker holds a key while it syncs; reinstalling, checking,     *)
(* upgrading and watching are goroutines, which nobody waits for.          *)
(*                                                                         *)
(* Workers and goroutines are the same kind of actor here: they create     *)
(* object by object, and persist what they computed from the object they   *)
(* had.  The four objects of an add-on are abstracted to two, those before *)
(* the deployment and the deployment; removing them is one step.  Waiting  *)
(* times are abstracted: a poll that may give up does so some time.        *)
(***************************************************************************)
EXTENDS Integers, FiniteSets

CONSTANTS
    Addons,      \* names of add-ons, all for one cluster
    Tasks,       \* room for goroutines
    Clusters,    \* names the cluster may have
    MaxVersion, MaxRetry, MaxUid,
    VersionMap,  \* the versions the program has images for; users may ask for any
    MaxEdits,    \* how many updates and deletions users make
    MaxFaults,   \* how many faults happen, each kind once, an edit and a panic counted too
    FaultKinds   \* which: some of AllFaults

AllFaults == {"create", "delete", "client", "call", "lost", "restart", "sick", "removed"}

ASSUME AddonAssumption ==
    /\ MaxVersion \in Nat \ {0} /\ MaxRetry \in Nat \ {0} /\ MaxUid \in Nat
    /\ MaxEdits \in Nat /\ MaxFaults \in Nat
    /\ VersionMap \subseteq 1..MaxVersion
    /\ FaultKinds \subseteq AllFaults
    /\ Addons \cap Tasks = {} /\ Clusters # {}

VARIABLES
    addons,      \* the stored add-ons
    listed,      \* the informer's copies
    dirty,       \* keys in the work queue
    cached,      \* the cache: -1 no entry, 0 an entry without state, else its uid
    run,         \* what the worker of a key and what every goroutine does
    health, checking, upgrading,   \* the sync.Maps that keep goroutines unique
    cluster,     \* the name of the cluster
    installed,   \* which objects of the add-on are on the cluster
    image,       \* the version the deployment there runs
    edits, happened

memory == <<listed, dirty, cached, run, health, checking, upgrading>>
onCluster == <<cluster, installed, image>>
vars == <<addons, memory, onCluster, edits, happened>>

Phases == {"Absent", "Initializing", "Reinitializing", "Checking", "Running",
           "Upgrading", "Failed"}

Addon == [uid : 0..MaxUid, phase : Phases, want : 1..MaxVersion, have : 0..MaxVersion,
          retries : 0..MaxRetry]

Nowhere == [uid |-> 0, phase |-> "Absent", want |-> 1, have |-> 0, retries |-> 0]

Parts == {"account", "deployment"}
Actors == Addons \cup Tasks
Idle(a) == [of |-> a, job |-> "none", at |-> "idle", obj |-> Nowhere, new |-> Nowhere]

Exists(a) == addons[a].phase # "Absent"

Fault(kind) ==
    /\ kind \in FaultKinds \ happened
    /\ Cardinality(happened) < MaxFaults
    /\ happened' = happened \cup {kind}

Init ==
    /\ addons = [a \in Addons |-> Nowhere]
    /\ listed = addons
    /\ dirty = {}
    /\ cached = [a \in Addons |-> -1]
    /\ run = [x \in Actors |-> Idle(x)]
    /\ health = {} /\ checking = {} /\ upgrading = {}
    /\ cluster \in Clusters
    /\ installed = {} /\ image = 0
    /\ edits = 0 /\ happened = {}

------------------------------------------------------------------------------
(* Users.  "reuse": a name is used a second time, while goroutines may still *)
(* work for the first.                                                      *)
CreateAddon(a, v) ==
    /\ ~Exists(a) /\ addons[a].uid < MaxUid
    /\ happened' = IF addons[a].uid = 0 THEN happened ELSE happened \cup {"reuse"}
    /\ addons' = [addons EXCEPT ![a] =
           [Nowhere EXCEPT !.uid = addons[a].uid + 1, !.phase = "Initializing", !.want = v]]
    /\ UNCHANGED <<memory, onCluster, edits>>

(* An update keeps the status.  "overlap": it came while a reinstallation waits *)
(* or runs, which starts another one.                                           *)
EditVersion(a, v) ==
    /\ Exists(a) /\ v # addons[a].want /\ edits < MaxEdits
    /\ addons' = [addons EXCEPT ![a].want = v]
    /\ edits' = edits + 1
    /\ happened' = happened \cup {"edit"} \cup
           (IF addons[a].phase = "Reinitializing" THEN {"overlap"} ELSE {})
    /\ UNCHANGED <<memory, onCluster>>

DeleteAddon(a) ==
    /\ Exists(a) /\ edits < MaxEdits
    /\ addons' = [addons EXCEPT ![a] = [Nowhere EXCEPT !.uid = addons[a].uid]]
    /\ edits' = edits + 1
    /\ UNCHANGED <<memory, onCluster, happened>>

------------------------------------------------------------------------------
(* The informer and the work queue. *)
Deliver(a) ==
    /\ listed[a] # addons[a]
    /\ listed' = [listed EXCEPT ![a] = addons[a]]
    /\ dirty' = dirty \cup {a}
    /\ UNCHANGED <<addons, cached, run, health, checking, upgrading, onCluster, edits, happened>>

(* A sync ends well, or is repeated. *)
Done(a, obj) ==
    /\ run' = [run EXCEPT ![a] = Idle(a)]
    /\ cached' = [cached EXCEPT ![a] = obj.uid]

Again(a) ==
    /\ run' = [run EXCEPT ![a] = Idle(a)]
    /\ dirty' = dirty \cup {a}

(* A goroutine starts; the sync that starts it ends. *)
Go(a, obj, job, at) ==
    \E t \in Tasks :
        /\ run[t].at = "idle"
        /\ run' = [run EXCEPT ![t] = [of |-> a, job |-> job, at |-> at, obj |-> obj, new |-> obj],
                              ![a] = Idle(a)]
        /\ cached' = [cached EXCEPT ![a] = obj.uid]

(* createCronHPAIfNeeded; entry is what the cache holds while it works. *)
Dispatch(a, obj, entry) ==
    \/ /\ obj.phase = "Initializing"
       /\ run' = [run EXCEPT ![a] = [Idle(a) EXCEPT !.job = "install", !.at = "account", !.obj = obj]]
       /\ cached' = [cached EXCEPT ![a] = entry]
       /\ UNCHANGED <<health, checking, upgrading>>
    \/ /\ obj.phase = "Reinitializing"
       /\ Go(a, obj, "reinit", "account")
       /\ UNCHANGED <<health, checking, upgrading>>
    \/ /\ obj.phase = "Checking" /\ a \notin checking
       /\ checking' = checking \cup {a}
       /\ Go(a, obj, "check", "look")
       /\ UNCHANGED <<health, upgrading>>
    \/ /\ obj.phase = "Upgrading" /\ a \notin upgrading
       /\ upgrading' = upgrading \cup {a}
       /\ Go(a, obj, "upgrade", "look")
       /\ UNCHANGED <<health, checking>>
    \/ /\ obj.phase = "Running" /\ obj.want # obj.have
       /\ health' = health \ {a}
       /\ run' = [run EXCEPT ![a] = [Idle(a) EXCEPT !.job = "start upgrade", !.at = "persist", !.obj = obj,
                                        !.new = [obj EXCEPT !.phase = "Upgrading", !.retries = 0]]]
       /\ cached' = [cached EXCEPT ![a] = entry]
       /\ UNCHANGED <<checking, upgrading>>
    \/ /\ obj.phase = "Running" /\ obj.want = obj.have /\ a \notin health
       /\ health' = health \cup {a}
       /\ Go(a, obj, "watch", "look")
       /\ UNCHANGED <<checking, upgrading>>
    \/ /\ obj.phase = "Failed"
       /\ health' = health \ {a} /\ checking' = checking \ {a} /\ upgrading' = upgrading \ {a}
       /\ Done(a, obj)
    \/ /\ \/ obj.phase = "Checking" /\ a \in checking
          \/ obj.phase = "Upgrading" /\ a \in upgrading
          \/ obj.phase = "Running" /\ obj.want = obj.have /\ a \in health
       /\ Done(a, obj)
       /\ UNCHANGED <<health, checking, upgrading>>

(* A worker takes a key whose add-on is stored and known, or new. *)
Sync(a) ==
    /\ a \in dirty /\ run[a].at = "idle"
    /\ listed[a].phase # "Absent" /\ cached[a] \in {-1, 0, listed[a].uid}
    /\ dirty' = dirty \ {a}
    /\ Dispatch(a, listed[a], IF cached[a] = -1 THEN 0 ELSE cached[a])
    /\ UNCHANGED <<addons, listed, onCluster, edits, happened>>

(* It is gone, or replaced: the cache forgets it before its objects go.  A  *)
(* key that is not in the cache is ignored.                                 *)
SyncDeleted(a) ==
    /\ a \in dirty /\ run[a].at = "idle"
    /\ \/ listed[a].phase = "Absent" /\ cached[a] # 0
       \/ listed[a].phase # "Absent" /\ cached[a] \notin {-1, 0, listed[a].uid}
    /\ dirty' = dirty \ {a}
    /\ IF cached[a] = -1
       THEN UNCHANGED <<cached, run, health>>
       ELSE /\ cached' = [cached EXCEPT ![a] = -1]
            /\ health' = health \ {a}
            /\ run' = [run EXCEPT ![a] = [Idle(a) EXCEPT !.job = "drop", !.at = "remove", !.obj = listed[a]]]
    /\ UNCHANGED <<addons, listed, checking, upgrading, onCluster, edits, happened>>

(* uninstallCronHPA on the way out, and on to the add-on that replaced it. *)
Remove(a) ==
    /\ run[a].at = "remove"
    /\ installed' = {} /\ image' = 0
    /\ \/ /\ run[a].obj.phase = "Absent"
          /\ run' = [run EXCEPT ![a] = Idle(a)]
          /\ UNCHANGED <<cached, health, checking, upgrading>>
       \/ /\ run[a].obj.phase # "Absent"
          /\ Dispatch(a, run[a].obj, -1)
    /\ UNCHANGED <<addons, listed, dirty, cluster, edits, happened>>

(* The repetition will not find the add-on in the cache. *)
RemoveFails(a) ==
    /\ run[a].at = "remove"
    /\ Fault("delete")
    /\ \E left \in SUBSET installed :
        /\ installed' = left
        /\ image' = IF "deployment" \in left THEN image ELSE 0
    /\ Again(a)
    /\ UNCHANGED <<addons, listed, cached, health, checking, upgrading, cluster, edits>>

------------------------------------------------------------------------------
(* Workers and goroutines. *)

(* The end of an actor's work: a worker's sync ends, a goroutine that was   *)
(* registered leaves its key until it has returned.                         *)
Ends(x, ok) ==
    IF x \in Addons
    THEN IF ok THEN Done(x, run[x].obj) /\ UNCHANGED dirty
               ELSE Again(x) /\ UNCHANGED cached
    ELSE /\ run' = [run EXCEPT ![x] =
              IF run[x].job \in {"check", "upgrade"} THEN [@ EXCEPT !.at = "end"] ELSE Idle(x)]
         /\ UNCHANGED <<dirty, cached>>

Persists(x, new) == [run EXCEPT ![x].at = "persist", ![x].new = new]

(* What an installation writes that went well, and one that did not: the    *)
(* worker's leads to a reinstallation, which takes back what it finds.      *)
AfterInstall(x) ==
    LET obj == run[x].obj IN
    IF x \in Addons
    THEN Persists(x, [obj EXCEPT !.have = obj.want, !.phase = "Checking", !.retries = 0])
    ELSE Persists(x, [obj EXCEPT !.phase = "Checking"])

AfterFailure(x) ==
    LET obj == run[x].obj IN
    IF x \in Addons
    THEN Persists(x, [obj EXCEPT !.have = obj.want, !.phase = "Reinitializing", !.retries = 1])
    ELSE [run EXCEPT ![x].at = "rollback"]

(* images.Get, which comes before the deployment is created, panics for a   *)
(* version that is not in the map.                                          *)
HasImage(x) == run[x].at = "deployment" => run[x].obj.want \in VersionMap

(* Mutant: what exists already is taken for a finished installation.       *)
MutExistsIsDone(x) ==
    LET part == run[x].at IN
    /\ part \in Parts /\ HasImage(x)
    /\ IF part \in installed
       THEN run' = AfterInstall(x) /\ UNCHANGED <<installed, image>>
       ELSE /\ installed' = installed \cup {part}
            /\ IF part = "account"
               THEN run' = [run EXCEPT ![x].at = "deployment"] /\ UNCHANGED image
               ELSE run' = AfterInstall(x) /\ image' = run[x].obj.want
    /\ UNCHANGED <<addons, listed, dirty, cached, health, checking, upgrading, cluster, edits, happened>>

(* installCronHPA creates; what is there already is an error. *)
CreatePart(x) ==
    LET part == run[x].at IN
    /\ part \in Parts /\ HasImage(x)
    /\ IF part \in installed
       THEN run' = AfterFailure(x) /\ UNCHANGED <<installed, image>>
       ELSE /\ installed' = installed \cup {part}
            /\ IF part = "account"
               THEN run' = [run EXCEPT ![x].at = "deployment"] /\ UNCHANGED image
               ELSE run' = AfterInstall(x) /\ image' = run[x].obj.want
    /\ UNCHANGED <<addons, listed, dirty, cached, health, checking, upgrading, cluster, edits, happened>>

CreateFails(x) ==
    /\ run[x].at \in Parts /\ HasImage(x)
    /\ Fault("create")
    /\ run' = AfterFailure(x)
    /\ UNCHANGED <<addons, listed, dirty, cached, health, checking, upgrading, onCluster, edits>>

(* cronHPAReinitialize after a failure. *)
Rollback(x) ==
    LET obj == run[x].obj IN
    /\ run[x].at = "rollback"
    /\ installed' = {} /\ image' = 0
    /\ run' = Persists(x, IF obj.retries = MaxRetry
                          THEN [obj EXCEPT !.phase = "Failed"]
                          ELSE [obj EXCEPT !.retries = @ + 1])
    /\ UNCHANGED <<addons, listed, dirty, cached, health, checking, upgrading, cluster, edits, happened>>

(* Nobody repeats what a goroutine did not complete. *)
RollbackFails(x) ==
    /\ run[x].at = "rollback"
    /\ Fault("delete")
    /\ \E left \in SUBSET installed :
        /\ installed' = left
        /\ image' = IF "deployment" \in left THEN image ELSE 0
    /\ Ends(x, FALSE)
    /\ UNCHANGED <<addons, listed, health, checking, upgrading, cluster, edits>>

(* Mutant: that the time is over is logged only.                           *)
MutTimeoutIsLogged(t) ==
    LET a == run[t].of  obj == listed[a] IN
    /\ run[t].job = "check" /\ run[t].at = "look"
    /\ \/ /\ obj.phase = "Absent" \/ a \notin checking \/ "deployment" \notin installed
          /\ Ends(t, FALSE)
       \/ /\ obj.phase # "Absent" /\ a \in checking /\ "deployment" \in installed
          /\ run' = [Persists(t, [obj EXCEPT !.phase = "Running"]) EXCEPT ![t].obj = obj]
          /\ UNCHANGED <<dirty, cached>>
    /\ UNCHANGED <<addons, listed, health, checking, upgrading, onCluster, edits, happened>>

(* A round of checkCronHPAStatus: the deployment is available, or is not    *)
(* when the time is over.                                                   *)
Check(t) ==
    LET a == run[t].of  obj == listed[a] IN
    /\ run[t].job = "check" /\ run[t].at = "look"
    /\ \/ /\ obj.phase = "Absent" \/ a \notin checking
          /\ Ends(t, FALSE)
          /\ UNCHANGED happened
       \/ /\ obj.phase # "Absent" /\ a \in checking
          /\ \/ /\ "deployment" \in installed
                /\ run' = [Persists(t, [obj EXCEPT !.phase = "Running"]) EXCEPT ![t].obj = obj]
                /\ UNCHANGED happened
             \/ /\ IF "deployment" \in installed THEN Fault("sick") ELSE UNCHANGED happened
                /\ run' = [Persists(t, [obj EXCEPT !.phase = "Failed"]) EXCEPT ![t].obj = obj]
          /\ UNCHANGED <<dirty, cached>>
    /\ UNCHANGED <<addons, listed, health, checking, upgrading, onCluster, edits>>

(* A round of upgradeCronHPA. *)
Upgrade(t) ==
    LET a == run[t].of  obj == listed[a] IN
    /\ run[t].job = "upgrade" /\ run[t].at = "look"
    /\ \/ /\ obj.phase = "Absent" \/ a \notin upgrading
          /\ Ends(t, FALSE)
          /\ UNCHANGED image
       \/ /\ obj.phase # "Absent" /\ a \in upgrading /\ obj.want \in VersionMap
          /\ LET new == IF "deployment" \in installed
                        THEN [obj EXCEPT !.have = obj.want, !.phase = "Checking"]
                        ELSE [obj EXCEPT !.phase = "Failed"]
             IN  run' = [Persists(t, new) EXCEPT ![t].obj = obj]
          /\ image' = IF "deployment" \in installed THEN obj.want ELSE image
          /\ UNCHANGED <<dirty, cached>>
    /\ UNCHANGED <<addons, listed, health, checking, upgrading, cluster, installed, edits, happened>>

(* A round of watchCronHPAHealth: it looks up the cluster's name among the  *)
(* keys, which are names of add-ons.                                        *)
Watch(t) ==
    LET a == run[t].of  obj == listed[a] IN
    /\ run[t].job = "watch" /\ run[t].at = "look"
    /\ \/ /\ obj.phase = "Absent" \/ cluster \notin health
          /\ Ends(t, FALSE)
       \/ /\ obj.phase # "Absent" /\ cluster \in health
          /\ "deployment" \notin installed
          /\ run' = [Persists(t, [obj EXCEPT !.phase = "Failed"]) EXCEPT ![t].obj = obj]
          /\ UNCHANGED <<dirty, cached>>
    /\ UNCHANGED <<addons, listed, health, checking, upgrading, onCluster, edits, happened>>

(* The cluster's credential cannot be read: the goroutine ends. *)
LookFails(t) ==
    /\ run[t].at = "look"
    /\ Fault("client")
    /\ Ends(t, FALSE)
    /\ UNCHANGED <<addons, listed, health, checking, upgrading, onCluster, edits>>

(* Mutant: a status is stored over whatever the add-on has become.         *)
MutUnconditional(x) ==
    LET a == run[x].of IN
    /\ run[x].at = "persist"
    /\ addons' = IF Exists(a)
                 THEN [addons EXCEPT ![a].phase = run[x].new.phase, ![a].have = run[x].new.have,
                                     ![a].retries = run[x].new.retries]
                 ELSE addons
    /\ Ends(x, TRUE)
    /\ UNCHANGED <<listed, health, checking, upgrading, onCluster, edits, happened>>

(* persistUpdate: a status update that is stored if the object is as it was. *)
Persist(x) ==
    LET a == run[x].of IN
    /\ run[x].at = "persist"
    /\ \/ /\ addons[a] = run[x].obj
          /\ addons' = [addons EXCEPT ![a] = run[x].new]
          /\ Ends(x, TRUE)
       \/ /\ ~Exists(a)
          /\ Ends(x, TRUE)
          /\ UNCHANGED addons
       \/ /\ Exists(a) /\ addons[a] # run[x].obj
          /\ Ends(x, FALSE)
          /\ UNCHANGED addons
    /\ UNCHANGED <<listed, health, checking, upgrading, onCluster, edits, happened>>

PersistFails(x) ==
    /\ run[x].at = "persist"
    /\ Fault("call")
    /\ Ends(x, FALSE)
    /\ UNCHANGED <<addons, listed, health, checking, upgrading, onCluster, edits>>

(* The answer is lost; the actor tries again. *)
PersistLost(x) ==
    LET a == run[x].of IN
    /\ run[x].at = "persist" /\ addons[a] = run[x].obj
    /\ Fault("lost")
    /\ addons' = [addons EXCEPT ![a] = run[x].new]
    /\ UNCHANGED <<memory, onCluster, edits>>

(* A registered goroutine returns. *)
Return(t) ==
    LET a == run[t].of IN
    /\ run[t].at = "end"
    /\ checking' = IF run[t].job = "check" THEN checking \ {a} ELSE checking
    /\ upgrading' = IF run[t].job = "upgrade" THEN upgrading \ {a} ELSE upgrading
    /\ run' = [run EXCEPT ![t] = Idle(t)]
    /\ UNCHANGED <<addons, listed, dirty, cached, health, onCluster, edits, happened>>

------------------------------------------------------------------------------
(* The process starts anew. *)
Forget ==
    /\ listed' = addons
    /\ dirty' = {a \in Addons : Exists(a)}
    /\ cached' = [a \in Addons |-> -1]
    /\ run' = [x \in Actors |-> Idle(x)]
    /\ health' = {} /\ checking' = {} /\ upgrading' = {}

Restart ==
    /\ Fault("restart")
    /\ Forget
    /\ UNCHANGED <<addons, onCluster, edits>>

(* An add-on is deleted whose first sync failed: its cache entry has no     *)
(* state, and the process ends in a nil dereference.                        *)
SyncPanics(a) ==
    /\ a \in dirty /\ run[a].at = "idle"
    /\ listed[a].phase = "Absent" /\ cached[a] = 0
    /\ Forget
    /\ UNCHANGED <<addons, onCluster, edits, happened>>

(* A worker or goroutine asks for the image of a version that is not in the *)
(* map: the process ends.                                                   *)
PanicsForImage(x) ==
    LET obj == listed[run[x].of] IN
    /\ \/ run[x].at = "deployment" /\ ~HasImage(x)
       \/ /\ run[x].job = "upgrade" /\ run[x].at = "look"
          /\ obj.phase # "Absent" /\ run[x].of \in upgrading
          /\ obj.want \notin VersionMap
    /\ Forget
    /\ happened' = happened \cup {"panic"}
    /\ UNCHANGED <<addons, onCluster, edits>>

(* Somebody removes the deployment from the cluster. *)
Removed ==
    /\ "deployment" \in installed
    /\ Fault("removed")
    /\ installed' = installed \ {"deployment"} /\ image' = 0
    /\ UNCHANGED <<addons, memory, cluster, edits>>

Work(a) == Sync(a) \/ SyncDeleted(a) \/ SyncPanics(a) \/ Remove(a)
Step(x) == CreatePart(x) \/ Rollback(x) \/ Persist(x) \/ PanicsForImage(x)
Poll(t) == Check(t) \/ Upgrade(t) \/ Watch(t) \/ Return(t)

Next ==
    \/ \E a \in Addons :
        \/ \E v \in 1..MaxVersion : CreateAddon(a, v) \/ EditVersion(a, v)
        \/ DeleteAddon(a) \/ Deliver(a) \/ Work(a) \/ RemoveFails(a)
    \/ \E x \in Actors :
        Step(x) \/ CreateFails(x) \/ RollbackFails(x) \/ PersistFails(x) \/ PersistLost(x)
    \/ \E t \in Tasks : Poll(t) \/ LookFails(t)
    \/ Restart \/ Removed

Fairness ==
    /\ \A a \in Addons : WF_vars(Deliver(a)) /\ WF_vars(Work(a))
    /\ \A x \in Actors : WF_vars(Step(x))
    /\ \A t \in Tasks : WF_vars(Poll(t))

Spec == Init /\ [][Next]_vars
FairSpec == Spec /\ Fairness

------------------------------------------------------------------------------
(* Types of the variables. *)
TypeOK ==
    /\ addons \in [Addons -> Addon] /\ listed \in [Addons -> Addon]
    /\ dirty \subseteq Addons
    /\ cached \in [Addons -> -1..MaxUid]
    /\ run \in [Actors ->
            [of : Actors,
             job : {"none", "install", "start upgrade", "drop", "reinit", "check", "upgrade", "watch"},
             at : {"idle", "remove", "rollback", "look", "persist", "end"} \cup Parts,
             obj : Addon, new : Addon]]
    /\ health \subseteq Addons /\ checking \subseteq Addons /\ upgrading \subseteq Addons
    /\ cluster \in Clusters
    /\ installed \subseteq Parts /\ image \in 0..MaxVersion
    /\ edits \in 0..MaxEdits
    /\ happened \subseteq FaultKinds \cup {"edit", "overlap", "reuse", "panic"}

Deployed == {"Checking", "Running", "Upgrading"}

(* Nobody edits an add-on that is being reinstalled, removes its objects, or *)
(* uses its name again; no other add-on of the kind shares its objects.      *)
Quiet == happened \cap {"overlap", "removed", "reuse"} = {}
Alone(a) == \A b \in Addons \ {a} : addons[b].uid = 0

IsInstalled(a) == addons[a].phase \in Deployed => installed = Parts
HasItsVersion(a) ==
    addons[a].phase = "Running" /\ addons[a].want = addons[a].have => image = addons[a].have

(***************************************************************************)
(* An add-on that says it is deployed has all its objects on the cluster:  *)
(* no rollback of a late or repeated reinstallation (controller.go:257)    *)
(* takes them away, whatever fails and whenever the process stops.  And    *)
(* one whose version was changed once at most runs, once it says so, the   *)
(* version it is to have.                                                  *)
(***************************************************************************)
DeployedIsInstalled ==
    Quiet => \A a \in Addons : Alone(a) => IsInstalled(a) /\ (edits <= 1 => HasItsVersion(a))

(* The same of add-ons that share a cluster, and of one whose version is    *)
(* changed back while it is being upgraded.                                 *)
TwinsAreInstalled == Quiet => \A a \in Addons : IsInstalled(a)
EditedRunsItsVersion == Quiet => \A a \in Addons : Alone(a) => HasItsVersion(a)

(***************************************************************************)
(* The phase goes the way the controller means it to go, although worker,  *)
(* goroutines and their late answers write it: nothing becomes Running     *)
(* that was not checked, retries only grow, and what failed stays failed.  *)
(* An edit may have goroutines started from an old copy, which judge       *)
(* whatever phase they find then (controller.go:574, :619); but nothing is *)
(* deployed twice.  A goroutine of a deleted add-on takes the next one of  *)
(* its name for its own: hence the condition.                              *)
(***************************************************************************)
Arrows ==
    {<<"Initializing", "Checking">>, <<"Initializing", "Reinitializing">>,
     <<"Reinitializing", "Reinitializing">>, <<"Reinitializing", "Checking">>,
     <<"Reinitializing", "Failed">>, <<"Checking", "Running">>, <<"Checking", "Failed">>,
     <<"Running", "Upgrading">>, <<"Running", "Failed">>,
     <<"Upgrading", "Checking">>, <<"Upgrading", "Failed">>}

PhaseStep(a) ==
    LET old == addons[a]  new == addons'[a] IN
    (/\ old.phase # "Absent" /\ new.phase # "Absent" /\ old.uid = new.uid
     /\ "reuse" \notin happened) =>
        /\ \/ old.phase = new.phase
           \/ <<old.phase, new.phase>> \in Arrows
           \/ "edit" \in happened /\ {old.phase, new.phase} \subseteq Deployed \cup {"Failed"}
        /\ (old.phase = "Reinitializing" /\ new.phase \in {"Reinitializing", "Failed"})
            => new.retries >= old.retries

PhaseOrder == [][\A a \in Addons : PhaseStep(a)]_addons

(***************************************************************************)
(* An installation comes to an end: the add-on runs or has failed, also    *)
(* over restarts, lost answers and failing creations, and of a version     *)
(* there is no image for, over the panics this causes.  What ends a        *)
(* goroutine without a result (a failing rollback or status update, an     *)
(* unreadable credential, a conflicting edit) is not repeated, and is      *)
(* therefore excluded, as is a name whose old checker is still registered. *)
(***************************************************************************)
Settled(a) ==
    \/ addons[a].phase \in {"Absent", "Failed"}
    \/ addons[a].phase = "Running" /\ addons[a].want = addons[a].have

InstallationEnds ==
    \A a \in Addons :
        ~Settled(a) ~> Settled(a) \/ happened \cap {"delete", "call", "client", "edit", "reuse"} # {}

(***************************************************************************)
(* An add-on that is deleted at any time, also during its installation,    *)
(* leaves nothing on the cluster, as long as nothing fails                 *)
(* and the process does not end (processCronHPADelete, controller.go:220). *)
(***************************************************************************)
LeavesNothing ==
    \A a \in Addons :
        ~Exists(a) /\ addons[a].uid > 0
            ~> Exists(a) \/ installed = {}
               \/ happened \cap {"create", "delete", "call", "lost", "restart", "panic", "edit", "reuse"} # {}

(***************************************************************************)
(* A running add-on whose deployment vanishes is noticed; the watch ends   *)
(* at its first look unless add-on and cluster have the same name          *)
(* (controller.go:552).                                                    *)
(***************************************************************************)
FailureNoticed ==
    \A a \in Addons :
        addons[a].phase = "Running" /\ "deployment" \notin installed
            ~> \/ addons[a].phase # "Running"
               \/ cluster # a
               \/ "deployment" \in installed
               \/ happened \cap {"client", "call", "lost", "edit", "reuse"} # {}

(***************************************************************************)
(* An upgrade ends, over restarts and lost answers, also one to a version  *)
(* without an image, over which the process ends again and again, once it  *)
(* is changed back (upgradeCronHPA, controller.go:619).  Where there are   *)
(* images of several versions an edit can meet a checker or an upgrade     *)
(* under way and leave nobody to repeat it.                                *)
(***************************************************************************)
UpgradeEnds ==
    \A a \in Addons :
        addons[a].phase = "Upgrading" /\ addons[a].want \in VersionMap
            ~> \/ addons[a].phase # "Upgrading"
               \/ addons[a].want \notin VersionMap
               \/ Cardinality(VersionMap) > 1
               \/ happened \cap {"client", "call", "reuse"} # {}

(***************************************************************************)
(* What is asked of an add-on, and what happens to it, gets its answer:    *)
(* installations end, deletions leave nothing, failures are noticed, by    *)
(* workers that retry and goroutines that do not                           *)
(* (controller.go:302).                                                    *)
(***************************************************************************)
Converges == InstallationEnds /\ LeavesNothing /\ FailureNoticed

(* Any upgrade ends: one to a version without an image never does, for the *)
(* process that is started anew tries it again (controller.go:641).        *)
UpgradeAlwaysEnds ==
    \A a \in Addons :
        addons[a].phase = "Upgrading"
            ~> \/ addons[a].phase # "Upgrading"
               \/ edits > 1 \/ happened \cap {"client", "call", "reuse"} # {}

(* FailureNoticed without the condition on the names. *)
FailureAlwaysNoticed ==
    \A a \in Addons :
        addons[a].phase = "Running" /\ "deployment" \notin installed
            ~> addons[a].phase # "Running" \/ "deployment" \in installed
==============================================================================
