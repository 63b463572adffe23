-------------------------- MODULE ClusterController --------------------------
(***************************************************************************)
(* The platform's cluster controller, its health loops and its deleter,    *)
(* and the API they work on, for one name of a cluster (names are          *)
(* independent of each other).  A cluster is imported, and only watched,   *)
(* or baremetal: then it is built step by step.                            *)
(*                                                                         *)
(* The thirty steps of the baremetal provider are abstracted to three: one *)
(* that makes a token (EnsureClusterComplete), one that installs it on the *)
(* machines and one that uses it there.  Resource versions are abstracted  *)
(* to the set of those whose copy is the stored object.                    *)
(***************************************************************************)
EXTENDS Integers, FiniteSets

CONSTANTS
    Kinds,       \* of clusters: some of {"imported", "baremetal"}
    Loops,       \* room for health loops
    MaxUid, MaxEdits, MaxFaults,
    FaultKinds   \* what goes wrong, each kind once: some of AllFaults

AllFaults == {"call", "lost", "restart", "step", "sick", "down"}

ASSUME ClusterAssumption ==
    /\ Kinds \subseteq {"imported", "baremetal"} /\ Kinds # {}
    /\ MaxUid \in Nat /\ MaxEdits \in Nat /\ MaxFaults \in Nat
    /\ FaultKinds \subseteq AllFaults
    /\ Loops \cap {"informer", "worker"} = {}

VARIABLES
    cluster,     \* the stored cluster
    token,       \* of its ClusterCredential: -1 without one, 0 if it has no token
    addons,      \* its Helm or PersistentEvent: "none", "stored", or "late", if it was
                 \* stored when no deleter was to list it any more
    current,     \* those whose copy of the cluster is the stored one
    listed,      \* the informer's copy
    dirty,       \* whether the key is queued
    cached,      \* clusterCache: -1 no entry, 0 an entry without state, else its uid
    health,      \* whether clusterHealth has the key
    work,        \* the worker that holds the key
    loops,       \* what each watchClusterHealth does
    alive,       \* the machines: "healthy", "sick" (no API server), "down" (no connection)
    installed,   \* the token on the machines
    edits, happened

stored == <<cluster, token, addons>>
memory == <<listed, dirty, cached, health, work, loops>>
machines == <<alive, installed>>
history == <<edits, happened>>
vars == <<stored, current, memory, machines, history>>

LastStep == 3
Phases == {"Absent", "Initializing", "Running", "Failed", "Terminating"}
Cluster == [uid : 0..MaxUid, kind : Kinds, phase : Phases, step : 1..LastStep + 1,
            finalizer : BOOLEAN]

Nothing(uid) == [uid |-> uid, kind |-> CHOOSE k \in Kinds : TRUE, phase |-> "Absent",
                 step |-> 1, finalizer |-> FALSE]

Tokens == 0..3
Idle == [at |-> "idle", obj |-> Nothing(0), token |-> 0]
Holders == {"informer", "worker"} \cup Loops

Exists == cluster.phase # "Absent"

Fault(kind) ==
    /\ kind \in FaultKinds \ happened
    /\ Cardinality(happened \cap AllFaults) < MaxFaults
    /\ happened' = happened \cup {kind}

Init ==
    /\ cluster = Nothing(0) /\ listed = cluster
    /\ token = -1 /\ addons = "none"
    /\ current = Holders
    /\ dirty = FALSE /\ cached = -1 /\ health = FALSE
    /\ work = Idle /\ loops = [l \in Loops |-> "idle"]
    /\ alive = "healthy" /\ installed = 0
    /\ edits = 0 /\ happened = {}

------------------------------------------------------------------------------
(* The API server. *)

(* A write makes every other copy old. *)
Write(new) == cluster' = new /\ current' = {}

(* Mutant: updates are stored over whatever the cluster has become.        *)
MutUnconditional(holder) == Exists /\ alive # "down"

(* Every update, also of the status, is validated by connecting to the      *)
(* cluster, and stored if the copy it was made from is the stored one.      *)
Admitted(holder) == holder \in current /\ Exists /\ alive # "down"

CreateCluster(kind) ==
    /\ ~Exists /\ cluster.uid < MaxUid /\ alive # "down"
    /\ Write([uid |-> cluster.uid + 1, kind |-> kind, phase |-> "Initializing",
              step |-> 1, finalizer |-> TRUE])
    /\ addons' = IF addons = "late" THEN "stored" ELSE addons   \* it has the name
    /\ UNCHANGED <<token, memory, machines, history>>

(* The credential of an imported cluster comes after it. *)
CreateCredential ==
    /\ Exists /\ cluster.kind = "imported" /\ token = -1
    /\ token' = 0
    /\ UNCHANGED <<cluster, addons, current, memory, machines, history>>

EditCluster ==
    /\ Exists /\ alive # "down" /\ edits < MaxEdits
    /\ Write(cluster)
    /\ edits' = edits + 1
    /\ UNCHANGED <<token, addons, memory, machines, happened>>

(* The first deletion marks the cluster, a later one removes it when it is  *)
(* finalized.                                                               *)
MarkDeleted ==
    /\ Exists /\ cluster.phase # "Terminating"
    /\ Write([cluster EXCEPT !.phase = "Terminating"])

Removable == cluster.phase = "Terminating" /\ ~cluster.finalizer

DeleteCluster ==
    /\ edits < MaxEdits
    /\ MarkDeleted \/ (Removable /\ Write(Nothing(cluster.uid)))
    /\ edits' = edits + 1
    /\ UNCHANGED <<token, addons, memory, machines, happened>>

(* A persistent event is not validated against its cluster, a helm only      *)
(* before it is stored: either may be stored when the cluster is being      *)
(* deleted, or gone.                                                        *)
NoLongerListed ==
    \/ ~cluster.finalizer
    \/ work.at \in {"finalize", "remove"} /\ work.obj.uid = cluster.uid

InstallAddon ==
    /\ addons = "none"
    /\ addons' = IF NoLongerListed THEN "late" ELSE "stored"
    /\ UNCHANGED <<cluster, token, current, memory, machines, history>>

(* The machines fail, and are repaired. *)
Break ==
    /\ \E kind \in {"sick", "down"} : Fault(kind) /\ alive' = kind
    /\ UNCHANGED <<stored, current, memory, installed, edits>>

Repair ==
    /\ alive # "healthy" /\ alive' = "healthy"
    /\ UNCHANGED <<stored, current, memory, installed, history>>

------------------------------------------------------------------------------
(* The informer: there is no handler for a deletion. *)
Deliver ==
    /\ "informer" \notin current
    /\ listed' = cluster
    /\ current' = current \cup {"informer"}
    /\ dirty' = (dirty \/ Exists)
    /\ UNCHANGED <<stored, cached, health, work, loops, machines, history>>

(* Mutant: the key is registered and the loop is left to another.          *)
MutNoLoop(h) ==
    /\ health' = TRUE
    /\ UNCHANGED loops

(* ensureHealthCheck, when the registered key is known to be h. *)
EnsureHealth(h) ==
    /\ health' = TRUE
    /\ IF h THEN UNCHANGED loops
       ELSE /\ \E l \in Loops : loops[l] = "idle"
            /\ loops' = [loops EXCEPT ![CHOOSE l \in Loops : loops[l] = "idle"] = "look"]

(* The worker takes the informer's copy. *)
Take(at) ==
    /\ work' = [Idle EXCEPT !.at = at, !.obj = listed]
    /\ current' = IF "informer" \in current THEN current \cup {"worker"} ELSE current \ {"worker"}

(* syncCluster.  A cluster of another uid is dropped first. *)
Sync ==
    LET replaced == cached \notin {-1, 0, listed.uid}
        entry == IF replaced THEN -1 ELSE IF cached = -1 THEN 0 ELSE cached
        h == health /\ ~replaced
    IN
    /\ dirty /\ work.at = "idle"
    /\ dirty' = FALSE
    /\ \/ /\ listed.phase \in {"Absent", "Terminating"}
          /\ cached' = -1
          /\ health' = (health /\ cached = -1)
          /\ IF listed.phase = "Terminating" THEN Take("look") ELSE UNCHANGED <<work, current>>
          /\ UNCHANGED loops
       \/ /\ listed.phase = "Running"
          /\ cached' = entry
          /\ EnsureHealth(h)
          /\ Take("update")
       \/ /\ listed.phase = "Failed" \/ (listed.phase = "Initializing" /\ listed.kind = "imported")
          /\ cached' = listed.uid
          /\ EnsureHealth(h)
          /\ UNCHANGED <<work, current>>
       \/ /\ listed.phase = "Initializing" /\ listed.kind = "baremetal"
          /\ cached' = entry
          /\ health' = h
          /\ Take("credential")
          /\ UNCHANGED loops
    /\ UNCHANGED <<stored, listed, machines, history>>

Done ==
    /\ work' = Idle
    /\ cached' = work.obj.uid
    /\ UNCHANGED <<listed, dirty, health, loops>>

(* Mutant: a key whose sync failed is forgotten.                           *)
MutForget ==
    /\ work' = Idle
    /\ UNCHANGED <<listed, dirty, cached, health, loops>>

Again ==
    /\ work' = Idle
    /\ dirty' = TRUE
    /\ UNCHANGED <<listed, cached, health, loops>>

(* doUpdate: the update of an unchanged cluster changes nothing, but is     *)
(* refused like any other.                                                  *)
Update ==
    /\ work.at = "update"
    /\ IF token # -1 /\ (work.obj.kind = "imported" \/ Admitted("worker")) THEN Done ELSE Again
    /\ UNCHANGED <<stored, current, machines, history>>

------------------------------------------------------------------------------
(* doInitializing of a baremetal cluster. *)
GetCredential ==
    /\ work.at = "credential"
    /\ \/ /\ token = -1 /\ ~Exists
          /\ Again
          /\ UNCHANGED token
       \/ /\ token # -1 \/ Exists
          /\ token' = IF token = -1 THEN 0 ELSE token
          /\ work' = [work EXCEPT !.at = "step", !.token = token']
          /\ UNCHANGED <<listed, dirty, cached, health, loops>>
    /\ UNCHANGED <<cluster, addons, current, machines, history>>

(* OnInitialize runs the one step that the copy says is next. *)
NewToken == CHOOSE t \in Tokens \ {0} : t \notin {token, installed, work.token}

NoToken == work.obj.step > 1 /\ work.token = 0

RunStep ==
    /\ work.at = "step" /\ alive # "down" /\ ~NoToken
    /\ work' = [work EXCEPT !.at = "store",
                    !.token = IF work.obj.step = 1 THEN NewToken ELSE @]
    /\ installed' = IF work.obj.step = 2 THEN work.token ELSE installed
    /\ UNCHANGED <<stored, current, listed, dirty, cached, health, loops, alive, history>>

(* A step that fails is noted, if that can be stored, and run again. *)
StepFails ==
    /\ work.at = "step" /\ ~NoToken
    /\ \/ alive = "down" /\ UNCHANGED happened
       \/ alive # "down" /\ Fault("step")
    /\ work' = [work EXCEPT !.at = "failed"]
    /\ UNCHANGED <<stored, current, listed, dirty, cached, health, loops, machines, edits>>

StoreFailure ==
    /\ work.at = "failed"
    /\ IF Admitted("worker") THEN Write(cluster) ELSE UNCHANGED <<cluster, current>>
    /\ Again
    /\ UNCHANGED <<token, addons, machines, history>>

(* Mutant: the phase is Running one step early.                            *)
MutRunningEarly(c) == [c EXCEPT !.step = @ + 1,
                        !.phase = IF c.step = LastStep - 2 THEN "Running" ELSE @]

Stepped(c) == [c EXCEPT !.step = @ + 1,
                        !.phase = IF c.step = LastStep THEN "Running" ELSE @]

(* The cluster is stored first, and then the credential. *)
StoreCluster ==
    /\ work.at = "store"
    /\ IF Admitted("worker")
       THEN /\ Write(Stepped(work.obj))
            /\ work' = [work EXCEPT !.at = "token"]
            /\ UNCHANGED <<listed, dirty, cached, health, loops>>
       ELSE Again /\ UNCHANGED <<cluster, current>>
    /\ UNCHANGED <<token, addons, machines, history>>

StoreToken ==
    /\ work.at = "token"
    /\ \/ Exists /\ token' = work.token /\ Done
       \/ ~Exists /\ UNCHANGED token /\ Again
    /\ UNCHANGED <<cluster, addons, current, machines, history>>

------------------------------------------------------------------------------
(* Mutant: the deleter finalizes at once.                                  *)
MutSkipsContent ==
    /\ work.at = "look"
    /\ \/ /\ cluster.phase # "Terminating"
          /\ work' = Idle
          /\ UNCHANGED current
       \/ /\ cluster.phase = "Terminating"
          /\ work' = [work EXCEPT !.at = IF cluster.finalizer THEN "finalize" ELSE "remove",
                                  !.obj = cluster]
          /\ current' = current \cup {"worker"}
    /\ UNCHANGED <<stored, listed, dirty, cached, health, loops, machines, history>>

(* The deleter. *)
LookToDelete ==
    /\ work.at = "look"
    /\ \/ /\ cluster.phase # "Terminating"
          /\ work' = Idle
          /\ UNCHANGED current
       \/ /\ cluster.phase = "Terminating"
          /\ work' = [work EXCEPT !.at = IF cluster.finalizer THEN "content" ELSE "remove",
                                  !.obj = cluster]
          /\ current' = current \cup {"worker"}
    /\ UNCHANGED <<stored, listed, dirty, cached, health, loops, machines, history>>

(* deleteAllContent: what is listed of persistent events and helms is      *)
(* deleted; add-ons of other kinds stay.                                   *)
DeleteContent ==
    /\ work.at = "content"
    /\ addons' = "none"
    /\ work' = [work EXCEPT !.at = "finalize"]
    /\ UNCHANGED <<cluster, token, current, listed, dirty, cached, health, loops, machines, history>>

(* A conflict is resolved by reading the cluster again. *)
Finalize ==
    /\ work.at = "finalize"
    /\ IF Exists /\ cluster.uid = work.obj.uid
       THEN Write([cluster EXCEPT !.finalizer = FALSE]) ELSE UNCHANGED <<cluster, current>>
    /\ work' = [work EXCEPT !.at = "remove"]
    /\ UNCHANGED <<token, addons, listed, dirty, cached, health, loops, machines, history>>

Remove ==
    /\ work.at = "remove"
    /\ IF Removable /\ cluster.uid = work.obj.uid
       THEN Write(Nothing(cluster.uid)) ELSE UNCHANGED <<cluster, current>>
    /\ work' = Idle
    /\ UNCHANGED <<token, addons, listed, dirty, cached, health, loops, machines, history>>

------------------------------------------------------------------------------
(* A round of watchClusterHealth: the cluster is read and probed. *)
Look(l) ==
    /\ loops[l] = "look"
    /\ \/ /\ cluster.phase \in {"Absent", "Terminating"}
          /\ loops' = [loops EXCEPT ![l] = "idle"]
          /\ UNCHANGED current
       \/ /\ cluster.phase \notin {"Absent", "Terminating"}
          /\ loops' = [loops EXCEPT ![l] =
                 IF alive = "healthy" /\ token # -1 THEN "Running" ELSE "Failed"]
          /\ current' = current \cup {l}
    /\ UNCHANGED <<stored, listed, dirty, cached, health, work, machines, history>>

(* What it found is stored, or lost until the next round.  "hijacked": a     *)
(* loop left over from a cluster of the same name judges one that is being  *)
(* built.                                                                   *)
Building == cluster.phase = "Initializing" /\ cluster.kind = "baremetal"

Put(l) ==
    /\ loops[l] \in {"Running", "Failed"}
    /\ IF Admitted(l)
       THEN /\ Write([cluster EXCEPT !.phase = loops[l]])
            /\ happened' = happened \cup IF Building THEN {"hijacked"} ELSE {}
       ELSE UNCHANGED <<cluster, current, happened>>
    /\ loops' = [loops EXCEPT ![l] = "look"]
    /\ UNCHANGED <<token, addons, listed, dirty, cached, health, work, machines, edits>>

PutFails(l) ==
    /\ loops[l] \in {"Running", "Failed"}
    /\ Fault("call")
    /\ loops' = [loops EXCEPT ![l] = "look"]
    /\ UNCHANGED <<stored, current, listed, dirty, cached, health, work, machines, edits>>

------------------------------------------------------------------------------
(* "torn": the cluster is stored as having made its token, and the token is *)
(* not stored.                                                              *)
TearsIf(atStake) == IF atStake /\ work.obj.step = 1 THEN {"torn"} ELSE {}

CallFails ==
    /\ work.at \notin {"idle", "step"}
    /\ "call" \in FaultKinds \ happened
    /\ Cardinality(happened \cap AllFaults) < MaxFaults
    /\ happened' = happened \cup {"call"} \cup TearsIf(work.at = "token")
    /\ Again
    /\ UNCHANGED <<stored, current, machines, edits>>

(* The cluster is stored, the answer lost. *)
StoreLost ==
    /\ work.at = "store" /\ Admitted("worker")
    /\ "lost" \in FaultKinds \ happened
    /\ Cardinality(happened \cap AllFaults) < MaxFaults
    /\ happened' = happened \cup {"lost"} \cup TearsIf(TRUE)
    /\ Write(Stepped(work.obj))
    /\ Again
    /\ UNCHANGED <<token, addons, machines, edits>>

Forget ==
    /\ listed' = cluster
    /\ current' = {"informer"}
    /\ dirty' = Exists
    /\ cached' = -1 /\ health' = FALSE
    /\ work' = Idle /\ loops' = [l \in Loops |-> "idle"]

Restart ==
    /\ "restart" \in FaultKinds \ happened
    /\ Cardinality(happened \cap AllFaults) < MaxFaults
    /\ happened' = happened \cup {"restart"} \cup TearsIf(work.at = "token")
    /\ Forget
    /\ UNCHANGED <<stored, machines, edits>>

(* A step that needs the token dereferences nil; the process ends. *)
StepPanics ==
    /\ work.at = "step" /\ NoToken
    /\ Forget
    /\ UNCHANGED <<stored, machines, history>>

Work ==
    \/ Sync \/ Update \/ GetCredential \/ RunStep \/ StepPanics
    \/ StoreFailure \/ StoreCluster \/ StoreToken
    \/ LookToDelete \/ DeleteContent \/ Finalize \/ Remove

Next ==
    \/ \E kind \in Kinds : CreateCluster(kind)
    \/ CreateCredential \/ EditCluster \/ DeleteCluster \/ InstallAddon
    \/ Break \/ Repair
    \/ Deliver \/ Work \/ StepFails
    \/ \E l \in Loops : Look(l) \/ Put(l) \/ PutFails(l)
    \/ CallFails \/ StoreLost \/ Restart

Fairness ==
    /\ WF_vars(Deliver) /\ WF_vars(Work \/ StepFails)
    /\ \A l \in Loops : WF_vars(Look(l) \/ Put(l))

Spec == Init /\ [][Next]_vars
FairSpec == Spec /\ Fairness

------------------------------------------------------------------------------
(* Types of the variables. *)
TypeOK ==
    /\ cluster \in Cluster /\ listed \in Cluster
    /\ token \in {-1} \cup Tokens /\ installed \in Tokens
    /\ addons \in {"none", "stored", "late"}
    /\ current \subseteq Holders
    /\ dirty \in BOOLEAN /\ cached \in -1..MaxUid /\ health \in BOOLEAN
    /\ work \in [at : {"idle", "update", "credential", "step", "failed", "store", "token",
                       "look", "content", "finalize", "remove"},
                 obj : Cluster, token : Tokens]
    /\ loops \in [Loops -> {"idle", "look", "Running", "Failed"}]
    /\ alive \in {"healthy", "sick", "down"}
    /\ edits \in 0..MaxEdits /\ happened \subseteq FaultKinds \cup {"torn", "hijacked"}

(***************************************************************************)
(* The credential of a running baremetal cluster is the one its machines   *)
(* know, although cluster and credential are two objects stored one after  *)
(* the other and steps are run again from old copies, unless just between  *)
(* the two something failed (doInitializing, cluster_controller.go:401) or *)
(* the health loop of a former cluster of its name judged it unfinished.   *)
(***************************************************************************)
RunningHasCredential ==
    (cluster.kind = "baremetal" /\ cluster.phase \in {"Running", "Failed"}
        /\ happened \cap {"torn", "hijacked"} = {})
    => token = installed /\ token > 0

(***************************************************************************)
(* A cluster that is being deleted does not come back: no late result of a *)
(* health loop, of a step or of an update overwrites its phase.            *)
(***************************************************************************)
TerminatingIsFinal ==
    [][ (cluster.phase = "Terminating" /\ cluster'.uid = cluster.uid)
        => cluster'.phase \in {"Terminating", "Absent"} ]_cluster

(***************************************************************************)
(* A cluster is gone only after the add-ons the deleter knows are deleted  *)
(* (cluster_deleter.go:84), however often it is interrupted: all that were *)
(* stored before it listed them for the last time, by whichever cluster of *)
(* the name they were found.                                               *)
(***************************************************************************)
ContentGoesFirst == ~Exists => addons # "stored"

(***************************************************************************)
(* What is created gets somewhere: an imported cluster is judged, a        *)
(* baremetal one is built, as long as its machines work and its token is   *)
(* not lost.                                                               *)
(***************************************************************************)
InitializingEnds ==
    cluster.phase = "Initializing" ~>
        \/ cluster.phase # "Initializing"
        \/ alive # "healthy" \/ "torn" \in happened

(***************************************************************************)
(* The phase follows the cluster's health, over restarts, conflicting      *)
(* updates and the reuse of its name, as long as it can be connected to.   *)
(***************************************************************************)
Judged == IF alive = "healthy" /\ token # -1 THEN "Running" ELSE "Failed"

PhaseFollowsHealth ==
    \A phase \in {"Running", "Failed"} :
        (cluster.phase \in {"Running", "Failed"} /\ Judged = phase) ~>
            \/ cluster.phase \notin {"Running", "Failed"} \/ Judged # phase
            \/ cluster.phase = phase
            \/ alive = "down"

(***************************************************************************)
(* The deletion of a cluster completes (cluster_deleter.go:86), and so     *)
(* does what its users wait for: both ends of its life, over restarts,     *)
(* conflicts and failing calls.                                            *)
(***************************************************************************)
DeletionCompletes == cluster.phase = "Terminating" ~> cluster.phase # "Terminating"

Completes == InitializingEnds /\ DeletionCompletes

(***************************************************************************)
(* What does not hold.  A cluster nobody can connect to is never marked    *)
(* Failed: validation of the status update connects to it                  *)
(* (registry/cluster/validation.go:81).                                    *)
(***************************************************************************)
DownIsReported ==
    (cluster.phase = "Running" /\ alive = "down") ~> (cluster.phase # "Running" \/ alive # "down")

(* A token that is lost between two updates is made again: instead the      *)
(* process ends at the next step, whenever it is started.                   *)
TornIsMended == cluster.phase = "Initializing" ~> cluster.phase # "Initializing"

(* With a cluster all its add-ons go: one that is stored after they were    *)
(* listed stays.                                                            *)
NothingStays == [][Exists /\ ~Exists' => addons' = "none"]_vars

(* One health loop for a cluster: such a loop goes on beside the new one.   *)
OneLoop == Cardinality({l \in Loops : loops[l] # "idle"}) <= 1
==============================================================================
