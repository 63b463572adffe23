------------------------- MODULE NamespaceController -------------------------
(***************************************************************************)
(* The namespace controller of tke-business-controller: it counts a new    *)
(* namespace into its project's ledger, creates it with its quota on the   *)
(* business cluster, watches its health there, and takes it down again.    *)
(* Beside it: users, failures, and other people's changes to the cluster.  *)
(*                                                                         *)
(* As in ProjectController a worker's API calls are separate steps and a   *)
(* write is admitted and then committed.  What it does to one object of    *)
(* the business cluster (get, then create or update) is one step: a loser  *)
(* of that race gets AlreadyExists or Conflict and reports the failure it  *)
(* also reports when it comes a moment later.                              *)
(*                                                                         *)
(* finalizeNamespace puts to namespaces/<name>/finalize, which the API     *)
(* server does not serve.  It takes the 404 for "removed already" and goes *)
(* on with an empty object, whose deletion the client refuses: the step    *)
(* after deleteAllContent always ends the sync with an error.              *)
(***************************************************************************)
EXTENDS BusinessAPI

CONSTANTS
    Targets,        \* namespaces of the business clusters
    TargetOf,       \* spec.namespace, immutable; a project has one name for it
    NsQuotas,       \* the quotas users ask for
    ProjectQuotas,  \* the quotas the projects have
    Usages,         \* what the clusters report as used of a quota
    Namesakes,      \* the namespaces that are named like their project
    MaxUid,         \* how often a name is created
    MaxEdits,       \* how many updates users admit
    MaxFaults,      \* how many faults happen
    FaultKinds,     \* which: some of AllFaults
    MaxLoops,       \* health check loops of one namespace at a time
    Users           \* users with a request in flight at the same time

AllFaults == {"call", "lost", "restart", "cluster", "removed", "purge"}

ASSUME NamespaceAssumption ==
    /\ TargetOf \in [Namespaces -> Targets]
    /\ \A m, n \in Namespaces : ProjectOf[m] = ProjectOf[n] /\ TargetOf[m] = TargetOf[n] => m = n
    /\ MaxUid \in Nat /\ MaxEdits \in Nat /\ MaxFaults \in Nat /\ MaxLoops \in Nat \ {0}
    /\ FaultKinds \subseteq AllFaults
    /\ \A q \in NsQuotas \cup ProjectQuotas \cup Usages : IsLedger(q)
    /\ Namesakes \subseteq Namespaces

VARIABLES
    onCluster,   \* the namespaces of the business clusters
    nsListed,    \* the informer's copy of every namespace, as it was delivered
    nsSeen,      \* the phase of that copy, which the worker overwrites in place
    nsDirty,     \* keys in the work queue
    nsCached,    \* of namespaceCache's state the uid, 0 for nil, and the quota
    nsSync,      \* what the worker that holds key n is doing
    health,      \* namespaceHealth: the keys whose health is watched
    loops,       \* the goroutines that watch it
    requests,    \* the admitted writes of the users, at most one each
    edits,       \* updates admitted for users so far
    faults       \* faults so far

workerVars == <<nsListed, nsSeen, nsDirty, nsCached, nsSync>>
healthVars == <<health, loops>>
userVars == <<requests, edits>>
nsVars == <<onCluster, workerVars, healthVars, requests>>
vars == <<projects, namespaces, onCluster, workerVars, healthVars, userVars, faults>>

------------------------------------------------------------------------------
(* A namespace of a business cluster: `owner' is its project label, NoProject *)
(* if it has none, `quota' the singleton of its ResourceQuota or empty.       *)

IsOnCluster(o) ==
    /\ o \in [exists : BOOLEAN, owner : Projects \cup {NoProject}, quota : {o.quota}]
    /\ \A q \in o.quota : IsLedger(q)

Missing == [exists |-> FALSE, owner |-> NoProject, quota |-> {}]

Unlabelled == [exists |-> TRUE, owner |-> NoProject, quota |-> {}]

NoWrite == [kind |-> "none", base |-> NoObject(0), new |-> NoObject(0)]

NoState == [uid |-> 0, hard |-> Nothing]

Idle == [pc |-> "idle", obj |-> NoNamespace(0), state |-> NoState, next |-> "Available",
         write |-> NoWrite]

Off == [pc |-> "off", obj |-> NoNamespace(0)]

Slots == 1..MaxLoops

IsWrite(w) ==
    /\ w \in [kind : {"none", "count", "adjust", "uncount"}, base : {w.base}, new : {w.new}]
    /\ IsProject(w.base) /\ IsProject(w.new)

IsState(c) == c \in [uid : Nat, hard : {c.hard}] /\ IsLedger(c.hard)

IsSync(s) ==
    /\ s \in [pc : {"idle", "count", "commit", "provision", "quota", "report", "store", "get",
                    "uncount", "unprovision", "finalize"},
              obj : {s.obj}, state : {s.state}, next : {"Available", "Failed"}, write : {s.write}]
    /\ IsNamespace(s.obj) /\ IsState(s.state) /\ IsWrite(s.write)

IsLoop(l) == l \in [pc : {"off", "wait", "act"}, obj : {l.obj}] /\ IsNamespace(l.obj)

IsRequest(r) ==
    /\ r \in [user : Users, target : Namespaces, base : {r.base}, new : {r.new}]
    /\ IsNamespace(r.base) /\ IsNamespace(r.new)

Phases == {"Absent", "Pending", "Available", "Failed", "Terminating"}

TypeOK ==
    /\ DOMAIN projects = Projects /\ \A p \in Projects : IsProject(projects[p])
    /\ DOMAIN namespaces = Namespaces /\ \A n \in Namespaces : IsNamespace(namespaces[n])
    /\ DOMAIN onCluster = Targets /\ \A t \in Targets : IsOnCluster(onCluster[t])
    /\ DOMAIN nsListed = Namespaces /\ \A n \in Namespaces : IsNamespace(nsListed[n])
    /\ nsSeen \in [Namespaces -> Phases]
    /\ nsDirty \subseteq Namespaces
    /\ DOMAIN nsCached = Namespaces /\ \A n \in Namespaces : IsState(nsCached[n])
    /\ DOMAIN nsSync = Namespaces /\ \A n \in Namespaces : IsSync(nsSync[n])
    /\ health \subseteq Namespaces
    /\ DOMAIN loops = Namespaces
    /\ \A n \in Namespaces : DOMAIN loops[n] = Slots /\ \A i \in Slots : IsLoop(loops[n][i])
    /\ \A r \in requests : IsRequest(r)
    /\ edits \in Nat /\ faults \in Nat

(* No namespace yet; those of the clusters were perhaps made by others.    *)
StartsEmpty ==
    /\ namespaces = [n \in Namespaces |-> NoNamespace(0)]
    /\ onCluster \in [Targets -> {Missing, Unlabelled}]
    /\ nsListed = namespaces
    /\ nsSeen = [n \in Namespaces |-> "Absent"]
    /\ nsDirty = {}
    /\ nsCached = [n \in Namespaces |-> NoState]
    /\ nsSync = [n \in Namespaces |-> Idle]
    /\ health = {}
    /\ loops = [n \in Namespaces |-> [i \in Slots |-> Off]]
    /\ requests = {}
    /\ edits = 0
    /\ faults = 0

(* The projects exist, with a quota each, and have handed out nothing.     *)
Init ==
    /\ projects \in [Projects -> {[NoObject(1) EXCEPT !.phase = "Active", !.fin = TRUE,
                                      !.bound = Clusters, !.hard = q] : q \in ProjectQuotas}]
    /\ StartsEmpty

------------------------------------------------------------------------------
(* The end of a sync and its steps.                                        *)

Becomes(n, s) == nsSync' = [nsSync EXCEPT ![n] = s]

Done(n) == Becomes(n, Idle)

(* Mutant: a sync that failed is forgotten.                               *)
MutForget(n) == Done(n) /\ UNCHANGED nsDirty

Requeue(n) == Done(n) /\ nsDirty' = nsDirty \cup {n}

Step(n, pc) == Becomes(n, [nsSync[n] EXCEPT !.pc = pc])

Submit(n, kind, new) ==
    Becomes(n, [nsSync[n] EXCEPT !.pc = "commit",
                                 !.write = [kind |-> kind, base |-> projects[ProjectOf[n]], new |-> new]])

storeUnchanged == UNCHANGED <<projects, namespaces, userVars, faults>>
listerUnchanged == UNCHANGED <<nsListed, nsSeen>>

------------------------------------------------------------------------------
(* The informer and the start of a sync.                                   *)

Deliver(n) ==
    /\ nsListed[n] # namespaces[n]
    /\ nsListed' = [nsListed EXCEPT ![n] = namespaces[n]]
    /\ nsSeen' = [nsSeen EXCEPT ![n] = namespaces[n].phase]
    /\ nsDirty' = nsDirty \cup {n}
    /\ UNCHANGED <<onCluster, nsCached, nsSync, healthVars>> /\ storeUnchanged

Take(n, phases) ==
    /\ n \in nsDirty
    /\ nsSync[n].pc = "idle"
    /\ nsSeen[n] \in phases
    /\ nsDirty' = nsDirty \ {n}
    /\ listerUnchanged /\ UNCHANGED onCluster /\ storeUnchanged

(* processDelete: the cache entry and the health entry go.                 *)
Forgotten(n) ==
    /\ nsCached' = [nsCached EXCEPT ![n] = NoState]
    /\ health' = health \ {n}

State(obj) == [uid |-> obj.uid, hard |-> obj.hard]

NewIncarnation(n) == nsCached[n].uid \notin {0, nsListed[n].uid}

SyncGone(n) ==
    /\ Take(n, {"Absent"})
    /\ Forgotten(n)
    /\ UNCHANGED <<nsSync, loops>>

SyncTerminating(n) ==
    /\ Take(n, {"Terminating"})
    /\ Forgotten(n)
    /\ Becomes(n, [nsSync[n] EXCEPT !.pc = "get"])
    /\ UNCHANGED loops

(* The worker keeps the state it found, also if the entry is dropped.      *)
SyncPending(n) ==
    /\ Take(n, {"Pending"})
    /\ IF NewIncarnation(n) THEN Forgotten(n) ELSE UNCHANGED <<nsCached, health>>
    /\ Becomes(n, [nsSync[n] EXCEPT !.pc = "count", !.obj = nsListed[n],
                                 !.state = nsCached[n]])
    /\ UNCHANGED loops

(* Mutant: the first sync of a namespace does not start a loop.           *)
MutWatched(n) == n \in health \/ nsCached[n] = NoState

(* startNamespaceHealthCheck, unless the key is watched already.           *)
Watched(n) == n \in health /\ ~NewIncarnation(n)

SyncSettled(n) ==
    /\ Take(n, {"Available", "Failed"})
    /\ nsCached' = [nsCached EXCEPT ![n] = State(nsListed[n])]
    /\ IF Watched(n)
       THEN UNCHANGED healthVars
       ELSE /\ health' = health \cup {n}
            /\ \E i \in Slots :
                  /\ loops[n][i].pc = "off"
                  /\ \A j \in 1..(i - 1) : loops[n][j].pc # "off"
                  /\ loops' = [loops EXCEPT ![n][i] = [Off EXCEPT !.pc = "wait"]]
    /\ UNCHANGED nsSync

------------------------------------------------------------------------------
(* A pending namespace: calculateProjectUsed, createNamespaceOnCluster,    *)
(* createResourceQuotaOnCluster, persistUpdate.                            *)

(* Mutant: the ledger is left for later.                                  *)
MutCountNamesOnly(n, project) == [project EXCEPT !.nss = @ \cup {n}]

Counted(n, project) ==
    [project EXCEPT !.nss = @ \cup {n}, !.used = AddClusterHardToUsed(@, nsSync[n].obj.hard)]

(* The test whether n is counted looks for the name of the project among   *)
(* the names of its namespaces: it fails, unless one has this very name.   *)
Misled(n) == \E m \in Namesakes : ProjectOf[m] = ProjectOf[n] /\ m \in projects[ProjectOf[n]].nss

(* Then nothing is added, but the quota of the last state, if there is one *)
(* and it had another quota, is replaced by the present one.               *)
Differs(n) == nsSync[n].state.uid # 0 /\ nsSync[n].state.hard # nsSync[n].obj.hard

Adjusted(n, project) ==
    [project EXCEPT !.used = AddClusterHardToUsed(
                                 SubClusterHardFromUsed(@, nsSync[n].state.hard), nsSync[n].obj.hard)]

SubmitIfAdmitted(n, kind, new) ==
    IF Admits(ProjectOf[n], new, projects[ProjectOf[n]])
    THEN Submit(n, kind, new) /\ UNCHANGED nsDirty
    ELSE Requeue(n)

CountNamespace(n) ==
    /\ nsSync[n].pc = "count"
    /\ LET project == projects[ProjectOf[n]]
       IN  \/ ~Present(project) /\ Requeue(n)
           \/ /\ Present(project) /\ ~Misled(n)
              /\ SubmitIfAdmitted(n, "count", Counted(n, project))
           \/ /\ Present(project) /\ Misled(n) /\ Differs(n)
              /\ SubmitIfAdmitted(n, "adjust", Adjusted(n, project))
           \/ /\ Present(project) /\ Misled(n) /\ ~Differs(n)
              /\ Step(n, "provision") /\ UNCHANGED nsDirty
    /\ listerUnchanged /\ UNCHANGED <<onCluster, nsCached, healthVars>> /\ storeUnchanged

(* Mutant: whoever comes last takes the namespace.                        *)
MutTaken(n) == FALSE

(* The namespace on the cluster is created, adopted if it has no label, or *)
(* refused if it belongs to another project.                               *)
Taken(n) ==
    LET there == onCluster[TargetOf[n]]
    IN  there.exists /\ there.owner \notin {NoProject, ProjectOf[n]}

Provision(n) ==
    /\ nsSync[n].pc = "provision"
    /\ IF Taken(n)
       THEN /\ Becomes(n, [nsSync[n] EXCEPT !.pc = "report", !.next = "Failed"])
            /\ UNCHANGED onCluster
       ELSE /\ Step(n, "quota")
            /\ onCluster' = [onCluster EXCEPT ![TargetOf[n]].exists = TRUE,
                                              ![TargetOf[n]].owner = ProjectOf[n]]
    /\ listerUnchanged /\ UNCHANGED <<nsDirty, nsCached, healthVars>> /\ storeUnchanged

(* Mutant: a ResourceQuota that is already there is left as it is.        *)
MutPushed(n) ==
    IF onCluster[TargetOf[n]].quota = {} THEN {nsSync[n].obj.hard} ELSE onCluster[TargetOf[n]].quota

Pushed(n) == {nsSync[n].obj.hard}

(* Creating a quota in a namespace that is gone again fails.               *)
PushQuota(n) ==
    /\ nsSync[n].pc = "quota"
    /\ IF onCluster[TargetOf[n]].exists
       THEN /\ onCluster' = [onCluster EXCEPT ![TargetOf[n]].quota = Pushed(n)]
            /\ Becomes(n, [nsSync[n] EXCEPT !.pc = "report", !.next = "Available"])
       ELSE /\ Becomes(n, [nsSync[n] EXCEPT !.pc = "report", !.next = "Failed"])
            /\ UNCHANGED onCluster
    /\ listerUnchanged /\ UNCHANGED <<nsDirty, nsCached, healthVars>> /\ storeUnchanged

(* The worker writes the new phase into the object it got from the lister, *)
(* which is the lister's own as long as the watch has not replaced it, and *)
(* has the status update admitted.                                         *)
Reported(n) == [nsSync[n].obj EXCEPT !.phase = nsSync[n].next]

ReportPhase(n) ==
    /\ nsSync[n].pc = "report"
    /\ nsSeen' = IF nsListed[n] = nsSync[n].obj
                 THEN [nsSeen EXCEPT ![n] = nsSync[n].next] ELSE nsSeen
    /\ IF ValidateNamespace(n, Reported(n), namespaces[n])
       THEN Step(n, "store") /\ UNCHANGED nsDirty
       ELSE Requeue(n)
    /\ UNCHANGED <<onCluster, nsListed, nsCached, healthVars>> /\ storeUnchanged

(* Mutant: the resourceVersion is not compared.                           *)
MutFresh(n, obj) == Present(namespaces[n]) = Present(obj)

Fresh(n, obj) == namespaces[n] = obj

(* Stored, or gone (which persistUpdate takes for success), or changed.    *)
StorePhase(n) ==
    /\ nsSync[n].pc = "store"
    /\ IF Fresh(n, nsSync[n].obj)
       THEN namespaces' = [namespaces EXCEPT ![n] = Reported(n)]
       ELSE UNCHANGED namespaces
    /\ IF Fresh(n, nsSync[n].obj) \/ ~Present(namespaces[n])
       THEN Done(n) /\ nsCached' = [nsCached EXCEPT ![n] = State(nsSync[n].obj)] /\ UNCHANGED nsDirty
       ELSE Requeue(n) /\ UNCHANGED nsCached
    /\ listerUnchanged /\ UNCHANGED <<projects, onCluster, healthVars, userVars, faults>>

------------------------------------------------------------------------------
(* The deleter.                                                            *)

GetDoomed(n) ==
    /\ nsSync[n].pc = "get"
    /\ IF namespaces[n].phase # "Terminating" THEN Done(n)
       ELSE Becomes(n, [nsSync[n] EXCEPT !.pc = "uncount", !.obj = namespaces[n]])
    /\ listerUnchanged /\ UNCHANGED <<onCluster, nsDirty, nsCached, healthVars>> /\ storeUnchanged

(* Mutant: the quota is given back, the name stays.                       *)
MutKeepName(n, project) ==
    [project EXCEPT !.used = SubClusterHardFromUsed(@, nsSync[n].obj.hard)]

(* recalculateProjectUsed.  deleteAllContent goes on after an error.       *)
Uncounted(n, project) ==
    [project EXCEPT !.nss = @ \ {n}, !.used = SubClusterHardFromUsed(@, nsSync[n].obj.hard)]

UncountNamespace(n) ==
    /\ nsSync[n].pc = "uncount"
    /\ LET project == projects[ProjectOf[n]]
           new     == Uncounted(n, project)
       IN  IF Present(project) /\ n \in project.nss /\ Admits(ProjectOf[n], new, project)
           THEN Submit(n, "uncount", new)
           ELSE Step(n, "unprovision")
    /\ listerUnchanged /\ UNCHANGED <<onCluster, nsDirty, nsCached, healthVars>> /\ storeUnchanged

(* deleteNamespaceOnCluster: only what bears the project's label.          *)
Unprovision(n) ==
    /\ nsSync[n].pc = "unprovision"
    /\ onCluster' = IF onCluster[TargetOf[n]].exists /\ onCluster[TargetOf[n]].owner = ProjectOf[n]
                    THEN [onCluster EXCEPT ![TargetOf[n]] = Missing] ELSE onCluster
    /\ Step(n, "finalize")
    /\ listerUnchanged /\ UNCHANGED <<nsDirty, nsCached, healthVars>> /\ storeUnchanged

(* finalizeNamespace and deleteNamespace, or the errors collected before:  *)
(* an error either way.                                                    *)
FinalizeNamespace(n) ==
    /\ nsSync[n].pc = "finalize"
    /\ Requeue(n)
    /\ listerUnchanged /\ UNCHANGED <<onCluster, nsCached, healthVars>> /\ storeUnchanged

------------------------------------------------------------------------------
(* The commit of a worker's write of the project.  persistUpdateProject    *)
(* takes a project that is gone for success; the deleter goes on in any    *)
(* case.                                                                   *)

Unchanged(n) == projects[ProjectOf[n]] = nsSync[n].write.base

Store(n) == projects' = [projects EXCEPT ![ProjectOf[n]] = nsSync[n].write.new]

Proceed(n, pc) == Becomes(n, [nsSync[n] EXCEPT !.pc = pc, !.write = NoWrite])

Commit(n) ==
    /\ nsSync[n].pc = "commit"
    /\ IF Unchanged(n) THEN Store(n) ELSE UNCHANGED projects
    /\ \/ nsSync[n].write.kind = "uncount" /\ Proceed(n, "unprovision") /\ UNCHANGED nsDirty
       \/ /\ nsSync[n].write.kind \in {"count", "adjust"}
          /\ Unchanged(n) \/ ~Present(projects[ProjectOf[n]])
          /\ Proceed(n, "provision") /\ UNCHANGED nsDirty
       \/ /\ nsSync[n].write.kind \in {"count", "adjust"}
          /\ ~Unchanged(n) /\ Present(projects[ProjectOf[n]])
          /\ Requeue(n)
    /\ listerUnchanged /\ UNCHANGED <<namespaces, onCluster, nsCached, healthVars, userVars, faults>>

------------------------------------------------------------------------------
(* watchNamespaceHealth: every minute a loop looks whether it is still     *)
(* wanted and reads the namespace, then looks at the cluster and stores    *)
(* what it found.                                                          *)

Tick(n, i) ==
    /\ loops[n][i].pc = "wait"
    /\ loops' = [loops EXCEPT ![n][i] = IF n \in health THEN [pc |-> "act", obj |-> namespaces[n]]
                                                       ELSE Off]
    /\ UNCHANGED <<onCluster, workerVars, health>> /\ storeUnchanged

SoundOnCluster(n) ==
    /\ onCluster[TargetOf[n]].exists
    /\ onCluster[TargetOf[n]].owner = ProjectOf[n]
    /\ onCluster[TargetOf[n]].quota # {}

(* What a look at the cluster may make of the status.                      *)
Judged(n, obj) ==
    IF SoundOnCluster(n)
    THEN {[obj EXCEPT !.phase = "Available", !.used = used] : used \in Usages}
    ELSE {[obj EXCEPT !.phase = "Failed"]}

CheckHealth(n, i) ==
    /\ loops[n][i].pc = "act"
    /\ LET obj == loops[n][i].obj
       IN  IF obj.phase \in {"Available", "Failed"}
           THEN /\ \E new \in Judged(n, obj) :
                     namespaces' = IF Fresh(n, obj) /\ ValidateNamespace(n, new, obj)
                                   THEN [namespaces EXCEPT ![n] = new] ELSE namespaces
                /\ loops' = [loops EXCEPT ![n][i] = [Off EXCEPT !.pc = "wait"]]
                /\ UNCHANGED health
           ELSE /\ health' = health \ {n}
                /\ loops' = [loops EXCEPT ![n][i] = Off]
                /\ UNCHANGED namespaces
    /\ UNCHANGED <<projects, onCluster, workerVars, userVars, faults>>

------------------------------------------------------------------------------
(* Faults.                                                                 *)

Fault(kind) == kind \in FaultKinds /\ faults < MaxFaults /\ faults' = faults + 1

(* A call of the worker to the API server fails.                           *)
CallFails(n) ==
    /\ Fault("call")
    /\ \/ /\ nsSync[n].pc \in {"count", "commit", "store", "get"}
          /\ nsSync[n].write.kind # "uncount"
          /\ Requeue(n)
       \/ /\ nsSync[n].pc = "uncount" \/ nsSync[n].write.kind = "uncount"
          /\ Proceed(n, "unprovision") /\ UNCHANGED nsDirty
    /\ listerUnchanged /\ UNCHANGED <<projects, namespaces, onCluster, nsCached, healthVars, userVars>>

(* A write is stored and the answer is lost; the retry finds the object    *)
(* changed.                                                                *)
CommitLost(n) ==
    /\ Fault("lost")
    /\ \/ nsSync[n].pc = "commit" /\ Unchanged(n) /\ Store(n) /\ UNCHANGED namespaces
       \/ /\ nsSync[n].pc = "store" /\ Fresh(n, nsSync[n].obj)
          /\ namespaces' = [namespaces EXCEPT ![n] = Reported(n)] /\ UNCHANGED projects
    /\ UNCHANGED <<onCluster, workerVars, healthVars, userVars>>

(* The business cluster cannot be reached.                                 *)
ClusterFails(n) ==
    /\ Fault("cluster")
    /\ \/ /\ nsSync[n].pc \in {"provision", "quota"}
          /\ Becomes(n, [nsSync[n] EXCEPT !.pc = "report", !.next = "Failed"])
       \/ nsSync[n].pc = "unprovision" /\ Step(n, "finalize")
    /\ listerUnchanged
    /\ UNCHANGED <<projects, namespaces, onCluster, nsDirty, nsCached, healthVars, userVars>>

(* Somebody removes a namespace of the business cluster.                   *)
Removed(t) ==
    /\ Fault("removed")
    /\ onCluster[t].exists
    /\ onCluster' = [onCluster EXCEPT ![t] = Missing]
    /\ UNCHANGED <<projects, namespaces, workerVars, healthVars, userVars>>

(* The deleter of a project, or an administrator, removes its namespaces:  *)
(* DeleteCollection takes them out of the store, past REST.Delete and the  *)
(* namespace controller's deleter.                                         *)
Purged(p) ==
    /\ Fault("purge")
    /\ NamespacesOf(p) # {}
    /\ namespaces' = [n \in Namespaces |->
                        IF ProjectOf[n] = p THEN NoNamespace(namespaces[n].uid) ELSE namespaces[n]]
    /\ UNCHANGED <<projects, onCluster, workerVars, healthVars, userVars>>

(* The controller stops; its successor lists every namespace.              *)
Restart ==
    /\ Fault("restart")
    /\ nsListed' = namespaces
    /\ nsSeen' = [n \in Namespaces |-> namespaces[n].phase]
    /\ nsDirty' = {n \in Namespaces : Present(namespaces[n])}
    /\ nsCached' = [n \in Namespaces |-> NoState]
    /\ nsSync' = [n \in Namespaces |-> Idle]
    /\ health' = {}
    /\ loops' = [n \in Namespaces |-> [i \in Slots |-> Off]]
    /\ UNCHANGED <<projects, namespaces, onCluster, userVars>>

------------------------------------------------------------------------------
(* Users.                                                                  *)

Free(u) == \A r \in requests : r.user # u

NsCreate(u, n) ==
    /\ Free(u)
    /\ namespaces[n].uid < MaxUid
    /\ ~Present(namespaces[n])
    /\ \E hard \in NsQuotas :
          /\ ValidateNamespace(n, NewNamespace(n, hard), namespaces[n])
          /\ requests' = requests \cup {[user |-> u, target |-> n, base |-> namespaces[n],
                                         new |-> NewNamespace(n, hard)]}
    /\ UNCHANGED <<projects, namespaces, onCluster, workerVars, healthVars, edits, faults>>

NsUpdate(u, n) ==
    /\ Free(u)
    /\ edits < MaxEdits
    /\ Present(namespaces[n])
    /\ \E hard \in NsQuotas \ {namespaces[n].hard} :
          LET new == [namespaces[n] EXCEPT !.hard = hard]
          IN  /\ ValidateNamespace(n, new, namespaces[n])
              /\ requests' = requests \cup {[user |-> u, target |-> n, base |-> namespaces[n],
                                             new |-> new]}
    /\ edits' = edits + 1
    /\ UNCHANGED <<projects, namespaces, onCluster, workerVars, healthVars, faults>>

NsCommit(u) ==
    /\ \E r \in requests :
          /\ r.user = u
          /\ requests' = requests \ {r}
          /\ namespaces' = IF Fresh(r.target, r.base)
                           THEN [namespaces EXCEPT ![r.target] = r.new] ELSE namespaces
    /\ UNCHANGED <<projects, onCluster, workerVars, healthVars, edits, faults>>

(* REST.Delete of one namespace; a later request is refused, for the       *)
(* finalizer stays.                                                        *)
NsDelete(n) ==
    /\ namespaces[n].phase \in {"Pending", "Available", "Failed"}
    /\ namespaces' = [namespaces EXCEPT ![n].phase = "Terminating"]
    /\ UNCHANGED <<projects, onCluster, workerVars, healthVars, userVars, faults>>

------------------------------------------------------------------------------
Work(n) ==
    \/ SyncGone(n) \/ SyncTerminating(n) \/ SyncPending(n) \/ SyncSettled(n)
    \/ CountNamespace(n) \/ Commit(n) \/ Provision(n) \/ PushQuota(n)
    \/ ReportPhase(n) \/ StorePhase(n)
    \/ GetDoomed(n) \/ UncountNamespace(n) \/ Unprovision(n) \/ FinalizeNamespace(n)

Watch(n) == \E i \in Slots : Tick(n, i) \/ CheckHealth(n, i)

Failure ==
    \/ Restart
    \/ \E n \in Namespaces : CallFails(n) \/ CommitLost(n) \/ ClusterFails(n)
    \/ \E t \in Targets : Removed(t)
    \/ \E p \in Projects : Purged(p)

Environment ==
    \E n \in Namespaces : NsDelete(n) \/ \E u \in Users : NsCreate(u, n) \/ NsUpdate(u, n)

Next ==
    \/ \E n \in Namespaces : Deliver(n) \/ Work(n) \/ Watch(n)
    \/ \E u \in Users : NsCommit(u)
    \/ Failure
    \/ Environment

Spec == Init /\ [][Next]_vars

(* The watch, the workers, the health loops and the server keep working.   *)
Fairness ==
    /\ \A n \in Namespaces : WF_vars(Deliver(n)) /\ WF_vars(Work(n))
    /\ \A n \in Namespaces : \A i \in Slots : WF_vars(Tick(n, i) \/ CheckHealth(n, i))
    /\ \A u \in Users : WF_vars(NsCommit(u))

FairSpec == Spec /\ Fairness

------------------------------------------------------------------------------
(* Properties.                                                             *)

(* No namespace of project p can mislead the controller by its name.       *)
Unmistaken(p) == \A m \in Namesakes : ProjectOf[m] # p

(* A namespace that was provisioned is in its project's ledger: it is      *)
(* counted before it is created on the cluster, and neither the health     *)
(* loop nor a worker with an older copy brings it back once it was given   *)
(* up.  (Beside a namespace that is named like the project no other is     *)
(* counted.)                                                               *)
ProvisionedIsCounted ==
    \A n \in Namespaces :
        namespaces[n].phase \in {"Available", "Failed"} /\ Unmistaken(ProjectOf[n])
            => n \in projects[ProjectOf[n]].nss

(* Two projects never both have the same namespace of a cluster: whoever   *)
(* labels it first keeps it until it gives it up.  (Unless others remove   *)
(* it there: then it is free before the loser's health check notices.)     *)
OneProjectPerTarget ==
    "removed" \notin FaultKinds =>
        \A m, n \in Namespaces :
            /\ TargetOf[m] = TargetOf[n]
            /\ namespaces[m].phase = "Available"
            /\ namespaces[n].phase = "Available"
            => ProjectOf[m] = ProjectOf[n]

(* Nobody else's worker may come to push its quota after n has labelled    *)
(* the namespace of the cluster.                                           *)
Undisturbed(n) ==
    "removed" \notin FaultKinds \/ \A m \in Namespaces : TargetOf[m] = TargetOf[n] => m = n

(* A namespace becomes available with the quota it has at that moment,     *)
(* also when it was edited while it was being created.  (Who pushes a      *)
(* quota does not look at the label any more: if the namespace was removed *)
(* from the cluster meanwhile and labelled by another project, the quota   *)
(* there is replaced.)                                                     *)
ProvisionedAsAsked ==
    [][\A n \in Namespaces :
            /\ Undisturbed(n)
            /\ namespaces[n].phase = "Pending"
            /\ namespaces'[n].phase = "Available"
            /\ SoundOnCluster(n)
            => onCluster[TargetOf[n]].quota = {namespaces'[n].hard}]_vars

(* A pending namespace is eventually provisioned, has failed or is         *)
(* deleted.                                                                *)
PendingEnds ==
    \A n \in Namespaces :
        namespaces[n].phase = "Pending" ~> namespaces[n].phase # "Pending"

(* More of the quota was seen in use than there is of it: the cluster had  *)
(* something in the namespace when it was adopted, or the quota was        *)
(* lowered, which the cluster is not told.                                 *)
Overdrawn(n) == ~ValidateUpdateResource(namespaces[n].hard, namespaces[n].used)

(* An available namespace that is gone from its cluster is eventually      *)
(* noticed, also by a controller that has just started, as long as nobody  *)
(* edits it and its quota is not overdrawn.  (An edit makes the worker's   *)
(* status write fail and repeat; a health loop that read the namespace     *)
(* while it was pending then takes away the key of its successor.  Over an *)
(* overdrawn quota no status is admitted, whatever it says.)               *)
FailureNoticed ==
    \A n \in Namespaces :
        edits = 0 /\ namespaces[n].phase = "Available" /\ ~onCluster[TargetOf[n]].exists
            ~> (\/ edits > 0 \/ Overdrawn(n)
                \/ namespaces[n].phase # "Available" \/ onCluster[TargetOf[n]].exists)

(* A deleted namespace is eventually out of the ledger and off the         *)
(* cluster, and stays so, as long as nobody edits it.  (What is given back *)
(* is the present quota; one that was raised since it was counted may be   *)
(* more than the ledger holds, and is refused.)                            *)
ContentRemoved ==
    \A n \in Namespaces :
        edits = 0 /\ namespaces[n].phase = "Terminating"
            ~> (\/ edits > 0
                \/ [](/\ n \notin projects[ProjectOf[n]].nss
                      /\ onCluster[TargetOf[n]].owner # ProjectOf[n]))

(* A deleted namespace is eventually gone: the deleter is called until it  *)
(* succeeds.                                                               *)
NsDeletionCompletes ==
    \A n \in Namespaces : namespaces[n].phase = "Terminating" ~> ~Present(namespaces[n])

(* So is every namespace that is lost.                                     *)
OverdrawnIsNoticed ==
    \A n \in Namespaces :
        edits = 0 /\ namespaces[n].phase = "Available" /\ ~onCluster[TargetOf[n]].exists
            ~> (\/ edits > 0
                \/ namespaces[n].phase # "Available" \/ onCluster[TargetOf[n]].exists)

(* The quota on the cluster is eventually that of the namespace.           *)
QuotaEnforced ==
    \A n \in Namespaces :
        namespaces[n].phase = "Available"
            ~> (namespaces[n].phase # "Available"
                    \/ onCluster[TargetOf[n]].quota = {namespaces[n].hard})
==============================================================================
