-------------------------- MODULE ProjectController --------------------------
(***************************************************************************)
(* The project controller of tke-business-controller against the store of  *)
(* BusinessAPI: its informer cache, its work queue, its workers (counting  *)
(* a project into its parent's ledger, and deleting a project with what it *)
(* holds), users who create, edit, lock and delete projects, responses     *)
(* that get lost, and restarts.                                            *)
(*                                                                         *)
(* A worker runs `sync[p]' for one project at a time.  Its API calls are   *)
(* separate steps, and a write is two: the server reads other projects to  *)
(* validate it (admission), then stores it if the object is unchanged      *)
(* (commit).  A worker's GET is joined to the admission of the write it    *)
(* computes from it: a change between the two is reported as the same      *)
(* conflict as one between admission and commit.                           *)
(***************************************************************************)
EXTENDS BusinessAPI

CONSTANTS
    Specs,       \* the specs users ask for: records [bound, hard]
    MaxUid,      \* how often a name is created
    MaxEdits,    \* how many updates users admit
    MaxFaults,   \* how many calls fail, responses get lost and controllers restart
    Users,       \* users with a request in flight at the same time
    Deletable,   \* the projects users delete
    Locking,     \* whether users lock and unlock projects
    Workers      \* concurrentProjectSyncs

ASSUME BoundAssumption ==
    /\ MaxUid \in Nat /\ MaxEdits \in Nat /\ MaxFaults \in Nat
    /\ Workers \in Nat \ {0}
    /\ Locking \in BOOLEAN
    /\ Deletable \subseteq Projects
    /\ \A spec \in Specs :
          /\ spec \in [bound : SUBSET Clusters, hard : {spec.hard}]
          /\ IsLedger(spec.hard)

VARIABLES
    listed,   \* the informer's copy of every project
    dirty,    \* keys in the work queue
    cached,   \* projectCache: the state last processed, phase "Absent" for nil
    sync,     \* what the worker that holds key p is doing
    user,     \* the admitted write of every user
    edits,    \* updates admitted for users so far
    faults    \* failed calls, lost responses and restarts so far

controllerVars == <<listed, dirty, cached, sync>>
vars == <<projects, namespaces, controllerVars, user, edits, faults>>

------------------------------------------------------------------------------
(* A pending write: `base' is the object it was computed from, `new' what  *)
(* it stores.  `kind' names the call the worker made.                      *)

IsWrite(w) ==
    /\ w \in [kind : {"none", "count", "uncount", "finalize", "create", "update"},
             target : Projects \cup {NoProject}, base : {w.base}, new : {w.new}]
    /\ IsProject(w.base) /\ IsProject(w.new)

NoWrite == [kind |-> "none", target |-> NoProject, base |-> NoObject(0), new |-> NoObject(0)]

Idle == [pc |-> "idle", obj |-> NoObject(0), prev |-> NoObject(0),
         todo |-> {}, err |-> FALSE, write |-> NoWrite]

(* `obj' is the project being processed, `prev' the cachedProject.state    *)
(* getOrCreate returned, `todo' the listed children still to delete, `err' *)
(* whether deleteAllContent has collected an error.                        *)
IsSync(s) ==
    /\ s \in [pc : {"idle", "count", "commit", "get", "content", "kids", "uncount",
                    "seal", "purge"},
              obj : {s.obj}, prev : {s.prev}, todo : SUBSET Projects, err : BOOLEAN,
              write : {s.write}]
    /\ IsProject(s.obj) /\ IsProject(s.prev) /\ IsWrite(s.write)

TypeOK ==
    /\ DOMAIN projects = Projects /\ \A p \in Projects : IsProject(projects[p])
    /\ DOMAIN namespaces = Namespaces /\ \A n \in Namespaces : IsNamespace(namespaces[n])
    /\ DOMAIN listed = Projects /\ \A p \in Projects : IsProject(listed[p])
    /\ DOMAIN cached = Projects /\ \A p \in Projects : IsProject(cached[p])
    /\ DOMAIN sync = Projects /\ \A p \in Projects : IsSync(sync[p])
    /\ dirty \subseteq Projects
    /\ DOMAIN user = Users /\ \A u \in Users : IsWrite(user[u])
    /\ edits \in Nat
    /\ faults \in Nat

Init ==
    /\ projects = [p \in Projects |-> NoObject(0)]
    /\ namespaces = [n \in Namespaces |-> NoNamespace(0)]
    /\ listed = projects
    /\ dirty = {}
    /\ cached = [p \in Projects |-> NoObject(0)]
    /\ sync = [p \in Projects |-> Idle]
    /\ user = [u \in Users |-> NoWrite]
    /\ edits = 0
    /\ faults = 0

------------------------------------------------------------------------------
(* The end of a sync: Done forgets the key, Requeue is AddRateLimited.     *)

Becomes(p, s) == sync' = [sync EXCEPT ![p] = s]

Done(p) == Becomes(p, Idle)

(* Mutant: a sync that failed is forgotten.                               *)
MutForget(p) == Done(p) /\ UNCHANGED dirty

Requeue(p) == Done(p) /\ dirty' = dirty \cup {p}

Step(p, pc) == Becomes(p, [sync[p] EXCEPT !.pc = pc])

Submit(p, kind, target, new) ==
    Becomes(p, [sync[p] EXCEPT !.pc = "commit",
                               !.write = [kind |-> kind, target |-> target,
                                          base |-> projects[target], new |-> new]])

storeUnchanged == UNCHANGED <<projects, namespaces, user, edits, faults>>

------------------------------------------------------------------------------
(* The informer: the watch delivers the stored object; the Add and Update  *)
(* handlers enqueue the key, a deletion has no handler.                    *)

(* Mutant: the update handler enqueues active projects only.              *)
MutDeliverActive(p) ==
    /\ listed[p] # projects[p]
    /\ listed' = [listed EXCEPT ![p] = projects[p]]
    /\ dirty' = IF projects[p].phase = "Active" THEN dirty \cup {p} ELSE dirty
    /\ UNCHANGED <<cached, sync>> /\ storeUnchanged

Deliver(p) ==
    /\ listed[p] # projects[p]
    /\ listed' = [listed EXCEPT ![p] = projects[p]]
    /\ dirty' = IF Present(projects[p]) THEN dirty \cup {p} ELSE dirty
    /\ UNCHANGED <<cached, sync>> /\ storeUnchanged

(* syncItem: a worker takes the key and looks the project up.              *)

Take(p) ==
    /\ p \in dirty
    /\ sync[p].pc = "idle"
    /\ Cardinality({q \in Projects : sync[q].pc # "idle"}) < Workers
    /\ dirty' = dirty \ {p}

SyncDeleted(p) ==
    /\ Take(p)
    /\ ~Present(listed[p])
    /\ cached' = [cached EXCEPT ![p] = NoObject(0)]
    /\ UNCHANGED <<listed, sync>> /\ storeUnchanged

(* processUpdate: a new UID drops the cache entry, yet the worker keeps    *)
(* comparing with the old state it holds.  A root project has nothing to   *)
(* count.                                                                  *)
SyncActive(p) ==
    /\ Take(p)
    /\ listed[p].phase = "Active"
    /\ IF Parent[p] = NoProject
       THEN cached' = [cached EXCEPT ![p] = listed[p]] /\ UNCHANGED sync
       ELSE /\ cached' = IF Present(cached[p]) /\ cached[p].uid # listed[p].uid
                         THEN [cached EXCEPT ![p] = NoObject(0)] ELSE cached
            /\ Becomes(p, [sync[p] EXCEPT !.pc = "count", !.obj = listed[p],
                                          !.prev = cached[p]])
    /\ UNCHANGED listed /\ storeUnchanged

SyncTerminating(p) ==
    /\ Take(p)
    /\ listed[p].phase = "Terminating"
    /\ cached' = [cached EXCEPT ![p] = NoObject(0)]
    /\ Step(p, "get")
    /\ UNCHANGED listed /\ storeUnchanged

------------------------------------------------------------------------------
(* handlePhase of an active project with a parent.                         *)

SameClusters(a, b) == a.bound = b.bound /\ a.hard = b.hard

Counted(p, parent) ==
    [parent EXCEPT !.kids = @ \cup {p},
                   !.used = AddClusterHardToUsed(@, sync[p].obj.hard)]

(* Mutant: the new quota is given back instead of the old one.            *)
MutRecountNew(p, parent) ==
    [parent EXCEPT !.used = AddClusterHardToUsed(
                                SubClusterHardFromUsed(@, sync[p].obj.hard),
                                sync[p].obj.hard)]

Recounted(p, parent) ==
    [parent EXCEPT !.used = AddClusterHardToUsed(
                                SubClusterHardFromUsed(@, sync[p].prev.hard),
                                sync[p].obj.hard)]

(* Mutant: edits are not noticed.                                         *)
MutNoRecount(p) == FALSE

NeedsRecount(p) ==
    Present(sync[p].prev) /\ ~SameClusters(sync[p].prev, sync[p].obj)

(* GET the parent, decide, and have the status update admitted.  The       *)
(* retries of persistUpdate after a refusal end in giving up.              *)
CountChild(p) ==
    /\ sync[p].pc = "count"
    /\ LET parent == projects[Parent[p]]
           new == IF p \notin parent.kids THEN Counted(p, parent) ELSE Recounted(p, parent)
       IN  \/ /\ ~Present(parent)
              /\ Requeue(p) /\ UNCHANGED cached
           \/ /\ Present(parent)
              /\ p \in parent.kids /\ ~NeedsRecount(p)
              /\ cached' = [cached EXCEPT ![p] = sync[p].obj]
              /\ Done(p) /\ UNCHANGED dirty
           \/ /\ Present(parent)
              /\ p \notin parent.kids \/ NeedsRecount(p)
              /\ UNCHANGED cached
              /\ IF Admits(Parent[p], new, parent)
                 THEN Submit(p, "count", Parent[p], new) /\ UNCHANGED dirty
                 ELSE Requeue(p)
    /\ UNCHANGED listed /\ storeUnchanged

------------------------------------------------------------------------------
(* The deleter.  GET the project; a project that is gone or no longer      *)
(* deleting ends the sync, one that is finalized only has to be purged.    *)

GetDoomed(p) ==
    /\ sync[p].pc = "get"
    /\ IF projects[p].phase # "Terminating" THEN Done(p)
       ELSE Becomes(p, [sync[p] EXCEPT !.pc  = IF projects[p].fin THEN "content" ELSE "purge",
                                       !.obj = projects[p]])
    /\ UNCHANGED <<listed, dirty, cached>> /\ storeUnchanged

(* deleteNamespace is a DeleteCollection: the generic store removes every  *)
(* namespace outright and never runs the Delete of the namespace registry. *)
(* Then the child projects are listed.                                     *)
DropContent(p) ==
    /\ sync[p].pc = "content"
    /\ namespaces' = [n \in Namespaces |->
                        IF ProjectOf[n] = p THEN NoNamespace(namespaces[n].uid)
                                            ELSE namespaces[n]]
    /\ Becomes(p, [sync[p] EXCEPT !.pc = "kids", !.todo = ChildrenOf(p)])
    /\ UNCHANGED <<projects, listed, dirty, cached, user, edits, faults>>

(* deleteChildProject deletes the listed children one by one and stops at  *)
(* the first error; deleteAllContent keeps the error and goes on.          *)
DeleteKid(p) ==
    /\ sync[p].pc = "kids"
    /\ \E k \in sync[p].todo :
          IF Present(projects[k]) /\ ~DeleteRefused(k)
          THEN /\ projects' = [projects EXCEPT ![k] = AfterDelete(k)]
               /\ Becomes(p, [sync[p] EXCEPT !.todo = @ \ {k}])
          ELSE /\ Becomes(p, [sync[p] EXCEPT !.todo = {}, !.err = TRUE, !.pc = "uncount"])
               /\ UNCHANGED projects
    /\ UNCHANGED <<namespaces, listed, dirty, cached, user, edits, faults>>

KidsDone(p) ==
    /\ sync[p].pc = "kids"
    /\ sync[p].todo = {}
    /\ Step(p, "uncount")
    /\ UNCHANGED <<listed, dirty, cached>> /\ storeUnchanged

(* Mutant: the quota stays in use.                                        *)
MutKeepUsed(p, parent) == [parent EXCEPT !.kids = @ \ {p}]

(* Mutant: the name stays in the list.                                    *)
MutKeepKid(p, parent) ==
    [parent EXCEPT !.used = SubClusterHardFromUsed(@, sync[p].obj.hard)]

(* recalculateParentProjectUsed: what is given back is the quota the       *)
(* project has now, not the one it was counted with.                       *)
Uncounted(p, parent) ==
    [parent EXCEPT !.kids = @ \ {p},
                   !.used = SubClusterHardFromUsed(@, sync[p].obj.hard)]

Uncount(p) ==
    /\ sync[p].pc = "uncount"
    /\ IF Parent[p] = NoProject \/ (Present(projects[Parent[p]]) /\ p \notin projects[Parent[p]].kids)
       THEN Step(p, "seal") /\ UNCHANGED dirty
       ELSE LET parent == projects[Parent[p]]
                new    == Uncounted(p, parent)
            IN  IF Present(parent) /\ Admits(Parent[p], new, parent)
                THEN Submit(p, "uncount", Parent[p], new) /\ UNCHANGED dirty
                ELSE Requeue(p)
    /\ UNCHANGED <<listed, cached>> /\ storeUnchanged

(* finalizeProject, unless deleteAllContent collected an error.  The PUT   *)
(* is validated like any update of the project.                            *)
Seal(p) ==
    /\ sync[p].pc = "seal"
    /\ LET new == [projects[p] EXCEPT !.fin = FALSE]
       IN  IF /\ ~sync[p].err
              /\ Present(projects[p])
              /\ projects[p].uid = sync[p].obj.uid
              /\ Admits(p, new, projects[p])
           THEN Submit(p, "finalize", p, new) /\ UNCHANGED dirty
           ELSE Requeue(p)
    /\ UNCHANGED <<listed, cached>> /\ storeUnchanged

(* deleteProject with the UID as a precondition.                           *)
Purge(p) ==
    /\ sync[p].pc = "purge"
    /\ IF ~Present(projects[p])
       THEN Done(p) /\ UNCHANGED <<projects, dirty>>
       ELSE IF projects[p].uid = sync[p].obj.uid /\ ~DeleteRefused(p)
            THEN Done(p) /\ projects' = [projects EXCEPT ![p] = AfterDelete(p)] /\ UNCHANGED dirty
            ELSE Requeue(p) /\ UNCHANGED projects
    /\ UNCHANGED <<namespaces, listed, cached, user, edits, faults>>

------------------------------------------------------------------------------
(* The commit of a worker's write.                                         *)

Store(w) == projects' = [projects EXCEPT ![w.target] = w.new]

(* Mutant: the resourceVersion is not compared.                           *)
MutUnconditional(w) == Present(projects[w.target]) = Present(w.base)

Unchanged(w) == projects[w.target] = w.base

Proceed(p, pc) == Becomes(p, [sync[p] EXCEPT !.pc = pc, !.write = NoWrite])

(* What the worker does once the write is stored.                          *)
AfterCommit(p) ==
    CASE sync[p].write.kind = "count"    -> /\ Done(p)
                                            /\ cached' = [cached EXCEPT ![p] = sync[p].obj]
      [] sync[p].write.kind = "uncount"  -> Proceed(p, "seal") /\ UNCHANGED cached
      [] sync[p].write.kind = "finalize" -> Proceed(p, "purge") /\ UNCHANGED cached

Commit(p) ==
    /\ sync[p].pc = "commit"
    /\ Unchanged(sync[p].write)
    /\ Store(sync[p].write)
    /\ AfterCommit(p)
    /\ UNCHANGED <<namespaces, listed, dirty, user, edits, faults>>

(* The object changed or went away: persistUpdate takes NotFound for       *)
(* success, retryOnConflictError reads the project again, every other      *)
(* error ends the sync.                                                    *)
CommitRefused(p) ==
    /\ sync[p].pc = "commit"
    /\ ~Unchanged(sync[p].write)
    /\ \/ /\ sync[p].write.kind = "count" /\ ~Present(projects[sync[p].write.target])
          /\ Done(p)
          /\ cached' = [cached EXCEPT ![p] = sync[p].obj]
          /\ UNCHANGED dirty
       \/ /\ sync[p].write.kind = "finalize"
          /\ Proceed(p, "seal")
          /\ UNCHANGED <<cached, dirty>>
       \/ /\ \/ sync[p].write.kind = "uncount"
             \/ sync[p].write.kind = "count" /\ Present(projects[sync[p].write.target])
          /\ Requeue(p)
          /\ UNCHANGED cached
    /\ UNCHANGED listed /\ storeUnchanged

------------------------------------------------------------------------------
(* Failures.                                                               *)

Fault == faults < MaxFaults /\ faults' = faults + 1

(* The write is stored and the answer is lost.  persistUpdate tries again  *)
(* with the object it has, which the server then refuses.                  *)
CommitLost(p) ==
    /\ Fault
    /\ sync[p].pc = "commit"
    /\ Unchanged(sync[p].write)
    /\ Store(sync[p].write)
    /\ IF sync[p].write.kind = "count" THEN UNCHANGED <<sync, dirty>> ELSE Requeue(p)
    /\ UNCHANGED <<namespaces, listed, cached, user, edits>>

(* A call fails: deleteAllContent keeps the error and goes on, any other   *)
(* caller gives up.                                                        *)
CallFails(p) ==
    /\ Fault
    /\ sync[p].pc # "idle"
    /\ IF sync[p].pc \in {"content", "kids"}
       THEN /\ Becomes(p, [sync[p] EXCEPT
                     !.err = TRUE,
                     !.pc = IF sync[p].pc = "content" THEN "kids" ELSE "uncount",
                     !.todo = IF sync[p].pc = "content" THEN ChildrenOf(p) ELSE {}])
            /\ UNCHANGED dirty
       ELSE Requeue(p)
    /\ UNCHANGED <<projects, namespaces, listed, cached, user, edits>>

(* The controller stops; its successor lists every project and enqueues it.*)
Restart ==
    /\ Fault
    /\ listed' = projects
    /\ dirty' = {p \in Projects : Present(projects[p])}
    /\ cached' = [p \in Projects |-> NoObject(0)]
    /\ sync' = [p \in Projects |-> Idle]
    /\ UNCHANGED <<projects, namespaces, user, edits>>

------------------------------------------------------------------------------
(* Users.  An update carries the whole object the user read.               *)

Request(u, kind, p, new) ==
    user' = [user EXCEPT ![u] = [kind |-> kind, target |-> p, base |-> projects[p], new |-> new]]

UserCreate(u, p) ==
    /\ user[u].kind = "none"
    /\ projects[p].uid < MaxUid
    /\ ~Present(projects[p])
    /\ \E spec \in Specs :
          /\ Admits(p, NewProject(p, spec), projects[p])
          /\ Request(u, "create", p, NewProject(p, spec))
    /\ UNCHANGED <<projects, namespaces, controllerVars, edits, faults>>

UserUpdate(u, p) ==
    /\ user[u].kind = "none"
    /\ edits < MaxEdits
    /\ Present(projects[p])
    /\ \E new \in {[projects[p] EXCEPT !.bound = spec.bound, !.hard = spec.hard] : spec \in Specs}
                  \cup (IF Locking THEN {[projects[p] EXCEPT !.locked = ~@]} ELSE {}) :
          /\ new # projects[p]
          /\ Admits(p, new, projects[p])
          /\ Request(u, "update", p, new)
    /\ edits' = edits + 1
    /\ UNCHANGED <<projects, namespaces, controllerVars, faults>>

UserCommit(u) ==
    /\ user[u].kind # "none"
    /\ IF Unchanged(user[u]) THEN Store(user[u]) ELSE UNCHANGED projects
    /\ user' = [user EXCEPT ![u] = NoWrite]
    /\ UNCHANGED <<namespaces, controllerVars, edits, faults>>

UserDelete(p) ==
    /\ p \in Deletable
    /\ projects[p].phase = "Active"
    /\ projects' = [projects EXCEPT ![p] = AfterDelete(p)]
    /\ UNCHANGED <<namespaces, controllerVars, user, edits, faults>>

------------------------------------------------------------------------------
Work(p) ==
    \/ SyncDeleted(p) \/ SyncActive(p) \/ SyncTerminating(p)
    \/ CountChild(p)
    \/ GetDoomed(p) \/ DropContent(p) \/ DeleteKid(p) \/ KidsDone(p)
    \/ Uncount(p) \/ Seal(p) \/ Purge(p)
    \/ Commit(p) \/ CommitRefused(p)

Failure == Restart \/ \E p \in Projects : CommitLost(p) \/ CallFails(p)

Environment ==
    \E p \in Projects :
        \/ UserDelete(p)
        \/ \E u \in Users : UserCreate(u, p) \/ UserUpdate(u, p)

Next ==
    \/ \E p \in Projects : Deliver(p) \/ Work(p)
    \/ \E u \in Users : UserCommit(u)
    \/ Failure
    \/ Environment

Spec == Init /\ [][Next]_vars

(* Users are free not to act and failures not to happen; the watch, the    *)
(* workers and the server keep working.                                    *)
Fairness ==
    /\ \A p \in Projects : WF_vars(Deliver(p)) /\ WF_vars(Work(p))
    /\ \A u \in Users : WF_vars(UserCommit(u))

------------------------------------------------------------------------------
(* Properties.                                                             *)

(* The name has been given to one project at most.                         *)
FirstUse(p) == projects[p].uid <= 1

(* A child in a ledger is a project that exists: the deleter gives a       *)
(* child's quota back before it removes the child, and no worker that read *)
(* an older copy counts it again, as long as its name is not used twice.   *)
KidsExist ==
    \A p \in Projects : \A k \in projects[p].kids :
        Parent[k] = p /\ (FirstUse(k) => Present(projects[k]))

(* A project whose finalizer is gone holds nothing of its parent's quota,  *)
(* as long as its name is not used twice.                                  *)
FinalizedIsUncounted ==
    \A p \in Projects :
        projects[p].phase = "Terminating" /\ ~projects[p].fin /\ FirstUse(p)
            /\ Parent[p] # NoProject => p \notin projects[Parent[p]].kids

(* Every counted child exists, whatever names are used for: what the       *)
(* validation of every later write of the parent requires.                 *)
CountedExist ==
    \A p \in Projects : \A k \in projects[p].kids : Present(projects[k])

(* A child leaves the ledger of a parent that stays only when the child is *)
(* being deleted: no concurrent write of the parent loses it.              *)
OnlyDyingLeave ==
    [][\A p \in Projects : \A k \in projects[p].kids \ projects'[p].kids :
            Present(projects'[p]) => projects[k].phase = "Terminating"]_vars

(* validateAgainstParent requires of a child a quota wherever its parent   *)
(* has one, and validateAgainstChildren of a parent's quota the same.      *)
QuotaInherited ==
    \A p \in Projects : \A k \in projects[p].kids :
        projects[k].bound \cap DOMAIN projects[p].hard \subseteq DOMAIN projects[k].hard

(* A project may be bound only to clusters its parent is bound to.         *)
BoundInherited ==
    \A p \in Projects : \A k \in projects[p].kids : projects[k].bound \subseteq projects[p].bound

(* A project is removed after its children.                                *)
ChildrenGoFirst ==
    [][\A p \in Projects :
            Present(projects[p]) /\ ~Present(projects'[p]) => ChildrenOf(p) = {}]_vars

(* An active child is eventually in its parent's ledger.                   *)
EventuallyCounted ==
    \A p \in Projects : Parent[p] # NoProject =>
        (projects[p].phase = "Active"
            ~> (projects[p].phase # "Active" \/ p \in projects[Parent[p]].kids))

(* A project whose deletion was requested is eventually gone: the deleter  *)
(* is called until it succeeds.                                            *)
DeletionCompletes ==
    \A p \in Projects : projects[p].phase = "Terminating" ~> ~Present(projects[p])
==============================================================================
