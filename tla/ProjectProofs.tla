---------------------------- MODULE ProjectProofs ----------------------------
(***************************************************************************)
(* What the project controller guarantees, for every tree of projects and  *)
(* every number of clusters, users, workers, edits, failures and restarts. *)
(* The proof has storeys; each invariant contains the ones before it, LInv *)
(* and CInv the first three:                                               *)
(*                                                                         *)
(*   IInv   the variables have their types and no ledger leaves its quota; *)
(*   KInv   what a ledger says of its children's lives: a counted child    *)
(*          exists, a finalized one is not counted, only a child that is   *)
(*          being deleted leaves;                                          *)
(*   AInv   whose copies are worth what, and what each pending write does  *)
(*          to the ledger it was computed from;                            *)
(*   LInv   what the ledgers add up to while nobody edits a quota;         *)
(*   CInv   what they add up to when somebody does: the quotas the         *)
(*          controller has cached, and those that are stored once it has   *)
(*          caught up.                                                     *)
(*                                                                         *)
(* AInv says nothing of what a ledger adds up to, and it bears that        *)
(* another controller writes the ledgers too: see Beside and Balances,     *)
(* which BusinessProofs uses.                                              *)
(*                                                                         *)
(* UsedWithinHard is not inductive: a write is stored after it was         *)
(* validated, so IInv also says it of the object of every write that has   *)
(* been admitted and is still to be stored.                                *)
(***************************************************************************)
EXTENDS ProjectLedger, FiniteSetTheorems, TLAPS

(* An admitted write has a target, and what it stores is within its quota. *)
Sound(w) == w.target \in Projects /\ WithinHard(w.new)

(* A worker that counts has a parent to count into, and one that waits for *)
(* its write has a sound write of a worker's kind.                         *)
SoundSync(p, s) ==
    /\ IsSync(s)
    /\ s.pc = "count" => Parent[p] \in Projects
    /\ s.pc = "commit" => Sound(s.write) /\ s.write.kind \in {"count", "uncount", "finalize"}

SoundUser(w) == IsWrite(w) /\ (w.kind # "none" => Sound(w))

IInv ==
    /\ TypeOK
    /\ UsedWithinHard
    /\ \A p \in Projects : SoundSync(p, sync[p])
    /\ \A u \in Users : SoundUser(user[u])

------------------------------------------------------------------------------
(* Ledgers and objects.                                                    *)

(* Adding a quota to a ledger gives a ledger.                              *)
LEMMA AddIsLedger ==
    ASSUME NEW f, NEW g, IsLedger(f), IsLedger(g)
    PROVE  IsLedger(AddClusterHardToUsed(f, g))
BY DEF IsLedger, AddClusterHardToUsed, At

(* Subtracting a quota from a ledger gives a ledger.                       *)
LEMMA SubIsLedger ==
    ASSUME NEW f, NEW g, IsLedger(f), IsLedger(g)
    PROVE  IsLedger(SubClusterHardFromUsed(f, g))
BY DEF IsLedger, SubClusterHardFromUsed, At

(* No quota at all is a ledger.                                            *)
LEMMA NothingIsLedger == IsLedger(Nothing)
BY DEF IsLedger, Nothing

(* The object of a free name is a project within its quota.                *)
LEMMA NoObjectIsProject ==
    ASSUME NEW n \in Nat
    PROVE  IsProject(NoObject(n)) /\ WithinHard(NoObject(n))
BY NothingIsLedger DEF IsProject, NoObject, WithinHard, Nothing

(* "No write" is a write.                                                  *)
LEMMA NoWriteIsWrite == IsWrite(NoWrite) /\ SoundUser(NoWrite)
BY NoObjectIsProject DEF IsWrite, NoWrite, SoundUser

(* An idle worker is well-formed.                                          *)
LEMMA IdleIsSync == ASSUME NEW p PROVE IsSync(Idle) /\ SoundSync(p, Idle)
BY NoObjectIsProject, NoWriteIsWrite DEF IsSync, Idle, SoundSync

(* What the registry admits as an update is within its quota.              *)
LEMMA AdmittedWithinHard ==
    ASSUME NEW p, NEW new, NEW old, IsProject(new), Present(old), Admits(p, new, old)
    PROVE  WithinHard(new)
BY DEF Admits, ValidateProjectUpdate, ValidateUpdateResource, WithinHard, At, IsProject, IsLedger

(* A new project has nothing in use.                                       *)
LEMMA NewProjectType ==
    ASSUME TypeOK, NEW p \in Projects, NEW spec \in Specs
    PROVE  IsProject(NewProject(p, spec)) /\ WithinHard(NewProject(p, spec))
BY BoundAssumption, NothingIsLedger
   DEF TypeOK, IsProject, NewProject, WithinHard, Nothing

(* A delete request leaves quota and ledger alone or frees the name.       *)
LEMMA AfterDeleteType ==
    ASSUME TypeOK, UsedWithinHard, NEW p \in Projects
    PROVE  IsProject(AfterDelete(p)) /\ WithinHard(AfterDelete(p))
<1>1. IsProject(projects[p]) /\ WithinHard(projects[p])
  BY DEF TypeOK, UsedWithinHard
<1>2. IsProject(NoObject(projects[p].uid)) /\ WithinHard(NoObject(projects[p].uid))
  BY <1>1, NoObjectIsProject DEF IsProject
<1>3. CASE projects[p].phase = "Active"
  <2> DEFINE del == [projects[p] EXCEPT !.phase = "Terminating"]
  <2>1. IsProject(del) BY <1>1 DEF IsProject
  <2>2. del.used = projects[p].used /\ del.hard = projects[p].hard BY <1>1 DEF IsProject
  <2>3. WithinHard(del) BY <1>1, <2>2 DEF WithinHard
  <2> QED BY <1>3, <2>1, <2>3 DEF AfterDelete
<1>4. CASE projects[p].phase # "Active"
  BY <1>2, <1>4 DEF AfterDelete
<1> QED BY <1>3, <1>4

------------------------------------------------------------------------------
(* How the variables change.                                               *)

(* A step that moves the worker of one key to a sound state keeps all the  *)
(* workers sound.                                                          *)
LEMMA BecomesSound ==
    ASSUME IInv, NEW p \in Projects, NEW s, SoundSync(p, s), Becomes(p, s)
    PROVE  /\ DOMAIN sync' = Projects
           /\ \A q \in Projects : IsSync(sync'[q]) /\ SoundSync(q, sync'[q])
<1>1. IsSync(s) BY DEF SoundSync
<1>2. DOMAIN sync = Projects /\ \A q \in Projects : IsSync(sync[q]) /\ SoundSync(q, sync[q])
  BY DEF IInv, TypeOK
<1> QED BY <1>1, <1>2 DEF Becomes

(* The store of a sound write.                                             *)
LEMMA StoreSound ==
    ASSUME IInv, NEW w, IsWrite(w), Sound(w), Store(w)
    PROVE  /\ DOMAIN projects' = Projects
           /\ \A q \in Projects : IsProject(projects'[q]) /\ WithinHard(projects'[q])
<1>1. IsProject(w.new) /\ WithinHard(w.new) /\ w.target \in Projects
  BY DEF IsWrite, Sound
<1>2. DOMAIN projects = Projects /\ \A q \in Projects : IsProject(projects[q]) /\ WithinHard(projects[q])
  BY DEF IInv, TypeOK, UsedWithinHard
<1> QED BY <1>1, <1>2 DEF Store

(* A delete request on an existing project.                                *)
LEMMA DeleteSound ==
    ASSUME IInv, NEW p \in Projects, projects' = [projects EXCEPT ![p] = AfterDelete(p)]
    PROVE  /\ DOMAIN projects' = Projects
           /\ \A q \in Projects : IsProject(projects'[q]) /\ WithinHard(projects'[q])
<1>1. DOMAIN projects = Projects /\ \A q \in Projects : IsProject(projects[q]) /\ WithinHard(projects[q])
  BY DEF IInv, TypeOK, UsedWithinHard
<1>2. IsProject(AfterDelete(p)) /\ WithinHard(AfterDelete(p))
  BY AfterDeleteType DEF IInv
<1> QED BY <1>1, <1>2

(* A worker with a pending write of an object that was admitted as an      *)
(* update.                                                                 *)
LEMMA SubmitSound ==
    ASSUME IInv, NEW p \in Projects, NEW t \in Projects, NEW new, IsProject(new),
           Present(projects[t]), Admits(t, new, projects[t]),
           NEW kind \in {"count", "uncount", "finalize"}, Submit(p, kind, t, new)
    PROVE  \E s : SoundSync(p, s) /\ Becomes(p, s)
<1> DEFINE w == [kind |-> kind, target |-> t, base |-> projects[t], new |-> new]
           s == [sync[p] EXCEPT !.pc = "commit", !.write = w]
<1>1. IsProject(projects[t]) /\ IsSync(sync[p])
  BY DEF IInv, TypeOK
<1>2. WithinHard(new) BY AdmittedWithinHard
<1>3. IsWrite(w) /\ Sound(w) BY <1>1, <1>2 DEF IsWrite, Sound
<1>4. IsSync(s) /\ s.write = w BY <1>1, <1>3 DEF IsSync
<1>5. SoundSync(p, s)
  <2> HIDE DEF w
  <2>1. s.pc = "commit" BY <1>1 DEF IsSync
  <2>2. w.kind = kind BY DEF w
  <2> QED BY <1>3, <1>4, <2>1, <2>2 DEF SoundSync
<1>6. Becomes(p, s) BY DEF Submit
<1> HIDE DEF s
<1> QED BY <1>5, <1>6
------------------------------------------------------------------------------
(* One lemma per action.                                                   *)

(* A worker's step that leaves the store alone: it moves to a sound state, *)
(* and may cache an object or touch its key.                               *)
LEMMA WorkerStep ==
    ASSUME IInv, NEW p \in Projects, NEW s, SoundSync(p, s), Becomes(p, s),
           cached' = cached \/ \E o : IsProject(o) /\ cached' = [cached EXCEPT ![p] = o],
           dirty' \subseteq dirty \cup {p},
           UNCHANGED <<listed, projects, namespaces, user, edits>>, faults' \in Nat
    PROVE  IInv'
<1>1. DOMAIN sync' = Projects /\ \A q \in Projects : IsSync(sync'[q]) /\ SoundSync(q, sync'[q])
  BY BecomesSound
<1>2. DOMAIN cached' = Projects /\ \A q \in Projects : IsProject(cached'[q])
  BY DEF IInv, TypeOK
<1>3. TypeOK' BY <1>1, <1>2 DEF IInv, TypeOK
<1> QED BY <1>1, <1>3 DEF IInv, UsedWithinHard

(* A worker's step that changes the stored projects.                       *)
LEMMA WorkerStores ==
    ASSUME IInv, NEW p \in Projects, NEW s, SoundSync(p, s), Becomes(p, s),
           DOMAIN projects' = Projects,
           \A q \in Projects : IsProject(projects'[q]) /\ WithinHard(projects'[q]),
           cached' = cached \/ \E o : IsProject(o) /\ cached' = [cached EXCEPT ![p] = o],
           dirty' \subseteq dirty \cup {p},
           UNCHANGED <<listed, namespaces, user, edits>>, faults' \in Nat
    PROVE  IInv'
<1>1. DOMAIN sync' = Projects /\ \A q \in Projects : IsSync(sync'[q]) /\ SoundSync(q, sync'[q])
  BY BecomesSound
<1>2. DOMAIN cached' = Projects /\ \A q \in Projects : IsProject(cached'[q])
  BY DEF IInv, TypeOK
<1>3. TypeOK' BY <1>1, <1>2 DEF IInv, TypeOK
<1> QED BY <1>1, <1>3 DEF IInv, UsedWithinHard

(* Facts every action lemma uses.                                          *)
LEMMA Holds ==
    ASSUME IInv, NEW p \in Projects
    PROVE  /\ IsProject(projects[p]) /\ IsProject(listed[p]) /\ IsProject(cached[p])
           /\ WithinHard(projects[p])
           /\ IsSync(sync[p]) /\ SoundSync(p, sync[p])
           /\ faults \in Nat /\ edits \in Nat
           /\ Parent[p] # NoProject => Parent[p] \in Projects
BY TreeAssumption DEF IInv, TypeOK, UsedWithinHard

(* Moving to another step keeps a worker sound, unless the step is one     *)
(* that something is required of.                                          *)
LEMMA StepSound ==
    ASSUME NEW p, NEW s, IsSync(s),
           NEW pc \in {"get", "content", "kids", "uncount", "seal", "purge"}
    PROVE  SoundSync(p, [s EXCEPT !.pc = pc])
BY DEF SoundSync, IsSync

(* The watch copies an object that is stored.                              *)
LEMMA DeliverInv == ASSUME IInv, NEW p \in Projects, Deliver(p) PROVE IInv'
<1>1. TypeOK' BY DEF IInv, TypeOK, Deliver, storeUnchanged
<1> QED BY <1>1 DEF IInv, UsedWithinHard, Deliver, storeUnchanged

(* A vanished project leaves the cache.                                    *)
LEMMA SyncDeletedInv == ASSUME IInv, NEW p \in Projects, SyncDeleted(p) PROVE IInv'
<1>1. IsProject(NoObject(0)) BY NoObjectIsProject
<1>2. TypeOK' BY <1>1 DEF IInv, TypeOK, SyncDeleted, Take, storeUnchanged
<1> QED BY <1>2 DEF IInv, UsedWithinHard, SyncDeleted, storeUnchanged

(* A root project is cached, another starts to be counted.                 *)
LEMMA SyncActiveInv == ASSUME IInv, NEW p \in Projects, SyncActive(p) PROVE IInv'
<1>1. CASE Parent[p] = NoProject
  <2>1. DOMAIN cached' = Projects /\ \A q \in Projects : IsProject(cached'[q])
    BY <1>1, Holds DEF IInv, TypeOK, SyncActive
  <2>2. TypeOK' BY <1>1, <2>1 DEF IInv, TypeOK, SyncActive, Take, storeUnchanged
  <2>3. sync' = sync /\ projects' = projects /\ user' = user
    BY <1>1 DEF SyncActive, storeUnchanged
  <2> QED BY <2>2, <2>3 DEF IInv, UsedWithinHard
<1>2. CASE Parent[p] # NoProject
  <2> DEFINE s == [sync[p] EXCEPT !.pc = "count", !.obj = listed[p], !.prev = cached[p]]
  <2>1. IsSync(s)
    <3>1. IsSync(sync[p]) /\ IsProject(listed[p]) /\ IsProject(cached[p]) BY Holds
    <3> QED BY <3>1 DEF IsSync
  <2>2. s.pc = "count" BY Holds DEF IsSync
  <2>3. SoundSync(p, s) BY <1>2, <2>1, <2>2, Holds DEF SoundSync
  <2>4. Becomes(p, s) BY <1>2 DEF SyncActive
  <2>5. cached' = cached \/ cached' = [cached EXCEPT ![p] = NoObject(0)]
    BY <1>2 DEF SyncActive
  <2>6. dirty' \subseteq dirty \cup {p} /\ UNCHANGED <<listed, projects, namespaces, user, edits>>
        /\ faults' \in Nat
    BY Holds DEF SyncActive, Take, storeUnchanged
  <2> HIDE DEF s
  <2> QED BY <2>3, <2>4, <2>5, <2>6, WorkerStep, NoObjectIsProject
<1> QED BY <1>1, <1>2

(* A deleting project starts to be torn down.                              *)
LEMMA SyncTerminatingInv == ASSUME IInv, NEW p \in Projects, SyncTerminating(p) PROVE IInv'
<1> DEFINE s == [sync[p] EXCEPT !.pc = "get"]
<1>1. SoundSync(p, s) BY Holds, StepSound
<1>2. Becomes(p, s) BY DEF SyncTerminating, Step
<1>3. cached' = [cached EXCEPT ![p] = NoObject(0)] BY DEF SyncTerminating
<1>4. dirty' \subseteq dirty \cup {p} /\ UNCHANGED <<listed, projects, namespaces, user, edits>>
      /\ faults' \in Nat
  BY Holds DEF SyncTerminating, Take, storeUnchanged
<1> HIDE DEF s
<1> QED BY <1>1, <1>2, <1>3, <1>4, WorkerStep, NoObjectIsProject

(* The parent's ledger grows only by an admitted write.                    *)
LEMMA CountChildInv == ASSUME IInv, NEW p \in Projects, CountChild(p) PROVE IInv'
<1> DEFINE parent == projects[Parent[p]]
           new == IF p \notin parent.kids THEN Counted(p, parent) ELSE Recounted(p, parent)
<1>1. Parent[p] \in Projects BY Holds DEF CountChild, SoundSync
<1>2. IsProject(parent) /\ IsSync(sync[p]) BY <1>1, Holds
<1>3. IsProject(sync[p].obj) /\ IsProject(sync[p].prev) BY <1>2 DEF IsSync
<1>4. IsProject(new)
  <2>1. IsLedger(AddClusterHardToUsed(parent.used, sync[p].obj.hard))
    BY <1>2, <1>3, AddIsLedger DEF IsProject
  <2>2. IsLedger(SubClusterHardFromUsed(parent.used, sync[p].prev.hard))
    BY <1>2, <1>3, SubIsLedger DEF IsProject
  <2>3. IsLedger(AddClusterHardToUsed(SubClusterHardFromUsed(parent.used, sync[p].prev.hard),
                                      sync[p].obj.hard))
    BY <1>3, <2>2, AddIsLedger DEF IsProject
  <2>4. IsProject(Counted(p, parent)) BY <1>2, <2>1 DEF IsProject, Counted
  <2>5. IsProject(Recounted(p, parent)) BY <1>2, <2>3 DEF IsProject, Recounted
  <2> QED BY <2>4, <2>5
<1>5. UNCHANGED <<listed, projects, namespaces, user, edits>> /\ faults' \in Nat
  BY Holds DEF CountChild, storeUnchanged
<1>6. \/ Becomes(p, Idle) /\ dirty' \subseteq dirty \cup {p}
         /\ (cached' = cached \/ cached' = [cached EXCEPT ![p] = sync[p].obj])
      \/ Submit(p, "count", Parent[p], new) /\ Admits(Parent[p], new, parent)
         /\ Present(parent) /\ dirty' = dirty /\ cached' = cached
  BY DEF CountChild, Requeue, Done
<1>7. CASE Becomes(p, Idle) /\ dirty' \subseteq dirty \cup {p}
           /\ (cached' = cached \/ cached' = [cached EXCEPT ![p] = sync[p].obj])
  BY <1>3, <1>5, <1>7, IdleIsSync, WorkerStep
<1>8. CASE Submit(p, "count", Parent[p], new) /\ Admits(Parent[p], new, parent)
           /\ Present(parent) /\ dirty' = dirty /\ cached' = cached
  <2>1. PICK s : SoundSync(p, s) /\ Becomes(p, s) BY <1>1, <1>4, <1>8, SubmitSound
  <2> QED BY <1>5, <1>8, <2>1, WorkerStep
<1> QED BY <1>6, <1>7, <1>8

(* The deleter reads the project.                                          *)
LEMMA GetDoomedInv == ASSUME IInv, NEW p \in Projects, GetDoomed(p) PROVE IInv'
<1>1. UNCHANGED <<listed, projects, namespaces, user, edits>> /\ faults' \in Nat
      /\ dirty' = dirty /\ cached' = cached
  BY Holds DEF GetDoomed, storeUnchanged
<1>2. CASE projects[p].phase # "Terminating"
  <2>1. Becomes(p, Idle) BY <1>2 DEF GetDoomed, Done
  <2> QED BY <1>1, <2>1, IdleIsSync, WorkerStep
<1>3. CASE projects[p].phase = "Terminating"
  <2> DEFINE s == [sync[p] EXCEPT !.pc = IF projects[p].fin THEN "content" ELSE "purge",
                                  !.obj = projects[p]]
  <2>1. IsSync(sync[p]) /\ IsProject(projects[p]) BY Holds
  <2>2. IsSync(s) BY <2>1 DEF IsSync
  <2>3. s.pc \in {"content", "purge"} BY <2>1 DEF IsSync
  <2>4. SoundSync(p, s) BY <2>2, <2>3 DEF SoundSync
  <2>5. Becomes(p, s) BY <1>3 DEF GetDoomed
  <2> HIDE DEF s
  <2> QED BY <1>1, <2>4, <2>5, WorkerStep
<1> QED BY <1>2, <1>3

(* Namespaces are removed, children listed.                                *)
LEMMA DropContentInv == ASSUME IInv, NEW p \in Projects, DropContent(p) PROVE IInv'
<1> DEFINE s == [sync[p] EXCEPT !.pc = "kids", !.todo = ChildrenOf(p)]
<1>1. IsSync(sync[p]) BY Holds
<1>2. ChildrenOf(p) \subseteq Projects BY DEF ChildrenOf
<1>3. IsSync(s) /\ s.pc = "kids" BY <1>1, <1>2 DEF IsSync
<1>4. SoundSync(p, s) BY <1>3 DEF SoundSync
<1>5. Becomes(p, s) BY DEF DropContent
<1> HIDE DEF s
<1>6. DOMAIN sync' = Projects /\ \A q \in Projects : IsSync(sync'[q]) /\ SoundSync(q, sync'[q])
  BY <1>4, <1>5, BecomesSound
<1>7. DOMAIN namespaces' = Namespaces /\ \A n \in Namespaces : IsNamespace(namespaces'[n])
  <2>1. DOMAIN namespaces' = Namespaces BY DEF DropContent
  <2>2. ASSUME NEW n \in Namespaces PROVE IsNamespace(namespaces'[n])
    <3>1. IsNamespace(namespaces[n]) BY DEF IInv, TypeOK
    <3>2. IsNamespace(NoNamespace(namespaces[n].uid))
      BY <3>1, NothingIsLedger DEF IsNamespace, NoNamespace
    <3>3. namespaces'[n] = namespaces[n] \/ namespaces'[n] = NoNamespace(namespaces[n].uid)
      BY DEF DropContent
    <3> QED BY <3>1, <3>2, <3>3
  <2> QED BY <2>1, <2>2
<1>8. TypeOK' BY <1>6, <1>7 DEF IInv, TypeOK, DropContent
<1> QED BY <1>6, <1>8 DEF IInv, UsedWithinHard, DropContent

(* A child is deleted or the deleter gives up on children.                 *)
LEMMA DeleteKidInv == ASSUME IInv, NEW p \in Projects, DeleteKid(p) PROVE IInv'
<1>1. UNCHANGED <<listed, dirty, cached, namespaces, user, edits>> /\ faults' \in Nat
  BY Holds DEF DeleteKid
<1>2. IsSync(sync[p]) BY Holds
<1>3. PICK k \in sync[p].todo :
          \/ /\ projects' = [projects EXCEPT ![k] = AfterDelete(k)]
             /\ Becomes(p, [sync[p] EXCEPT !.todo = @ \ {k}])
          \/ /\ Becomes(p, [sync[p] EXCEPT !.todo = {}, !.err = TRUE, !.pc = "uncount"])
             /\ UNCHANGED projects
  BY DEF DeleteKid
<1>4. k \in Projects BY <1>2 DEF IsSync
<1>5. CASE /\ projects' = [projects EXCEPT ![k] = AfterDelete(k)]
           /\ Becomes(p, [sync[p] EXCEPT !.todo = @ \ {k}])
  <2> DEFINE s == [sync[p] EXCEPT !.todo = @ \ {k}]
  <2>1. IsSync(s) /\ s.pc = "kids" BY <1>2 DEF IsSync, DeleteKid
  <2>2. SoundSync(p, s) /\ Becomes(p, s) BY <1>5, <2>1 DEF SoundSync
  <2> HIDE DEF s
  <2>3. DOMAIN projects' = Projects
        /\ \A q \in Projects : IsProject(projects'[q]) /\ WithinHard(projects'[q])
    BY <1>4, <1>5, DeleteSound
  <2> QED BY <1>1, <2>2, <2>3, WorkerStores
<1>6. CASE /\ Becomes(p, [sync[p] EXCEPT !.todo = {}, !.err = TRUE, !.pc = "uncount"])
           /\ UNCHANGED projects
  <2> DEFINE s == [sync[p] EXCEPT !.todo = {}, !.err = TRUE, !.pc = "uncount"]
  <2>1. IsSync(s) /\ s.pc = "uncount" BY <1>2 DEF IsSync
  <2>2. SoundSync(p, s) /\ Becomes(p, s) BY <1>6, <2>1 DEF SoundSync
  <2> HIDE DEF s
  <2> QED BY <1>1, <1>6, <2>2, WorkerStep
<1> QED BY <1>3, <1>5, <1>6

(* The children are dealt with.                                            *)
LEMMA KidsDoneInv == ASSUME IInv, NEW p \in Projects, KidsDone(p) PROVE IInv'
<1> DEFINE s == [sync[p] EXCEPT !.pc = "uncount"]
<1>1. SoundSync(p, s) BY Holds, StepSound
<1>2. Becomes(p, s) BY DEF KidsDone, Step
<1>3. UNCHANGED <<listed, projects, namespaces, user, edits, dirty, cached>> /\ faults' \in Nat
  BY Holds DEF KidsDone, storeUnchanged
<1> HIDE DEF s
<1> QED BY <1>1, <1>2, <1>3, WorkerStep

(* The parent's ledger shrinks only by an admitted write.                  *)
LEMMA UncountInv == ASSUME IInv, NEW p \in Projects, Uncount(p) PROVE IInv'
<1> DEFINE parent == projects[Parent[p]]
           new    == Uncounted(p, parent)
<1>1. UNCHANGED <<listed, cached, projects, namespaces, user, edits>> /\ faults' \in Nat
  BY Holds DEF Uncount, storeUnchanged
<1>2. IsSync(sync[p]) BY Holds
<1>3. CASE Step(p, "seal") /\ UNCHANGED dirty
  <2> DEFINE s == [sync[p] EXCEPT !.pc = "seal"]
  <2>1. SoundSync(p, s) BY <1>2, StepSound
  <2>2. Becomes(p, s) BY <1>3 DEF Step
  <2> HIDE DEF s
  <2> QED BY <1>1, <1>3, <2>1, <2>2, WorkerStep
<1>4. CASE Requeue(p)
  <2>1. Becomes(p, Idle) /\ dirty' \subseteq dirty \cup {p} BY <1>4 DEF Requeue, Done
  <2> QED BY <1>1, <2>1, IdleIsSync, WorkerStep
<1>5. CASE /\ Parent[p] # NoProject /\ Present(parent) /\ Admits(Parent[p], new, parent)
           /\ Submit(p, "uncount", Parent[p], new) /\ UNCHANGED dirty
  <2>1. Parent[p] \in Projects BY <1>5, Holds
  <2>2. IsProject(parent) BY <2>1, Holds
  <2>3. IsLedger(SubClusterHardFromUsed(parent.used, sync[p].obj.hard))
    <3>1. IsLedger(parent.used) BY <2>2 DEF IsProject
    <3>2. IsLedger(sync[p].obj.hard) BY <1>2 DEF IsSync, IsProject
    <3> QED BY <3>1, <3>2, SubIsLedger
  <2>4. IsProject(new) BY <2>2, <2>3 DEF IsProject, Uncounted
  <2>5. PICK s : SoundSync(p, s) /\ Becomes(p, s) BY <1>5, <2>1, <2>4, SubmitSound
  <2> QED BY <1>1, <1>5, <2>5, WorkerStep
<1> QED BY <1>3, <1>4, <1>5 DEF Uncount

(* The finalizer goes by an admitted write.                                *)
LEMMA SealInv == ASSUME IInv, NEW p \in Projects, Seal(p) PROVE IInv'
<1> DEFINE new == [projects[p] EXCEPT !.fin = FALSE]
<1>1. UNCHANGED <<listed, cached, projects, namespaces, user, edits>> /\ faults' \in Nat
  BY Holds DEF Seal, storeUnchanged
<1>2. CASE Requeue(p)
  <2>1. Becomes(p, Idle) /\ dirty' \subseteq dirty \cup {p} BY <1>2 DEF Requeue, Done
  <2> QED BY <1>1, <2>1, IdleIsSync, WorkerStep
<1>3. CASE /\ Present(projects[p]) /\ Admits(p, new, projects[p])
           /\ Submit(p, "finalize", p, new) /\ UNCHANGED dirty
  <2>1. IsProject(projects[p]) BY Holds
  <2>2. IsProject(new) BY <2>1 DEF IsProject
  <2>3. PICK s : SoundSync(p, s) /\ Becomes(p, s) BY <1>3, <2>2, SubmitSound
  <2> QED BY <1>1, <1>3, <2>3, WorkerStep
<1> QED BY <1>2, <1>3 DEF Seal

(* A finalized project is removed.                                         *)
LEMMA PurgeInv == ASSUME IInv, NEW p \in Projects, Purge(p) PROVE IInv'
<1>1. UNCHANGED <<namespaces, listed, cached, user, edits>> /\ faults' \in Nat
  BY Holds DEF Purge
<1>2. Becomes(p, Idle) /\ dirty' \subseteq dirty \cup {p} BY DEF Purge, Requeue, Done
<1>3. CASE UNCHANGED projects
  BY <1>1, <1>2, <1>3, IdleIsSync, WorkerStep
<1>4. CASE projects' = [projects EXCEPT ![p] = AfterDelete(p)]
  <2>1. DOMAIN projects' = Projects
        /\ \A q \in Projects : IsProject(projects'[q]) /\ WithinHard(projects'[q])
    BY <1>4, DeleteSound
  <2> QED BY <1>1, <1>2, <2>1, IdleIsSync, WorkerStores
<1> QED BY <1>3, <1>4 DEF Purge

(* After its write a worker is idle or goes on without a write.            *)
LEMMA ProceedSound ==
    ASSUME IInv, NEW p \in Projects, NEW pc \in {"seal", "purge"}, Proceed(p, pc)
    PROVE  \E s : SoundSync(p, s) /\ Becomes(p, s)
<1> DEFINE s == [sync[p] EXCEPT !.pc = pc, !.write = NoWrite]
<1>1. IsSync(sync[p]) BY Holds
<1>2. IsSync(s) /\ s.pc = pc BY <1>1, NoWriteIsWrite DEF IsSync
<1>3. SoundSync(p, s) BY <1>2 DEF SoundSync
<1>4. Becomes(p, s) BY DEF Proceed
<1> QED BY <1>3, <1>4

(* A worker's admitted write is stored.                                    *)
LEMMA CommitInv == ASSUME IInv, NEW p \in Projects, Commit(p) PROVE IInv'
<1>1. IsSync(sync[p]) /\ SoundSync(p, sync[p]) BY Holds
<1>2. /\ IsWrite(sync[p].write) /\ Sound(sync[p].write) /\ IsProject(sync[p].obj)
      /\ sync[p].write.kind \in {"count", "uncount", "finalize"}
  BY <1>1 DEF IsSync, SoundSync, Commit
<1>3. DOMAIN projects' = Projects
      /\ \A q \in Projects : IsProject(projects'[q]) /\ WithinHard(projects'[q])
  BY <1>2, StoreSound DEF Commit
<1>4. UNCHANGED <<listed, dirty, namespaces, user, edits>> /\ faults' \in Nat
  BY Holds DEF Commit
<1>5. CASE sync[p].write.kind = "count"
  <2>1. Becomes(p, Idle) /\ cached' = [cached EXCEPT ![p] = sync[p].obj]
    BY <1>5 DEF Commit, AfterCommit, Done
  <2> QED BY <1>2, <1>3, <1>4, <2>1, IdleIsSync, WorkerStores
<1>6. CASE sync[p].write.kind \in {"uncount", "finalize"}
  <2>1. (Proceed(p, "seal") \/ Proceed(p, "purge")) /\ UNCHANGED cached
    BY <1>6 DEF Commit, AfterCommit
  <2>2. PICK s : SoundSync(p, s) /\ Becomes(p, s) BY <2>1, ProceedSound
  <2> QED BY <1>3, <1>4, <2>1, <2>2, WorkerStores
<1> QED BY <1>2, <1>5, <1>6

(* A worker's write conflicts.                                             *)
LEMMA CommitRefusedInv == ASSUME IInv, NEW p \in Projects, CommitRefused(p) PROVE IInv'
<1>1. IsProject(sync[p].obj) BY Holds DEF IsSync
<1>2. UNCHANGED <<listed, projects, namespaces, user, edits>> /\ faults' \in Nat
  BY Holds DEF CommitRefused, storeUnchanged
<1>3. CASE Becomes(p, Idle) /\ dirty' \subseteq dirty \cup {p}
           /\ (cached' = cached \/ cached' = [cached EXCEPT ![p] = sync[p].obj])
  BY <1>1, <1>2, <1>3, IdleIsSync, WorkerStep
<1>4. CASE Proceed(p, "seal") /\ UNCHANGED <<cached, dirty>>
  <2>1. PICK s : SoundSync(p, s) /\ Becomes(p, s) BY <1>4, ProceedSound
  <2> QED BY <1>2, <1>4, <2>1, WorkerStep
<1> QED BY <1>3, <1>4 DEF CommitRefused, Requeue, Done

------------------------------------------------------------------------------
(* Failures and users.                                                     *)

(* A write is stored and its answer lost.                                  *)
LEMMA CommitLostInv == ASSUME IInv, NEW p \in Projects, CommitLost(p) PROVE IInv'
<1>1. IsSync(sync[p]) /\ SoundSync(p, sync[p]) BY Holds
<1>2. IsWrite(sync[p].write) /\ Sound(sync[p].write)
  BY <1>1 DEF IsSync, SoundSync, CommitLost
<1>3. DOMAIN projects' = Projects
      /\ \A q \in Projects : IsProject(projects'[q]) /\ WithinHard(projects'[q])
  BY <1>2, StoreSound DEF CommitLost
<1>4. UNCHANGED <<listed, cached, namespaces, user, edits>> /\ faults' \in Nat
  BY Holds DEF CommitLost, Fault
<1>5. CASE UNCHANGED <<sync, dirty>>
  <2>1. TypeOK' BY <1>3, <1>4, <1>5 DEF IInv, TypeOK
  <2> QED BY <1>3, <1>4, <1>5, <2>1 DEF IInv, UsedWithinHard
<1>6. CASE Requeue(p)
  <2>1. Becomes(p, Idle) /\ dirty' \subseteq dirty \cup {p} BY <1>6 DEF Requeue, Done
  <2> QED BY <1>3, <1>4, <2>1, IdleIsSync, WorkerStores
<1> QED BY <1>5, <1>6 DEF CommitLost

(* A call of a worker fails.                                               *)
LEMMA CallFailsInv == ASSUME IInv, NEW p \in Projects, CallFails(p) PROVE IInv'
<1> DEFINE s == [sync[p] EXCEPT
                     !.err = TRUE,
                     !.pc = IF sync[p].pc = "content" THEN "kids" ELSE "uncount",
                     !.todo = IF sync[p].pc = "content" THEN ChildrenOf(p) ELSE {}]
<1>1. UNCHANGED <<listed, cached, projects, namespaces, user, edits>> /\ faults' \in Nat
  BY Holds DEF CallFails, Fault
<1>2. CASE Requeue(p)
  <2>1. Becomes(p, Idle) /\ dirty' \subseteq dirty \cup {p} BY <1>2 DEF Requeue, Done
  <2> QED BY <1>1, <2>1, IdleIsSync, WorkerStep
<1>3. CASE Becomes(p, s) /\ UNCHANGED dirty
  <2>1. IsSync(sync[p]) BY Holds
  <2>2. ChildrenOf(p) \subseteq Projects BY DEF ChildrenOf
  <2>3. IsSync(s) /\ s.pc \in {"kids", "uncount"} BY <2>1, <2>2 DEF IsSync
  <2>4. SoundSync(p, s) BY <2>3 DEF SoundSync
  <2> HIDE DEF s
  <2> QED BY <1>1, <1>3, <2>4, WorkerStep
<1> QED BY <1>2, <1>3 DEF CallFails

(* The controller restarts.                                                *)
LEMMA RestartInv == ASSUME IInv, Restart PROVE IInv'
<1>1. \A p \in Projects : IsSync(sync'[p]) /\ SoundSync(p, sync'[p])
  BY IdleIsSync DEF Restart
<1>2. \A p \in Projects : IsProject(cached'[p])
  BY NoObjectIsProject DEF Restart
<1>3. faults' \in Nat BY DEF Restart, Fault, IInv, TypeOK
<1>4. TypeOK' BY <1>1, <1>2, <1>3 DEF IInv, TypeOK, Restart
<1> QED BY <1>1, <1>4 DEF IInv, UsedWithinHard, Restart

(* An admitted request is a sound write.                                   *)
LEMMA RequestSound ==
    ASSUME IInv, NEW u \in Users, NEW p \in Projects, NEW kind \in {"create", "update"},
           NEW new, IsProject(new), WithinHard(new), Request(u, kind, p, new)
    PROVE  DOMAIN user' = Users /\ \A v \in Users : IsWrite(user'[v]) /\ SoundUser(user'[v])
<1> DEFINE w == [kind |-> kind, target |-> p, base |-> projects[p], new |-> new]
<1>1. IsProject(projects[p]) BY Holds
<1>2. IsWrite(w) BY <1>1 DEF IsWrite
<1>3. SoundUser(w) BY <1>2 DEF SoundUser, Sound
<1>4. user' = [user EXCEPT ![u] = w] BY DEF Request
<1>5. DOMAIN user = Users /\ \A v \in Users : IsWrite(user[v]) /\ SoundUser(user[v])
  BY DEF IInv, TypeOK
<1> HIDE DEF w
<1> QED BY <1>2, <1>3, <1>4, <1>5

(* A user's create is admitted.                                            *)
LEMMA UserCreateInv ==
    ASSUME IInv, NEW u \in Users, NEW p \in Projects, UserCreate(u, p) PROVE IInv'
<1>1. PICK spec \in Specs : Request(u, "create", p, NewProject(p, spec))
  BY DEF UserCreate
<1>2. IsProject(NewProject(p, spec)) /\ WithinHard(NewProject(p, spec))
  BY NewProjectType DEF IInv
<1>3. DOMAIN user' = Users /\ \A v \in Users : IsWrite(user'[v]) /\ SoundUser(user'[v])
  BY <1>1, <1>2, RequestSound
<1>4. TypeOK' BY <1>3 DEF IInv, TypeOK, UserCreate, controllerVars
<1> QED BY <1>3, <1>4 DEF IInv, UsedWithinHard, UserCreate, controllerVars

(* A user's edit is admitted.                                              *)
LEMMA UserUpdateInv ==
    ASSUME IInv, NEW u \in Users, NEW p \in Projects, UserUpdate(u, p) PROVE IInv'
<1>1. edits' \in Nat
  <2>1. edits \in Nat BY DEF IInv, TypeOK
  <2>2. edits' = edits + 1 BY DEF UserUpdate
  <2> QED BY <2>1, <2>2
<1>2. PICK new \in {[projects[p] EXCEPT !.bound = spec.bound, !.hard = spec.hard] : spec \in Specs}
                   \cup (IF Locking THEN {[projects[p] EXCEPT !.locked = ~@]} ELSE {}) :
          Admits(p, new, projects[p]) /\ Request(u, "update", p, new)
  BY DEF UserUpdate
<1>3. IsProject(projects[p]) /\ Present(projects[p]) BY Holds DEF UserUpdate
<1>4. IsProject(new)
  <2>1. ASSUME NEW spec \in Specs
        PROVE  IsProject([projects[p] EXCEPT !.bound = spec.bound, !.hard = spec.hard])
    <3>1. IsLedger(spec.hard) /\ spec.bound \subseteq Clusters BY BoundAssumption
    <3> QED BY <1>3, <3>1 DEF IsProject
  <2>2. IsProject([projects[p] EXCEPT !.locked = ~@]) BY <1>3 DEF IsProject
  <2> QED BY <2>1, <2>2
<1>5. WithinHard(new) BY <1>2, <1>3, <1>4, AdmittedWithinHard
<1>6. DOMAIN user' = Users /\ \A v \in Users : IsWrite(user'[v]) /\ SoundUser(user'[v])
  BY <1>2, <1>4, <1>5, RequestSound
<1>7. TypeOK' BY <1>1, <1>6 DEF IInv, TypeOK, UserUpdate, controllerVars
<1> QED BY <1>6, <1>7 DEF IInv, UsedWithinHard, UserUpdate, controllerVars

(* A user's write is stored or conflicts.                                  *)
LEMMA UserCommitInv == ASSUME IInv, NEW u \in Users, UserCommit(u) PROVE IInv'
<1>1. IsWrite(user[u]) /\ Sound(user[u]) BY DEF IInv, SoundUser, UserCommit
<1>2. DOMAIN projects' = Projects
      /\ \A q \in Projects : IsProject(projects'[q]) /\ WithinHard(projects'[q])
  <2>1. CASE Store(user[u]) BY <1>1, <2>1, StoreSound
  <2>2. CASE UNCHANGED projects BY <2>2 DEF IInv, TypeOK, UsedWithinHard
  <2> QED BY <2>1, <2>2 DEF UserCommit
<1>3. DOMAIN user' = Users /\ \A v \in Users : IsWrite(user'[v]) /\ SoundUser(user'[v])
  BY NoWriteIsWrite DEF IInv, TypeOK, UserCommit
<1>4. TypeOK' BY <1>2, <1>3 DEF IInv, TypeOK, UserCommit, controllerVars
<1> QED BY <1>2, <1>3, <1>4 DEF IInv, UsedWithinHard, UserCommit, controllerVars

(* A user deletes a project.                                               *)
LEMMA UserDeleteInv == ASSUME IInv, NEW p \in Projects, UserDelete(p) PROVE IInv'
<1>1. DOMAIN projects' = Projects
      /\ \A q \in Projects : IsProject(projects'[q]) /\ WithinHard(projects'[q])
  BY DeleteSound DEF UserDelete
<1>2. TypeOK' BY <1>1 DEF IInv, TypeOK, UserDelete, controllerVars
<1> QED BY <1>1, <1>2 DEF IInv, UsedWithinHard, UserDelete, controllerVars

------------------------------------------------------------------------------
(* The invariant holds initially and every step keeps it.                  *)

(* The empty store with an idle controller satisfies the invariant.       *)
LEMMA InitInv == Init => IInv
<1> SUFFICES ASSUME Init PROVE IInv OBVIOUS
<1>1. TypeOK
  BY NoObjectIsProject, NoWriteIsWrite, IdleIsSync, NothingIsLedger
     DEF Init, TypeOK, IsNamespace, NoNamespace
<1> QED BY <1>1, NoObjectIsProject, NoWriteIsWrite, IdleIsSync DEF Init, IInv, UsedWithinHard

(* Doing nothing keeps the invariant.                                     *)
LEMMA StutterInv == ASSUME IInv, UNCHANGED vars PROVE IInv'
<1>1. TypeOK' BY DEF IInv, TypeOK, vars, controllerVars
<1> QED BY <1>1 DEF IInv, UsedWithinHard, vars, controllerVars

(* Every step keeps the invariant.                                        *)
LEMMA NextInv == IInv /\ [Next]_vars => IInv'
<1> SUFFICES ASSUME IInv, [Next]_vars PROVE IInv' OBVIOUS
<1>1. CASE \E p \in Projects : Deliver(p)
  BY <1>1, DeliverInv
<1>2. ASSUME NEW p \in Projects, Work(p) PROVE IInv'
  BY <1>2, SyncDeletedInv, SyncActiveInv, SyncTerminatingInv, CountChildInv, GetDoomedInv,
     DropContentInv, DeleteKidInv, KidsDoneInv, UncountInv, SealInv, PurgeInv, CommitInv,
     CommitRefusedInv DEF Work
<1>3. CASE \E u \in Users : UserCommit(u)
  BY <1>3, UserCommitInv
<1>4. CASE Failure
  BY <1>4, RestartInv, CommitLostInv, CallFailsInv DEF Failure
<1>5. CASE Environment
  BY <1>5, UserDeleteInv, UserCreateInv, UserUpdateInv DEF Environment
<1>6. CASE UNCHANGED vars
  BY <1>6, StutterInv
<1> QED BY <1>1, <1>2, <1>3, <1>4, <1>5, <1>6 DEF Next

(* Every step of the controller, of users and of failures keeps the        *)
(* inductive invariant.                                                    *)
THEOREM Inductive == Spec => []IInv
BY InitInv, NextInv, PTL DEF Spec

(* The variables have their types in every state.                          *)
THEOREM TypeCorrect == Spec => []TypeOK
<1>1. IInv => TypeOK BY DEF IInv
<1> QED BY <1>1, Inductive, PTL

(* No project ever has more in use than its quota, nor a negative entry:   *)
(* the validation of status updates and of edits, joined with the          *)
(* comparison of resourceVersions, is enough whatever the number of        *)
(* writers.                                                                *)
THEOREM UsedNeverExceedsHard == Spec => []UsedWithinHard
<1>1. IInv => UsedWithinHard BY DEF IInv
<1> QED BY <1>1, Inductive, PTL

------------------------------------------------------------------------------
(***************************************************************************)
(* The lives of counted children.                                          *)
(*                                                                         *)
(* KidsExist, FinalizedIsUncounted and OnlyDyingLeave are not inductive.   *)
(* They hold because a worker that deletes a project knows things about it *)
(* that stay true while others write: the project is being deleted and     *)
(* keeps its finalizer until this worker takes it, and from the moment the *)
(* worker has seen it out of its parent's ledger nobody puts it back, as   *)
(* only the worker of a key counts it.  Across two syncs of one key that   *)
(* last fact needs the informer: the cached copy must not be older than    *)
(* the deletion, and that is where a name that is used twice breaks the    *)
(* argument.                                                               *)
(***************************************************************************)

(* A worker deletes from the moment it asks for the project: it empties    *)
(* the project until the finalizer is gone, and seals it once it is out of *)
(* the ledger of its parent.                                               *)
Writes(s, kind) == s.pc = "commit" /\ s.write.kind = kind

Counting(s) == s.pc = "count" \/ Writes(s, "count")

Emptying(s) ==
    s.pc \in {"content", "kids", "uncount", "seal"} \/ Writes(s, "uncount") \/ Writes(s, "finalize")

Sealing(s) == s.pc = "seal" \/ Writes(s, "finalize")

Deleting(s) == s.pc \in {"get", "purge"} \/ Emptying(s)

(* Two versions of one object at the same stage of its life.               *)
SameLife(obj, was) == obj.phase = was.phase /\ obj.uid = was.uid /\ obj.fin = was.fin

(* What the write a worker waits for changes of the object it was computed *)
(* from.                                                                   *)
Shape(p, s) ==
    LET w == s.write
    IN  /\ Writes(s, "count") =>
              /\ w.target = Parent[p] /\ Present(w.base) /\ SameLife(w.new, w.base)
              /\ w.new.kids = w.base.kids \cup {p}
        /\ Writes(s, "uncount") =>
              /\ w.target = Parent[p] /\ Present(w.base) /\ SameLife(w.new, w.base)
              /\ w.new.kids = w.base.kids \ {p}
        /\ Writes(s, "finalize") =>
              /\ w.target = p
              /\ w.new.phase = w.base.phase /\ w.new.uid = w.base.uid
              /\ w.new.kids = w.base.kids /\ ~w.new.fin

(* The same for a user.                                                    *)
Meant(w) ==
    /\ w.kind \in {"none", "create", "update"}
    /\ w.kind = "update" =>
          /\ Present(w.base) /\ SameLife(w.new, w.base) /\ w.new.kids = w.base.kids
    /\ w.kind = "create" =>
          /\ ~Present(w.base) /\ w.new.uid = w.base.uid + 1
          /\ w.new.phase = "Active" /\ w.new.fin /\ w.new.kids = {}

(* An active project has its finalizer, a free name nothing.               *)
Life(p) ==
    /\ projects[p].phase = "Active" => projects[p].fin
    /\ ~Present(projects[p]) => ~projects[p].fin /\ projects[p].kids = {}
    /\ projects[p].uid = 0 => ~Present(projects[p])

(* The ledger of a project counts its own children only, and none whose    *)
(* finalizer is gone.                                                      *)
Held(p) ==
    \A k \in projects[p].kids : Parent[k] = p /\ (FirstUse(k) => projects[k].fin)

(* What the cache says of a name that has been used once at most.          *)
Informed(p) ==
    FirstUse(p) =>
        /\ projects[p].uid = 0 => listed[p].phase = "Absent"
        /\ listed[p].phase = "Terminating" => projects[p].phase # "Active"
        /\ listed[p].phase = "Active" => projects[p].fin

(* What a worker in state s may rely on.                                   *)
Fits(p, s) ==
    /\ Shape(p, s)
    /\ Emptying(s) => projects[p].phase = "Terminating" /\ projects[p].fin
    /\ Sealing(s) => Parent[p] = NoProject \/ p \notin projects[Parent[p]].kids
    /\ FirstUse(p) =>
          /\ projects[p].uid = 0 => s.pc = "idle"
          /\ Deleting(s) => projects[p].phase # "Active" /\ listed[p].phase # "Active"
          /\ Counting(s) => projects[p].fin

Facts ==
    /\ \A p \in Projects : Life(p) /\ Held(p) /\ Informed(p) /\ Fits(p, sync[p])
    /\ \A u \in Users : Meant(user[u])

KInv == IInv /\ Facts

------------------------------------------------------------------------------
(* How the facts survive a change.                                         *)

(* The store is a function of the names.                                   *)
LEMMA Stored ==
    ASSUME KInv, NEW t \in Projects, NEW new, projects' = [projects EXCEPT ![t] = new]
    PROVE  \A q \in Projects : projects'[q] = IF q = t THEN new ELSE projects[q]
BY DEF KInv, IInv, TypeOK

(* A step that only moves the worker of one key, to a state that fits,     *)
(* keeps every fact.                                                       *)
LEMMA WorkerMoves ==
    ASSUME KInv, NEW p \in Projects, NEW s, Fits(p, s), Becomes(p, s),
           UNCHANGED <<projects, listed, user>>
    PROVE  Facts'
<1>1. \A q \in Projects : sync'[q] = IF q = p THEN s ELSE sync[q]
  BY DEF KInv, IInv, TypeOK, Becomes
<1>2. ASSUME NEW q \in Projects
      PROVE  Life(q)' /\ Held(q)' /\ Informed(q)'
  BY DEF KInv, Facts, Life, Held, Informed, FirstUse, Present
<1>3. ASSUME NEW q \in Projects
      PROVE  Fits(q, sync[q])'
  <2>1. PICK r : r = IF q = p THEN s ELSE sync[q] OBVIOUS
  <2>2. Fits(q, r) BY <2>1 DEF KInv, Facts
  <2>3. Fits(q, r)' BY <2>2 DEF Fits, Shape, FirstUse
  <2>4. sync'[q] = r BY <1>1, <2>1
  <2> QED BY <2>3, <2>4
<1>4. \A u \in Users : Meant(user[u])' BY DEF KInv, Facts, Meant
<1> QED BY <1>2, <1>3, <1>4 DEF Facts

(* A worker that is idle relies on nothing.                                *)
LEMMA IdleFits == ASSUME NEW p PROVE Fits(p, Idle)
BY DEF Fits, Shape, Idle, Writes, Counting, Emptying, Sealing, Deleting

(* So ending a sync keeps every fact.                                      *)
LEMMA SyncEnds ==
    ASSUME KInv, NEW p \in Projects, Done(p), UNCHANGED <<projects, listed, user>>
    PROVE  Facts'
BY IdleFits, WorkerMoves DEF Done

(* A write that leaves the life of an object alone and changes at most its *)
(* children.                                                               *)
LEMMA SteadyStore ==
    ASSUME KInv, NEW t \in Projects, NEW new, SameLife(new, projects[t]),
           Present(projects[t]), projects' = [projects EXCEPT ![t] = new], UNCHANGED listed,
           \A k \in new.kids : Parent[k] = t /\ (FirstUse(k) => projects[k].fin),
           new.kids \subseteq Projects
    PROVE  \A q \in Projects : Life(q)' /\ Held(q)' /\ Informed(q)'
<1>1. \A q \in Projects : projects'[q] = IF q = t THEN new ELSE projects[q]
  BY Stored
<1>2. \A q \in Projects : SameLife(projects'[q], projects[q])
  BY <1>1 DEF SameLife
<1>3. ASSUME NEW q \in Projects PROVE Life(q)'
  BY <1>1, <1>2 DEF KInv, Facts, Life, SameLife, Present
<1>4. ASSUME NEW q \in Projects PROVE Informed(q)'
  BY <1>2 DEF KInv, Facts, Informed, SameLife, FirstUse
<1>5. ASSUME NEW q \in Projects PROVE Held(q)'
  <2>1. projects'[q].kids \subseteq Projects
    BY <1>1 DEF KInv, IInv, TypeOK, IsProject
  <2> QED BY <1>1, <1>2, <2>1 DEF KInv, Facts, Held, SameLife, FirstUse
<1> QED BY <1>3, <1>4, <1>5

(* ...and lets every worker rely on what it did, if it puts nobody back    *)
(* who was seen out of the ledger.                                         *)
LEMMA SteadyFits ==
    ASSUME KInv, NEW t \in Projects, NEW new, SameLife(new, projects[t]),
           projects' = [projects EXCEPT ![t] = new], UNCHANGED listed,
           NEW q \in Projects, NEW s, Fits(q, s),
           Sealing(s) /\ Parent[q] = t => q \notin new.kids
    PROVE  Fits(q, s)'
<1>1. \A r \in Projects : projects'[r] = IF r = t THEN new ELSE projects[r]
  BY Stored
<1>2. SameLife(projects'[q], projects[q]) BY <1>1 DEF SameLife
<1>3. Shape(q, s)' BY DEF Fits, Shape
<1>4. (Emptying(s) => projects[q].phase = "Terminating" /\ projects[q].fin)'
  BY <1>2 DEF Fits, SameLife
<1>5. (Sealing(s) => Parent[q] = NoProject \/ q \notin projects[Parent[q]].kids)'
  BY <1>1, TreeAssumption DEF Fits
<1>6. (FirstUse(q) =>
          /\ projects[q].uid = 0 => s.pc = "idle"
          /\ Deleting(s) => projects[q].phase # "Active" /\ listed[q].phase # "Active"
          /\ Counting(s) => projects[q].fin)'
  BY <1>2 DEF Fits, SameLife, FirstUse
<1> QED BY <1>3, <1>4, <1>5, <1>6 DEF Fits

(* A delete request that is not refused: the object starts being deleted,  *)
(* or it was finalized and its name becomes free.                          *)
LEMMA DeletedObject ==
    ASSUME KInv, NEW t \in Projects, Present(projects[t]), ~DeleteRefused(t)
    PROVE  /\ AfterDelete(t).uid = projects[t].uid
           /\ AfterDelete(t).fin = projects[t].fin
           /\ AfterDelete(t).phase # "Active"
           /\ AfterDelete(t).kids \subseteq projects[t].kids
           /\ ~Present(AfterDelete(t)) => ~AfterDelete(t).fin /\ AfterDelete(t).kids = {}
           /\ Present(AfterDelete(t)) => AfterDelete(t).kids = projects[t].kids
<1>1. IsProject(projects[t]) BY DEF KInv, IInv, TypeOK
<1>2. CASE projects[t].phase = "Active"
  BY <1>1, <1>2 DEF AfterDelete, IsProject, Present
<1>3. CASE projects[t].phase # "Active"
  <2>1. ~projects[t].fin BY <1>1, <1>3 DEF DeleteRefused, Present, IsProject
  <2>2. AfterDelete(t) = NoObject(projects[t].uid) BY <1>3 DEF AfterDelete
  <2>3. /\ AfterDelete(t).uid = projects[t].uid /\ AfterDelete(t).fin = FALSE
        /\ AfterDelete(t).phase = "Absent" /\ AfterDelete(t).kids = {}
    BY <2>2 DEF NoObject
  <2>4. projects[t].fin = FALSE BY <1>1, <2>1 DEF IsProject
  <2> QED BY <2>3, <2>4 DEF Present
<1> QED BY <1>2, <1>3

(* Such a request keeps what is said of the objects.                       *)
LEMMA DeleteStore ==
    ASSUME KInv, NEW t \in Projects, Present(projects[t]), ~DeleteRefused(t),
           projects' = [projects EXCEPT ![t] = AfterDelete(t)], UNCHANGED listed
    PROVE  \A q \in Projects : Life(q)' /\ Held(q)' /\ Informed(q)'
<1> DEFINE gone == AfterDelete(t)
<1>1. \A q \in Projects : projects'[q] = IF q = t THEN gone ELSE projects[q]
  BY Stored
<1>2. /\ gone.uid = projects[t].uid /\ gone.fin = projects[t].fin
      /\ gone.phase # "Active" /\ gone.kids \subseteq projects[t].kids
      /\ ~Present(gone) => ~gone.fin /\ gone.kids = {}
  BY DeletedObject
<1> HIDE DEF gone
<1>3. ASSUME NEW q \in Projects PROVE Life(q)'
  BY <1>1, <1>2 DEF KInv, Facts, Life, Present
<1>4. ASSUME NEW q \in Projects PROVE Informed(q)'
  BY <1>1, <1>2 DEF KInv, Facts, Informed, FirstUse
<1>5. ASSUME NEW q \in Projects PROVE Held(q)'
  <2>1. projects[q].kids \subseteq Projects BY DEF KInv, IInv, TypeOK, IsProject
  <2> QED BY <1>1, <1>2, <2>1 DEF KInv, Facts, Held, FirstUse
<1> QED BY <1>3, <1>4, <1>5

(* ...and what every worker relies on: an object a worker empties refuses  *)
(* the request.                                                            *)
LEMMA DeleteFits ==
    ASSUME KInv, NEW t \in Projects, Present(projects[t]), ~DeleteRefused(t),
           projects' = [projects EXCEPT ![t] = AfterDelete(t)], UNCHANGED listed,
           NEW q \in Projects, NEW s, Fits(q, s)
    PROVE  Fits(q, s)'
<1> DEFINE gone == AfterDelete(t)
<1>1. \A r \in Projects : projects'[r] = IF r = t THEN gone ELSE projects[r]
  BY Stored
<1>2. /\ gone.uid = projects[t].uid /\ gone.fin = projects[t].fin
      /\ gone.phase # "Active" /\ gone.kids \subseteq projects[t].kids
  BY DeletedObject
<1> HIDE DEF gone
<1>3. Shape(q, s)' BY DEF Fits, Shape
<1>4. (Emptying(s) => projects[q].phase = "Terminating" /\ projects[q].fin)'
  BY <1>1 DEF Fits, DeleteRefused
<1>5. (Sealing(s) => Parent[q] = NoProject \/ q \notin projects[Parent[q]].kids)'
  BY <1>1, <1>2, TreeAssumption DEF Fits
<1>6. (FirstUse(q) =>
          /\ projects[q].uid = 0 => s.pc = "idle"
          /\ Deleting(s) => projects[q].phase # "Active" /\ listed[q].phase # "Active"
          /\ Counting(s) => projects[q].fin)'
  BY <1>1, <1>2 DEF Fits, FirstUse
<1> QED BY <1>3, <1>4, <1>5, <1>6 DEF Fits

(* The finalizer is taken by the worker that saw the project out of its    *)
(* parent's ledger; no older copy of the project is left to count.         *)
LEMMA FinalizeStore ==
    ASSUME KInv, NEW p \in Projects, NEW new, Writes(sync[p], "finalize"),
           new.phase = projects[p].phase, new.uid = projects[p].uid,
           new.kids = projects[p].kids, ~new.fin,
           projects' = [projects EXCEPT ![p] = new], UNCHANGED listed
    PROVE  \A q \in Projects : Life(q)' /\ Held(q)' /\ Informed(q)'
<1>1. \A q \in Projects : projects'[q] = IF q = p THEN new ELSE projects[q]
  BY Stored
<1>2. projects[p].phase = "Terminating"
  BY DEF KInv, Facts, Fits, Emptying
<1>3. Parent[p] = NoProject \/ p \notin projects[Parent[p]].kids
  BY DEF KInv, Facts, Fits, Sealing
<1>4. FirstUse(p) => listed[p].phase # "Active"
  BY DEF KInv, Facts, Fits, Deleting, Emptying
<1>5. ASSUME NEW q \in Projects PROVE Life(q)'
  BY <1>1, <1>2 DEF KInv, Facts, Life, Present
<1>6. ASSUME NEW q \in Projects PROVE Informed(q)'
  BY <1>1, <1>2, <1>4 DEF KInv, Facts, Informed, FirstUse
<1>7. ASSUME NEW q \in Projects PROVE Held(q)'
  <2>1. projects[q].kids \subseteq Projects BY DEF KInv, IInv, TypeOK, IsProject
  <2>2. projects'[q].kids = projects[q].kids BY <1>1
  <2>3. \A k \in projects[q].kids : k # p
    BY <1>3, TreeAssumption DEF KInv, Facts, Held
  <2> QED BY <1>1, <2>1, <2>2, <2>3 DEF KInv, Facts, Held, FirstUse
<1> QED BY <1>5, <1>6, <1>7

(* The other workers do not notice.                                        *)
LEMMA FinalizeFits ==
    ASSUME KInv, NEW p \in Projects, NEW new,
           new.phase = projects[p].phase, new.uid = projects[p].uid,
           new.kids = projects[p].kids,
           projects' = [projects EXCEPT ![p] = new], UNCHANGED listed,
           NEW q \in Projects, q # p, NEW s, Fits(q, s)
    PROVE  Fits(q, s)'
<1>1. \A r \in Projects : projects'[r] = IF r = p THEN new ELSE projects[r]
  BY Stored, ZenonT(40)
<1>2. Shape(q, s)' BY DEF Fits, Shape
<1>3. (Sealing(s) => Parent[q] = NoProject \/ q \notin projects[Parent[q]].kids)'
  BY <1>1, TreeAssumption DEF Fits
<1>4. (Emptying(s) => projects[q].phase = "Terminating" /\ projects[q].fin)'
  BY <1>1 DEF Fits
<1>5. (FirstUse(q) =>
          /\ projects[q].uid = 0 => s.pc = "idle"
          /\ Deleting(s) => projects[q].phase # "Active" /\ listed[q].phase # "Active"
          /\ Counting(s) => projects[q].fin)'
  BY <1>1 DEF Fits, FirstUse
<1> QED BY <1>2, <1>3, <1>4, <1>5 DEF Fits

------------------------------------------------------------------------------
(* The steps that leave the store alone.                                   *)

(* The informer copies what is stored.                                     *)
LEMMA DeliverFacts == ASSUME KInv, NEW p \in Projects, Deliver(p) PROVE Facts'
<1>1. UNCHANGED <<projects, sync, user>> BY DEF Deliver, storeUnchanged
<1>2. \A q \in Projects : listed'[q] = IF q = p THEN projects[p] ELSE listed[q]
  BY DEF KInv, IInv, TypeOK, Deliver
<1>3. ASSUME NEW q \in Projects PROVE Life(q)' /\ Held(q)'
  BY <1>1 DEF KInv, Facts, Life, Held, FirstUse, Present
<1>4. ASSUME NEW q \in Projects PROVE Informed(q)'
  BY <1>1, <1>2 DEF KInv, Facts, Life, Informed, FirstUse, Present
<1>5. ASSUME NEW q \in Projects PROVE Fits(q, sync[q])'
  BY <1>1, <1>2 DEF KInv, Facts, Fits, Shape, FirstUse
<1>6. \A u \in Users : Meant(user[u])' BY <1>1 DEF KInv, Facts, Meant
<1> QED BY <1>3, <1>4, <1>5, <1>6 DEF Facts

(* A restart starts from what is stored, with no work begun.               *)
LEMMA RestartFacts == ASSUME KInv, Restart PROVE Facts'
<1>1. UNCHANGED <<projects, user>> /\ listed' = projects BY DEF Restart
<1>2. \A q \in Projects : sync'[q] = Idle BY DEF Restart
<1>3. ASSUME NEW q \in Projects PROVE Life(q)' /\ Held(q)'
  BY <1>1 DEF KInv, Facts, Life, Held, FirstUse, Present
<1>4. ASSUME NEW q \in Projects PROVE Informed(q)'
  BY <1>1 DEF KInv, Facts, Life, Informed, FirstUse, Present
<1>5. ASSUME NEW q \in Projects PROVE Fits(q, sync[q])'
  BY <1>2 DEF Fits, Shape, Idle, Writes, Counting, Emptying, Sealing, Deleting
<1>6. \A u \in Users : Meant(user[u])' BY <1>1 DEF KInv, Facts, Meant
<1> QED BY <1>3, <1>4, <1>5, <1>6 DEF Facts

(* What a key waits in, and what the cache processed, is in no fact.       *)
LEMMA SyncDeletedFacts == ASSUME KInv, NEW p \in Projects, SyncDeleted(p) PROVE Facts'
<1>1. UNCHANGED <<projects, listed, sync, user>> BY DEF SyncDeleted, storeUnchanged
<1> QED BY <1>1 DEF KInv, Facts, Life, Held, Informed, Fits, Shape, Meant, FirstUse, Present

(* A worker that starts to count has a copy of a project that is not       *)
(* finalized.                                                              *)
LEMMA SyncActiveFacts == ASSUME KInv, NEW p \in Projects, SyncActive(p) PROVE Facts'
<1>1. UNCHANGED <<projects, listed, user>> BY DEF SyncActive, storeUnchanged
<1>2. CASE Parent[p] = NoProject
  <2>1. UNCHANGED sync BY <1>2 DEF SyncActive
  <2> QED BY <1>1, <2>1
          DEF KInv, Facts, Life, Held, Informed, Fits, Shape, Meant, FirstUse, Present
<1>3. CASE Parent[p] # NoProject
  <2> DEFINE s == [sync[p] EXCEPT !.pc = "count", !.obj = listed[p], !.prev = cached[p]]
  <2>1. Becomes(p, s) BY <1>3 DEF SyncActive
  <2>2. IsSync(sync[p]) BY DEF KInv, IInv, TypeOK
  <2>3. s.pc = "count" BY <2>2 DEF IsSync
  <2>4. listed[p].phase = "Active" BY DEF SyncActive
  <2> HIDE DEF s
  <2>5. Fits(p, s)
    BY <2>3, <2>4
       DEF KInv, Facts, Informed, Fits, Shape, Writes, Counting, Emptying, Sealing, Deleting
  <2> QED BY <1>1, <2>1, <2>5, WorkerMoves
<1> QED BY <1>2, <1>3

(* A worker that starts to delete has seen the project being deleted.      *)
LEMMA SyncTerminatingFacts == ASSUME KInv, NEW p \in Projects, SyncTerminating(p) PROVE Facts'
<1> DEFINE s == [sync[p] EXCEPT !.pc = "get"]
<1>1. UNCHANGED <<projects, listed, user>> /\ Becomes(p, s)
  BY DEF SyncTerminating, storeUnchanged, Step
<1>2. IsSync(sync[p]) BY DEF KInv, IInv, TypeOK
<1>3. s.pc = "get" BY <1>2 DEF IsSync
<1>4. listed[p].phase = "Terminating" BY DEF SyncTerminating
<1> HIDE DEF s
<1>5. Fits(p, s)
  BY <1>3, <1>4
     DEF KInv, Facts, Informed, Fits, Shape, Writes, Counting, Emptying, Sealing, Deleting
<1> QED BY <1>1, <1>5, WorkerMoves

(* What fits a worker that waits for a write it has submitted.             *)
LEMMA Submitted ==
    ASSUME KInv, NEW p \in Projects, NEW t \in Projects, NEW new,
           NEW kind \in {"count", "uncount", "finalize"}, Submit(p, kind, t, new)
    PROVE  \E s : /\ Becomes(p, s) /\ s.pc = "commit" /\ s.write.kind = kind
                  /\ s.write.target = t /\ s.write.base = projects[t] /\ s.write.new = new
                  /\ s.obj = sync[p].obj /\ s.prev = sync[p].prev
<1> DEFINE w == [kind |-> kind, target |-> t, base |-> projects[t], new |-> new]
           s == [sync[p] EXCEPT !.pc = "commit", !.write = w]
<1>1. IsSync(sync[p]) BY DEF KInv, IInv, TypeOK
<1>2. Becomes(p, s) BY DEF Submit
<1>3. s.pc = "commit" /\ s.write = w /\ s.obj = sync[p].obj /\ s.prev = sync[p].prev
  BY <1>1 DEF IsSync
<1>4. w.kind = kind /\ w.target = t /\ w.base = projects[t] /\ w.new = new
  OBVIOUS
<1> HIDE DEF s, w
<1> QED BY <1>2, <1>3, <1>4

(* A child's worker reads the parent and decides.                          *)
LEMMA CountChildFacts == ASSUME KInv, NEW p \in Projects, CountChild(p) PROVE Facts'
<1> DEFINE parent == projects[Parent[p]]
           new == IF p \notin parent.kids THEN Counted(p, parent) ELSE Recounted(p, parent)
<1>1. UNCHANGED <<projects, listed, user>> BY DEF CountChild, storeUnchanged
<1>2. sync[p].pc = "count" /\ Parent[p] \in Projects /\ IsProject(parent)
  BY DEF CountChild, KInv, IInv, SoundSync, TypeOK
<1>3. CASE Done(p) BY <1>1, <1>3, SyncEnds
<1>4. CASE Present(parent) /\ Submit(p, "count", Parent[p], new)
  <2>1. SameLife(new, parent) /\ new.kids = parent.kids \cup {p}
    <3>1. CASE p \notin parent.kids BY <1>2, <3>1 DEF Counted, SameLife, IsProject
    <3>2. CASE p \in parent.kids BY <1>2, <3>2 DEF Recounted, SameLife, IsProject
    <3> QED BY <3>1, <3>2
  <2> HIDE DEF new
  <2>2. PICK s : /\ Becomes(p, s) /\ s.pc = "commit" /\ s.write.kind = "count"
                 /\ s.write.target = Parent[p] /\ s.write.base = parent /\ s.write.new = new
    BY <1>2, <1>4, Submitted
  <2>3. Fits(p, s)
    BY <1>2, <1>4, <2>1, <2>2
       DEF KInv, Facts, Fits, Shape, Writes, Counting, Emptying, Sealing, Deleting
  <2> QED BY <1>1, <2>2, <2>3, WorkerMoves
<1> QED BY <1>2, <1>3, <1>4 DEF CountChild, Requeue

(* The deleter goes on with what it may rely on: the object it has just    *)
(* read is still being deleted.                                            *)
LEMMA GetDoomedFacts == ASSUME KInv, NEW p \in Projects, GetDoomed(p) PROVE Facts'
<1> DEFINE s == [sync[p] EXCEPT !.pc  = IF projects[p].fin THEN "content" ELSE "purge",
                                !.obj = projects[p]]
<1>1. UNCHANGED <<projects, listed, user>> BY DEF GetDoomed, storeUnchanged
<1>2. IsSync(sync[p]) BY DEF KInv, IInv, TypeOK
<1>3. CASE projects[p].phase # "Terminating"
  <2>1. Done(p) BY <1>3 DEF GetDoomed
  <2> QED BY <1>1, <2>1, SyncEnds
<1>4. CASE projects[p].phase = "Terminating"
  <2>1. Becomes(p, s) BY <1>4 DEF GetDoomed
  <2>2. s.pc = IF projects[p].fin THEN "content" ELSE "purge" BY <1>2 DEF IsSync
  <2>3. sync[p].pc = "get" BY DEF GetDoomed
  <2> HIDE DEF s
  <2>4. Fits(p, s)
    BY <1>4, <2>2, <2>3
       DEF KInv, Facts, Fits, Shape, Writes, Counting, Emptying, Sealing, Deleting
  <2> QED BY <1>1, <2>1, <2>4, WorkerMoves
<1> QED BY <1>3, <1>4

(* A worker goes from one part of the emptying to the next.                *)
LEMMA EmptyingOn ==
    ASSUME KInv, NEW p \in Projects, Emptying(sync[p]), NEW s,
           s.pc \in {"content", "kids", "uncount"}
    PROVE  Fits(p, s)
BY DEF KInv, Facts, Fits, Shape, Writes, Counting, Emptying, Sealing, Deleting

(* The namespaces are dropped and the children listed.                     *)
LEMMA DropContentFacts == ASSUME KInv, NEW p \in Projects, DropContent(p) PROVE Facts'
<1> DEFINE s == [sync[p] EXCEPT !.pc = "kids", !.todo = ChildrenOf(p)]
<1>1. UNCHANGED <<projects, listed, user>> /\ Becomes(p, s) BY DEF DropContent
<1>2. s.pc = "kids" BY DEF KInv, IInv, TypeOK, IsSync
<1>3. Emptying(sync[p]) BY DEF DropContent, Emptying
<1> HIDE DEF s
<1> QED BY <1>1, <1>2, <1>3, EmptyingOn, WorkerMoves

(* The children have been asked to go.                                     *)
LEMMA KidsDoneFacts == ASSUME KInv, NEW p \in Projects, KidsDone(p) PROVE Facts'
<1> DEFINE s == [sync[p] EXCEPT !.pc = "uncount"]
<1>1. UNCHANGED <<projects, listed, user>> /\ Becomes(p, s)
  BY DEF KidsDone, storeUnchanged, Step
<1>2. s.pc = "uncount" BY DEF KInv, IInv, TypeOK, IsSync
<1>3. Emptying(sync[p]) BY DEF KidsDone, Emptying
<1> HIDE DEF s
<1> QED BY <1>1, <1>2, <1>3, EmptyingOn, WorkerMoves

(* The worker has seen the project out of its parent's ledger, or submits  *)
(* the write that takes it out.                                            *)
LEMMA UncountFacts == ASSUME KInv, NEW p \in Projects, Uncount(p) PROVE Facts'
<1> DEFINE parent == projects[Parent[p]]
           new == Uncounted(p, parent)
           out == Parent[p] = NoProject \/ (Present(parent) /\ p \notin parent.kids)
<1>1. UNCHANGED <<projects, listed, user>> BY DEF Uncount, storeUnchanged
<1>2. IsSync(sync[p]) /\ sync[p].pc = "uncount" BY DEF Uncount, KInv, IInv, TypeOK
<1>3. CASE Done(p) BY <1>1, <1>3, SyncEnds
<1>4. CASE out /\ Step(p, "seal")
  <2> DEFINE s == [sync[p] EXCEPT !.pc = "seal"]
  <2>1. Becomes(p, s) BY <1>4 DEF Step
  <2>2. s.pc = "seal" BY <1>2 DEF IsSync
  <2> HIDE DEF s
  <2>3. Fits(p, s)
    BY <1>2, <1>4, <2>2
       DEF KInv, Facts, Fits, Shape, Writes, Counting, Emptying, Sealing, Deleting
  <2> QED BY <1>1, <2>1, <2>3, WorkerMoves
<1>5. CASE ~out /\ Present(parent) /\ Submit(p, "uncount", Parent[p], new)
  <2>1. Parent[p] \in Projects BY <1>5, TreeAssumption
  <2>2. SameLife(new, parent) /\ new.kids = parent.kids \ {p}
    BY <2>1 DEF Uncounted, SameLife, IsProject, KInv, IInv, TypeOK
  <2> HIDE DEF new
  <2>3. PICK s : /\ Becomes(p, s) /\ s.pc = "commit" /\ s.write.kind = "uncount"
                 /\ s.write.target = Parent[p] /\ s.write.base = parent /\ s.write.new = new
    BY <1>5, <2>1, Submitted
  <2>4. Fits(p, s)
    BY <1>2, <1>5, <2>2, <2>3
       DEF KInv, Facts, Fits, Shape, Writes, Counting, Emptying, Sealing, Deleting
  <2> QED BY <1>1, <2>3, <2>4, WorkerMoves
<1> QED BY <1>2, <1>3, <1>4, <1>5 DEF Uncount, Requeue

(* The write that takes the finalizer away is submitted.                   *)
LEMMA SealFacts == ASSUME KInv, NEW p \in Projects, Seal(p) PROVE Facts'
<1> DEFINE new == [projects[p] EXCEPT !.fin = FALSE]
<1>1. UNCHANGED <<projects, listed, user>> BY DEF Seal, storeUnchanged
<1>2. sync[p].pc = "seal" BY DEF Seal
<1>3. CASE Done(p) BY <1>1, <1>3, SyncEnds
<1>4. CASE Submit(p, "finalize", p, new)
  <2>1. /\ new.phase = projects[p].phase /\ new.uid = projects[p].uid
        /\ new.kids = projects[p].kids /\ ~new.fin
    BY DEF KInv, IInv, TypeOK, IsProject
  <2> HIDE DEF new
  <2>2. PICK s : /\ Becomes(p, s) /\ s.pc = "commit" /\ s.write.kind = "finalize"
                 /\ s.write.target = p /\ s.write.base = projects[p] /\ s.write.new = new
    BY <1>4, Submitted
  <2>3. Fits(p, s)
    BY <1>2, <2>1, <2>2
       DEF KInv, Facts, Fits, Shape, Writes, Counting, Emptying, Sealing, Deleting
  <2> QED BY <1>1, <2>2, <2>3, WorkerMoves
<1> QED BY <1>3, <1>4 DEF Seal, Requeue

(* Where a worker goes once its write is answered.                         *)
LEMMA Proceeded ==
    ASSUME KInv, NEW p \in Projects, NEW pc \in {"seal", "purge"}, Proceed(p, pc)
    PROVE  \E s : /\ Becomes(p, s) /\ s.pc = pc /\ s.write = NoWrite
                  /\ s.obj = sync[p].obj /\ s.prev = sync[p].prev
<1> DEFINE s == [sync[p] EXCEPT !.pc = pc, !.write = NoWrite]
<1>1. Becomes(p, s) BY DEF Proceed
<1>2. s.pc = pc /\ s.write = NoWrite /\ s.obj = sync[p].obj /\ s.prev = sync[p].prev
  BY DEF KInv, IInv, TypeOK, IsSync
<1> HIDE DEF s
<1> QED BY <1>1, <1>2

(* A refused write ends the sync, except that the finalizer is tried       *)
(* again.                                                                  *)
LEMMA CommitRefusedFacts == ASSUME KInv, NEW p \in Projects, CommitRefused(p) PROVE Facts'
<1>1. UNCHANGED <<projects, listed, user>> BY DEF CommitRefused, storeUnchanged
<1>2. sync[p].pc = "commit" BY DEF CommitRefused
<1>3. CASE Done(p) BY <1>1, <1>3, SyncEnds
<1>4. CASE sync[p].write.kind = "finalize" /\ Proceed(p, "seal")
  <2>1. PICK s : Becomes(p, s) /\ s.pc = "seal" BY <1>4, Proceeded
  <2>2. Fits(p, s)
    BY <1>2, <1>4, <2>1
       DEF KInv, Facts, Fits, Shape, Writes, Counting, Emptying, Sealing, Deleting
  <2> QED BY <1>1, <2>1, <2>2, WorkerMoves
<1> QED BY <1>3, <1>4 DEF CommitRefused, Requeue

(* A failed call ends the sync, or is noted while the content is deleted.  *)
LEMMA CallFailsFacts == ASSUME KInv, NEW p \in Projects, CallFails(p) PROVE Facts'
<1> DEFINE s == [sync[p] EXCEPT
                   !.err = TRUE,
                   !.pc = IF sync[p].pc = "content" THEN "kids" ELSE "uncount",
                   !.todo = IF sync[p].pc = "content" THEN ChildrenOf(p) ELSE {}]
<1>1. UNCHANGED <<projects, listed, user>> BY DEF CallFails
<1>2. CASE Done(p) BY <1>1, <1>2, SyncEnds
<1>3. CASE sync[p].pc \in {"content", "kids"} /\ Becomes(p, s)
  <2>1. s.pc \in {"kids", "uncount"} BY DEF KInv, IInv, TypeOK, IsSync
  <2>2. Emptying(sync[p]) BY <1>3 DEF Emptying
  <2> HIDE DEF s
  <2> QED BY <1>1, <1>3, <2>1, <2>2, EmptyingOn, WorkerMoves
<1> QED BY <1>2, <1>3 DEF CallFails, Requeue

------------------------------------------------------------------------------
(* The steps that write the store.                                         *)

(* A worker deletes an object, its own or a child's.                       *)
LEMMA WorkerDeletes ==
    ASSUME KInv, NEW t \in Projects, Present(projects[t]), ~DeleteRefused(t),
           projects' = [projects EXCEPT ![t] = AfterDelete(t)], UNCHANGED <<listed, user>>,
           NEW p \in Projects, NEW s, Fits(p, s), Becomes(p, s)
    PROVE  Facts'
<1>1. \A q \in Projects : sync'[q] = IF q = p THEN s ELSE sync[q]
  BY DEF KInv, IInv, TypeOK, Becomes
<1>2. \A q \in Projects : Life(q)' /\ Held(q)' /\ Informed(q)' BY DeleteStore
<1>3. ASSUME NEW q \in Projects PROVE Fits(q, sync[q])'
  <2>1. PICK r : r = IF q = p THEN s ELSE sync[q] OBVIOUS
  <2>2. Fits(q, r) BY <2>1 DEF KInv, Facts
  <2>3. Fits(q, r)' BY <2>2, DeleteFits
  <2>4. sync'[q] = r BY <1>1, <2>1
  <2> QED BY <2>3, <2>4
<1>4. \A u \in Users : Meant(user[u])' BY DEF KInv, Facts, Meant
<1> QED BY <1>2, <1>3, <1>4 DEF Facts

(* The children are deleted one by one.                                    *)
LEMMA DeleteKidFacts == ASSUME KInv, NEW p \in Projects, DeleteKid(p) PROVE Facts'
<1>1. UNCHANGED <<listed, user>> /\ Emptying(sync[p]) BY DEF DeleteKid, Emptying
<1>2. IsSync(sync[p]) /\ sync[p].pc = "kids" BY DEF DeleteKid, KInv, IInv, TypeOK
<1>3. PICK k \in sync[p].todo :
          IF Present(projects[k]) /\ ~DeleteRefused(k)
          THEN /\ projects' = [projects EXCEPT ![k] = AfterDelete(k)]
               /\ Becomes(p, [sync[p] EXCEPT !.todo = @ \ {k}])
          ELSE /\ Becomes(p, [sync[p] EXCEPT !.todo = {}, !.err = TRUE, !.pc = "uncount"])
               /\ UNCHANGED projects
  BY DEF DeleteKid
<1>4. k \in Projects BY <1>2, <1>3 DEF IsSync
<1>5. CASE Present(projects[k]) /\ ~DeleteRefused(k)
  <2> DEFINE s == [sync[p] EXCEPT !.todo = @ \ {k}]
  <2>1. Becomes(p, s) /\ projects' = [projects EXCEPT ![k] = AfterDelete(k)] BY <1>3, <1>5
  <2>2. s.pc = "kids" BY <1>2 DEF IsSync
  <2> HIDE DEF s
  <2>3. Fits(p, s) BY <1>1, <2>2, EmptyingOn
  <2> QED BY <1>1, <1>4, <1>5, <2>1, <2>3, WorkerDeletes
<1>6. CASE ~(Present(projects[k]) /\ ~DeleteRefused(k))
  <2> DEFINE s == [sync[p] EXCEPT !.todo = {}, !.err = TRUE, !.pc = "uncount"]
  <2>1. Becomes(p, s) /\ UNCHANGED projects BY <1>3, <1>6
  <2>2. s.pc = "uncount" BY <1>2 DEF IsSync
  <2> HIDE DEF s
  <2>3. Fits(p, s) BY <1>1, <2>2, EmptyingOn
  <2> QED BY <1>1, <2>1, <2>3, WorkerMoves
<1> QED BY <1>5, <1>6

(* A finalized project is removed.                                         *)
LEMMA PurgeFacts == ASSUME KInv, NEW p \in Projects, Purge(p) PROVE Facts'
<1>1. UNCHANGED <<listed, user>> /\ Done(p) BY DEF Purge, Requeue
<1>2. CASE UNCHANGED projects BY <1>1, <1>2, SyncEnds
<1>3. CASE /\ Present(projects[p]) /\ ~DeleteRefused(p)
           /\ projects' = [projects EXCEPT ![p] = AfterDelete(p)]
  BY <1>1, <1>3, IdleFits, WorkerDeletes DEF Done
<1> QED BY <1>2, <1>3 DEF Purge

(* A user deletes a project.                                               *)
LEMMA UserDeleteFacts == ASSUME KInv, NEW p \in Projects, UserDelete(p) PROVE Facts'
<1>1. UNCHANGED <<listed, sync, user>> /\ projects' = [projects EXCEPT ![p] = AfterDelete(p)]
  BY DEF UserDelete, controllerVars
<1>2. Present(projects[p]) /\ ~DeleteRefused(p) BY DEF UserDelete, Present, DeleteRefused
<1>3. \A q \in Projects : Life(q)' /\ Held(q)' /\ Informed(q)' BY <1>1, <1>2, DeleteStore
<1>4. ASSUME NEW q \in Projects PROVE Fits(q, sync[q])'
  <2>1. PICK r : r = sync[q] OBVIOUS
  <2>2. Fits(q, r)' BY <1>1, <1>2, <2>1, DeleteFits DEF KInv, Facts
  <2> QED BY <1>1, <2>1, <2>2
<1>5. \A u \in Users : Meant(user[u])' BY <1>1 DEF KInv, Facts, Meant
<1> QED BY <1>3, <1>4, <1>5 DEF Facts

(* A child is counted.  Its worker either ends the sync or, having lost    *)
(* the answer, tries the write again.                                      *)
LEMMA CountStored ==
    ASSUME KInv, NEW p \in Projects, Writes(sync[p], "count"), Unchanged(sync[p].write),
           Store(sync[p].write), UNCHANGED <<listed, user>>, Done(p) \/ UNCHANGED sync
    PROVE  Facts'
<1> DEFINE t == Parent[p]
           new == sync[p].write.new
<1>1. /\ sync[p].write.target = t /\ SameLife(new, projects[t])
      /\ new.kids = projects[t].kids \cup {p} /\ Present(projects[t])
  BY DEF KInv, Facts, Fits, Shape, Unchanged
<1>2. t \in Projects /\ IsProject(new)
  BY <1>1 DEF KInv, IInv, SoundSync, Sound, Writes, IsSync, IsWrite
<1>3. projects' = [projects EXCEPT ![t] = new] BY <1>1 DEF Store
<1>4. FirstUse(p) => projects[p].fin BY DEF KInv, Facts, Fits, Counting
<1>5. new.kids \subseteq Projects BY <1>2 DEF IsProject
<1>6. \A k \in new.kids : Parent[k] = t /\ (FirstUse(k) => projects[k].fin)
  BY <1>1, <1>2, <1>4 DEF KInv, Facts, Held
<1> HIDE DEF new
<1>7. \A q \in Projects : Life(q)' /\ Held(q)' /\ Informed(q)'
  BY <1>1, <1>2, <1>3, <1>5, <1>6, SteadyStore
<1>8. \A q \in Projects : sync'[q] = sync[q] \/ sync'[q] = Idle
  BY DEF KInv, IInv, TypeOK, Done, Becomes
<1>9. ASSUME NEW q \in Projects PROVE Fits(q, sync[q])'
  <2>1. PICK r : r = sync[q] OBVIOUS
  <2>2. Sealing(r) /\ Parent[q] = t => q \notin new.kids
    <3>1. ~Sealing(sync[p]) BY DEF Sealing, Writes
    <3> QED BY <1>1, <1>2, <2>1, <3>1, TreeAssumption DEF KInv, Facts, Fits
  <2>3. Fits(q, r) BY <2>1 DEF KInv, Facts
  <2>4. Fits(q, r)' BY <1>1, <1>2, <1>3, <2>2, <2>3, SteadyFits
  <2>5. Fits(q, Idle)'
    BY DEF Fits, Shape, Idle, Writes, Counting, Emptying, Sealing, Deleting
  <2> QED BY <1>8, <2>1, <2>4, <2>5
<1>10. \A u \in Users : Meant(user[u])' BY DEF KInv, Facts, Meant
<1> QED BY <1>7, <1>9, <1>10 DEF Facts

(* A child leaves the ledger.  Its worker goes on to the finalizer or, the *)
(* answer lost, ends the sync.                                             *)
LEMMA UncountStored ==
    ASSUME KInv, NEW p \in Projects, Writes(sync[p], "uncount"), Unchanged(sync[p].write),
           Store(sync[p].write), UNCHANGED <<listed, user>>,
           NEW s, Becomes(p, s), s = Idle \/ s.pc = "seal"
    PROVE  Facts'
<1> DEFINE t == Parent[p]
           new == sync[p].write.new
<1>1. /\ sync[p].write.target = t /\ SameLife(new, projects[t])
      /\ new.kids = projects[t].kids \ {p} /\ Present(projects[t])
  BY DEF KInv, Facts, Fits, Shape, Unchanged
<1>2. t \in Projects /\ IsProject(new)
  BY <1>1 DEF KInv, IInv, SoundSync, Sound, Writes, IsSync, IsWrite
<1>3. projects' = [projects EXCEPT ![t] = new] BY <1>1 DEF Store
<1>4. new.kids \subseteq Projects BY <1>2 DEF IsProject
<1>5. \A k \in new.kids : Parent[k] = t /\ (FirstUse(k) => projects[k].fin)
  BY <1>1, <1>2 DEF KInv, Facts, Held
<1> HIDE DEF new
<1>6. \A q \in Projects : Life(q)' /\ Held(q)' /\ Informed(q)'
  BY <1>1, <1>2, <1>3, <1>4, <1>5, SteadyStore
<1>7. \A q \in Projects : sync'[q] = IF q = p THEN s ELSE sync[q]
  BY DEF KInv, IInv, TypeOK, Becomes
<1>8. ASSUME NEW q \in Projects, NEW r, Fits(q, r) PROVE Fits(q, r)'
  <2>1. Sealing(r) /\ Parent[q] = t => q \notin new.kids
    BY <1>1, <1>2, <1>8, TreeAssumption DEF Fits
  <2> QED BY <1>1, <1>2, <1>3, <1>8, <2>1, SteadyFits
<1>9. Fits(p, s)'
  <2>1. CASE s = Idle
    BY <2>1 DEF Fits, Shape, Idle, Writes, Counting, Emptying, Sealing, Deleting
  <2>2. CASE s.pc = "seal"
    <3>1. PICK r : r = sync[p] OBVIOUS
    <3>2. Emptying(r) /\ Fits(p, r) /\ r.pc = "commit"
      BY <3>1 DEF KInv, Facts, Emptying, Writes
    <3>3. Fits(p, r)' BY <1>8, <3>2
    <3>4. p \notin projects'[Parent[p]].kids
      BY <1>1, <1>2, <1>3 DEF KInv, IInv, TypeOK
    <3> QED BY <2>2, <3>2, <3>3, <3>4
            DEF Fits, Shape, FirstUse, Writes, Counting, Emptying, Sealing, Deleting
  <2> QED BY <2>1, <2>2
<1>10. ASSUME NEW q \in Projects PROVE Fits(q, sync[q])'
  <2>1. CASE q = p BY <1>7, <1>9, <2>1
  <2>2. CASE q # p
    <3>1. PICK r : r = sync[q] OBVIOUS
    <3>2. Fits(q, r)' BY <1>8, <3>1 DEF KInv, Facts
    <3> QED BY <1>7, <2>2, <3>1, <3>2
  <2> QED BY <2>1, <2>2
<1>11. \A u \in Users : Meant(user[u])' BY DEF KInv, Facts, Meant
<1> QED BY <1>6, <1>10, <1>11 DEF Facts

(* The finalizer is gone.  The worker goes on to remove the project or,    *)
(* the answer lost, ends the sync.                                         *)
LEMMA FinalizeStored ==
    ASSUME KInv, NEW p \in Projects, Writes(sync[p], "finalize"), Unchanged(sync[p].write),
           Store(sync[p].write), UNCHANGED <<listed, user>>,
           NEW s, Becomes(p, s), s = Idle \/ s.pc = "purge"
    PROVE  Facts'
<1> DEFINE new == sync[p].write.new
<1>1. /\ sync[p].write.target = p
      /\ new.phase = projects[p].phase /\ new.uid = projects[p].uid
      /\ new.kids = projects[p].kids /\ ~new.fin
  BY DEF KInv, Facts, Fits, Shape, Unchanged
<1>2. projects' = [projects EXCEPT ![p] = new] BY <1>1 DEF Store
<1> HIDE DEF new
<1>3. \A q \in Projects : Life(q)' /\ Held(q)' /\ Informed(q)'
  BY <1>1, <1>2, FinalizeStore
<1>4. \A q \in Projects : sync'[q] = IF q = p THEN s ELSE sync[q]
  BY DEF KInv, IInv, TypeOK, Becomes
<1>5. Fits(p, s)'
  <2>1. CASE s = Idle
    BY <2>1 DEF Fits, Shape, Idle, Writes, Counting, Emptying, Sealing, Deleting
  <2>2. CASE s.pc = "purge"
    <3>1. /\ projects'[p].uid = projects[p].uid
          /\ projects'[p].phase = projects[p].phase
      BY <1>1, <1>2 DEF KInv, IInv, TypeOK
    <3>2. /\ projects[p].phase = "Terminating"
          /\ FirstUse(p) => listed[p].phase # "Active" /\ projects[p].uid # 0
      BY DEF KInv, Facts, Fits, Emptying, Deleting, Writes
    <3> QED BY <2>2, <3>1, <3>2
            DEF Fits, Shape, FirstUse, Writes, Counting, Emptying, Sealing, Deleting
  <2> QED BY <2>1, <2>2
<1>6. ASSUME NEW q \in Projects PROVE Fits(q, sync[q])'
  <2>1. CASE q = p BY <1>4, <1>5, <2>1
  <2>2. CASE q # p
    <3>1. PICK r : r = sync[q] OBVIOUS
    <3>2. Fits(q, r)' BY <1>1, <1>2, <2>2, <3>1, FinalizeFits DEF KInv, Facts
    <3> QED BY <1>4, <2>2, <3>1, <3>2
  <2> QED BY <2>1, <2>2
<1>7. \A u \in Users : Meant(user[u])' BY DEF KInv, Facts, Meant
<1> QED BY <1>3, <1>6, <1>7 DEF Facts

(* A worker's write is stored.                                             *)
LEMMA CommitFacts == ASSUME KInv, NEW p \in Projects, Commit(p) PROVE Facts'
<1>1. /\ sync[p].pc = "commit" /\ Unchanged(sync[p].write) /\ Store(sync[p].write)
      /\ AfterCommit(p) /\ UNCHANGED <<listed, user>>
  BY DEF Commit
<1>2. sync[p].write.kind \in {"count", "uncount", "finalize"}
  BY <1>1 DEF KInv, IInv, SoundSync
<1>3. CASE sync[p].write.kind = "count"
  <2>1. Done(p) BY <1>1, <1>3 DEF AfterCommit
  <2> QED BY <1>1, <1>3, <2>1, CountStored DEF Writes
<1>4. CASE sync[p].write.kind = "uncount"
  <2>1. Proceed(p, "seal") BY <1>1, <1>4 DEF AfterCommit
  <2>2. PICK s : Becomes(p, s) /\ s.pc = "seal" BY <2>1, Proceeded
  <2> QED BY <1>1, <1>4, <2>2, UncountStored DEF Writes
<1>5. CASE sync[p].write.kind = "finalize"
  <2>1. Proceed(p, "purge") BY <1>1, <1>5 DEF AfterCommit
  <2>2. PICK s : Becomes(p, s) /\ s.pc = "purge" BY <2>1, Proceeded
  <2> QED BY <1>1, <1>5, <2>2, FinalizeStored DEF Writes
<1> QED BY <1>2, <1>3, <1>4, <1>5

(* A worker's write is stored and the answer lost.                         *)
LEMMA CommitLostFacts == ASSUME KInv, NEW p \in Projects, CommitLost(p) PROVE Facts'
<1>1. /\ sync[p].pc = "commit" /\ Unchanged(sync[p].write) /\ Store(sync[p].write)
      /\ UNCHANGED <<listed, user>>
  BY DEF CommitLost
<1>2. sync[p].write.kind \in {"count", "uncount", "finalize"}
  BY <1>1 DEF KInv, IInv, SoundSync
<1>3. CASE sync[p].write.kind = "count"
  BY <1>1, <1>3, CountStored DEF CommitLost, Writes
<1>4. CASE sync[p].write.kind # "count"
  <2>1. Becomes(p, Idle) BY <1>4 DEF CommitLost, Requeue, Done
  <2> QED BY <1>1, <1>2, <1>4, <2>1, UncountStored, FinalizeStored DEF Writes
<1> QED BY <1>3, <1>4

(* A free name is given to a new project: no worker relies on anything     *)
(* about a free name, and none is busy with one that was never used.       *)
LEMMA CreateStored ==
    ASSUME KInv, NEW t \in Projects, NEW new, ~Present(projects[t]),
           new.uid = projects[t].uid + 1, new.phase = "Active", new.fin, new.kids = {},
           projects' = [projects EXCEPT ![t] = new], UNCHANGED <<listed, sync>>
    PROVE  \A q \in Projects : Life(q)' /\ Held(q)' /\ Informed(q)' /\ Fits(q, sync[q])'
<1>1. \A q \in Projects : projects'[q] = IF q = t THEN new ELSE projects[q]
  BY Stored
<1>2. projects[t].uid \in Nat /\ \A q \in Projects : projects[q].kids \subseteq Projects
  BY DEF KInv, IInv, TypeOK, IsProject
<1>3. new.uid <= 1 => projects[t].uid = 0 BY <1>2
<1>4. ASSUME NEW q \in Projects PROVE Life(q)'
  BY <1>1, <1>2 DEF KInv, Facts, Life, Present
<1>5. ASSUME NEW q \in Projects PROVE Held(q)'
  BY <1>1, <1>2 DEF KInv, Facts, Held, FirstUse
<1>6. ASSUME NEW q \in Projects PROVE Informed(q)'
  BY <1>1, <1>2, <1>3 DEF KInv, Facts, Informed, FirstUse
<1>7. ASSUME NEW q \in Projects PROVE Fits(q, sync[q])'
  <2>1. PICK r : r = sync[q] OBVIOUS
  <2>2. Fits(q, r) BY <2>1 DEF KInv, Facts
  <2>3. Shape(q, r)' BY <2>2 DEF Fits, Shape
  <2>4. (Sealing(r) => Parent[q] = NoProject \/ q \notin projects[Parent[q]].kids)'
    BY <1>1, <2>2, TreeAssumption DEF Fits
  <2>5. (Emptying(r) => projects[q].phase = "Terminating" /\ projects[q].fin)'
    BY <1>1, <2>2 DEF Fits, Present
  <2>6. (FirstUse(q) =>
            /\ projects[q].uid = 0 => r.pc = "idle"
            /\ Deleting(r) => projects[q].phase # "Active" /\ listed[q].phase # "Active"
            /\ Counting(r) => projects[q].fin)'
    <3>1. CASE q = t
      BY <1>1, <1>2, <1>3, <2>2, <3>1
         DEF Fits, FirstUse, Writes, Counting, Emptying, Deleting
    <3>2. CASE q # t BY <1>1, <2>2, <3>2 DEF Fits, FirstUse
    <3> QED BY <3>1, <3>2
  <2>7. Fits(q, r)' BY <2>3, <2>4, <2>5, <2>6 DEF Fits
  <2> QED BY <2>1, <2>7
<1> QED BY <1>4, <1>5, <1>6, <1>7

(* A user's write is stored, or refused as the object has changed.         *)
LEMMA UserCommitFacts == ASSUME KInv, NEW u \in Users, UserCommit(u) PROVE Facts'
<1> DEFINE w == user[u]
<1>1. UNCHANGED <<listed, sync>> BY DEF UserCommit, controllerVars
<1>2. /\ IsWrite(w) /\ w.target \in Projects /\ Meant(w) /\ w.kind # "none"
  BY DEF KInv, IInv, Facts, SoundUser, Sound, UserCommit
<1>3. \A v \in Users : Meant(user[v])'
  <2>1. \A v \in Users : user'[v] = user[v] \/ user'[v] = NoWrite
    BY DEF KInv, IInv, TypeOK, UserCommit
  <2>2. Meant(NoWrite) BY DEF Meant, NoWrite
  <2>3. ASSUME NEW v \in Users PROVE Meant(user'[v])
    BY <2>1, <2>2 DEF KInv, Facts
  <2> QED BY <2>3 DEF Meant
<1>4. \A q \in Projects : Life(q)' /\ Held(q)' /\ Informed(q)' /\ Fits(q, sync[q])'
  <2>1. CASE UNCHANGED projects
    BY <1>1, <2>1 DEF KInv, Facts, Life, Held, Informed, Fits, Shape, FirstUse, Present
  <2>2. CASE Unchanged(w) /\ Store(w) /\ w.kind = "create"
    <3>1. projects' = [projects EXCEPT ![w.target] = w.new] /\ w.base = projects[w.target]
      BY <2>2 DEF Store, Unchanged
    <3> QED BY <1>1, <1>2, <2>2, <3>1, CreateStored DEF Meant
  <2>3. CASE Unchanged(w) /\ Store(w) /\ w.kind = "update"
    <3> DEFINE t == w.target
               new == w.new
    <3>1. projects' = [projects EXCEPT ![t] = new] BY <2>3 DEF Store
    <3>2. /\ SameLife(new, projects[t]) /\ new.kids = projects[t].kids
          /\ Present(projects[t]) /\ t \in Projects
      BY <1>2, <2>3 DEF Meant, Unchanged
    <3>3. new.kids \subseteq Projects BY <1>2 DEF IsWrite, IsProject
    <3>4. \A k \in new.kids : Parent[k] = t /\ (FirstUse(k) => projects[k].fin)
      BY <3>2 DEF KInv, Facts, Held
    <3> HIDE DEF new, t
    <3>5. \A q \in Projects : Life(q)' /\ Held(q)' /\ Informed(q)'
      BY <1>1, <3>1, <3>2, <3>3, <3>4, SteadyStore
    <3>6. ASSUME NEW q \in Projects PROVE Fits(q, sync[q])'
      <4>1. PICK r : r = sync[q] OBVIOUS
      <4>2. Fits(q, r) BY <4>1 DEF KInv, Facts
      <4>3. Sealing(r) /\ Parent[q] = t => q \notin new.kids
        BY <3>2, <4>2, TreeAssumption DEF Fits
      <4>4. Fits(q, r)' BY <1>1, <3>1, <3>2, <4>2, <4>3, SteadyFits
      <4> QED BY <1>1, <4>1, <4>4
    <3> QED BY <3>5, <3>6
  <2> QED BY <1>2, <2>1, <2>2, <2>3 DEF UserCommit, Meant
<1> QED BY <1>3, <1>4 DEF Facts

(* A request that changes what it says it changes.                         *)
LEMMA Requested ==
    ASSUME KInv, NEW u \in Users, NEW kind \in {"create", "update"}, NEW p \in Projects,
           NEW new, Request(u, kind, p, new),
           Meant([kind |-> kind, target |-> p, base |-> projects[p], new |-> new]),
           UNCHANGED <<projects, listed, sync>>
    PROVE  Facts'
<1>1. PICK w : w = [kind |-> kind, target |-> p, base |-> projects[p], new |-> new] OBVIOUS
<1>2. \A v \in Users : user'[v] = user[v] \/ user'[v] = w
  BY <1>1 DEF KInv, IInv, TypeOK, Request
<1>3. Meant(w) BY <1>1
<1>4. \A v \in Users : Meant(user'[v])
  BY <1>2, <1>3 DEF KInv, Facts
<1>5. \A v \in Users : Meant(user[v])' BY <1>4 DEF Meant
<1> QED BY <1>5 DEF KInv, Facts, Life, Held, Informed, Fits, Shape, FirstUse, Present

(* A user asks for a new project.                                          *)
LEMMA UserCreateFacts ==
    ASSUME KInv, NEW u \in Users, NEW p \in Projects, UserCreate(u, p) PROVE Facts'
<1>1. PICK spec \in Specs : Request(u, "create", p, NewProject(p, spec)) BY DEF UserCreate
<1>2. UNCHANGED <<projects, listed, sync>> /\ ~Present(projects[p])
  BY DEF UserCreate, controllerVars
<1> DEFINE new == NewProject(p, spec)
<1>3. new.uid = projects[p].uid + 1 /\ new.phase = "Active" /\ new.fin /\ new.kids = {}
  BY DEF NewProject
<1> HIDE DEF new
<1>4. Meant([kind |-> "create", target |-> p, base |-> projects[p], new |-> new])
  BY <1>2, <1>3 DEF Meant
<1> QED BY <1>1, <1>2, <1>4, Requested DEF new

(* A user edits, locks or unlocks a project.                               *)
LEMMA UserUpdateFacts ==
    ASSUME KInv, NEW u \in Users, NEW p \in Projects, UserUpdate(u, p) PROVE Facts'
<1>1. PICK new \in {[projects[p] EXCEPT !.bound = spec.bound, !.hard = spec.hard] : spec \in Specs}
                   \cup (IF Locking THEN {[projects[p] EXCEPT !.locked = ~@]} ELSE {}) :
          Request(u, "update", p, new)
  BY DEF UserUpdate
<1>2. UNCHANGED <<projects, listed, sync>> /\ Present(projects[p])
  BY DEF UserUpdate, controllerVars
<1>3. SameLife(new, projects[p]) /\ new.kids = projects[p].kids
  BY DEF KInv, IInv, TypeOK, IsProject, SameLife
<1>4. Meant([kind |-> "update", target |-> p, base |-> projects[p], new |-> new])
  BY <1>2, <1>3 DEF Meant
<1> QED BY <1>1, <1>2, <1>4, Requested

------------------------------------------------------------------------------
(* The invariant holds initially and every step keeps it.                  *)

(* The empty store with an idle controller satisfies the invariant.       *)
LEMMA InitLife == Init => KInv
<1> SUFFICES ASSUME Init PROVE KInv OBVIOUS
<1>1. IInv BY InitInv
<1>2. ASSUME NEW p \in Projects PROVE Life(p) /\ Held(p) /\ Informed(p)
  BY DEF Init, Life, Held, Informed, NoObject, Present
<1>3. ASSUME NEW p \in Projects PROVE Fits(p, sync[p])
  BY IdleFits DEF Init
<1>4. ASSUME NEW u \in Users PROVE Meant(user[u])
  BY DEF Init, Meant, NoWrite
<1> QED BY <1>1, <1>2, <1>3, <1>4 DEF KInv, Facts

(* Every step keeps the invariant.                                        *)
LEMMA NextLife == KInv /\ [Next]_vars => KInv'
<1> SUFFICES ASSUME KInv, [Next]_vars PROVE KInv' OBVIOUS
<1>1. IInv' BY NextInv DEF KInv
<1>2. CASE \E p \in Projects : Deliver(p)
  BY <1>1, <1>2, DeliverFacts DEF KInv
<1>3. ASSUME NEW p \in Projects, Work(p) PROVE Facts'
  BY <1>3, SyncDeletedFacts, SyncActiveFacts, SyncTerminatingFacts, CountChildFacts,
     GetDoomedFacts, DropContentFacts, DeleteKidFacts, KidsDoneFacts, UncountFacts, SealFacts,
     PurgeFacts, CommitFacts, CommitRefusedFacts DEF Work
<1>4. CASE \E u \in Users : UserCommit(u)
  BY <1>1, <1>4, UserCommitFacts DEF KInv
<1>5. CASE Failure
  BY <1>1, <1>5, RestartFacts, CommitLostFacts, CallFailsFacts DEF Failure, KInv
<1>6. CASE Environment
  BY <1>1, <1>6, UserDeleteFacts, UserCreateFacts, UserUpdateFacts DEF Environment, KInv
<1>7. CASE UNCHANGED vars
  <2>1. Facts'
    BY <1>7 DEF KInv, Facts, Life, Held, Informed, Fits, Shape, Meant, FirstUse, Present,
                vars, controllerVars
  <2> QED BY <1>1, <2>1 DEF KInv
<1> QED BY <1>1, <1>2, <1>3, <1>4, <1>5, <1>6, <1>7 DEF Next, KInv

(* Every step of the controller, of users and of failures keeps the        *)
(* invariant about lives and ledgers.                                      *)
THEOREM LifeInvariant == Spec => []KInv
BY InitLife, NextLife, PTL DEF Spec

(* Every child in a ledger is a child of that project and exists, as long  *)
(* as its name was given once: the deleter takes a child out of its        *)
(* parent's ledger before it lets go of it, and no worker puts it back.    *)
THEOREM CountedChildrenExist == Spec => []KidsExist
<1>1. KInv => KidsExist
  <2> SUFFICES ASSUME KInv PROVE KidsExist OBVIOUS
  <2>1. ASSUME NEW p \in Projects, NEW k \in projects[p].kids
        PROVE  Parent[k] = p /\ (FirstUse(k) => Present(projects[k]))
    <3>1. k \in Projects BY DEF KInv, IInv, TypeOK, IsProject
    <3>2. Parent[k] = p /\ (FirstUse(k) => projects[k].fin) BY DEF KInv, Facts, Held
    <3> QED BY <3>1, <3>2 DEF KInv, Facts, Life
  <2> QED BY <2>1 DEF KidsExist
<1> QED BY <1>1, LifeInvariant, PTL

(* A project that has lost its finalizer is in no ledger: finalizeProject  *)
(* runs after recalculateParentProjectUsed, and a lost answer, a retry or  *)
(* a restart between the two does not count the project again.             *)
THEOREM FinalizedHoldsNothing == Spec => []FinalizedIsUncounted
<1>1. KInv => FinalizedIsUncounted
  <2> SUFFICES ASSUME KInv PROVE FinalizedIsUncounted OBVIOUS
  <2>1. ASSUME NEW p \in Projects, ~projects[p].fin, FirstUse(p), Parent[p] # NoProject
        PROVE  p \notin projects[Parent[p]].kids
    <3>1. Parent[p] \in Projects BY <2>1, TreeAssumption
    <3> QED BY <2>1, <3>1 DEF KInv, Facts, Held
  <2> QED BY <2>1 DEF FinalizedIsUncounted
<1> QED BY <1>1, LifeInvariant, PTL

------------------------------------------------------------------------------
(* Who leaves a ledger.                                                    *)

(* What one step may do to the ledgers.                                    *)
Leaves ==
    \A p \in Projects : \A k \in projects[p].kids \ projects'[p].kids :
        Present(projects'[p]) => projects[k].phase = "Terminating"

(* A delete request leaves the ledger of the object alone.                 *)
LEMMA DeleteLeaves ==
    ASSUME KInv, NEW t \in Projects, Present(projects[t]), ~DeleteRefused(t),
           projects' = [projects EXCEPT ![t] = AfterDelete(t)]
    PROVE  Leaves
<1> DEFINE gone == AfterDelete(t)
<1>1. \A q \in Projects : projects'[q] = IF q = t THEN gone ELSE projects[q]
  BY Stored
<1>2. Present(gone) => gone.kids = projects[t].kids BY DeletedObject
<1> HIDE DEF gone
<1> QED BY <1>1, <1>2 DEF Leaves

(* A worker's write takes nobody out but the project it is deleting.       *)
LEMMA WriteLeaves ==
    ASSUME KInv, NEW p \in Projects, sync[p].pc = "commit", Unchanged(sync[p].write),
           Store(sync[p].write)
    PROVE  Leaves
<1> DEFINE t == sync[p].write.target
           new == sync[p].write.new
<1>1. sync[p].write.kind \in {"count", "uncount", "finalize"} /\ t \in Projects
  BY DEF KInv, IInv, SoundSync, Sound
<1>2. projects[t].kids \ new.kids \subseteq {p}
  BY <1>1 DEF KInv, Facts, Fits, Shape, Writes, Unchanged
<1>3. \A k \in projects[t].kids \ new.kids : projects[k].phase = "Terminating"
  BY <1>1, <1>2 DEF KInv, Facts, Fits, Shape, Emptying, Writes, Unchanged
<1>4. projects' = [projects EXCEPT ![t] = new] BY DEF Store
<1> HIDE DEF t, new
<1>5. \A q \in Projects : projects'[q] = IF q = t THEN new ELSE projects[q]
  BY <1>1, <1>4, Stored
<1> QED BY <1>3, <1>5 DEF Leaves

(* A user's write leaves the ledger it read as it is.                      *)
LEMMA UserLeaves == ASSUME KInv, NEW u \in Users, UserCommit(u) PROVE Leaves
<1> DEFINE w == user[u]
<1>1. w.target \in Projects /\ Meant(w) /\ w.kind # "none"
  BY DEF KInv, IInv, Facts, SoundUser, Sound, UserCommit
<1>2. CASE UNCHANGED projects BY <1>2 DEF Leaves
<1>3. CASE Unchanged(w) /\ Store(w)
  <2> DEFINE t == w.target
             new == w.new
  <2>1. projects[t].kids \subseteq new.kids
    BY <1>1, <1>3 DEF KInv, Facts, Life, Meant, Unchanged
  <2>2. projects' = [projects EXCEPT ![t] = new] BY <1>3 DEF Store
  <2> HIDE DEF t, new
  <2>3. \A q \in Projects : projects'[q] = IF q = t THEN new ELSE projects[q]
    BY <1>1, <2>2, Stored DEF t
  <2> QED BY <2>1, <2>3 DEF Leaves
<1> QED BY <1>2, <1>3 DEF UserCommit

(* So does every step.                                                     *)
LEMMA NextLeaves == ASSUME KInv, [Next]_vars PROVE Leaves
<1>1. CASE UNCHANGED projects BY <1>1 DEF Leaves
<1>2. ASSUME NEW p \in Projects, Work(p) PROVE Leaves
  <2>1. CASE DeleteKid(p)
    <3>1. PICK k \in sync[p].todo :
            \/ UNCHANGED projects
            \/ /\ Present(projects[k]) /\ ~DeleteRefused(k)
               /\ projects' = [projects EXCEPT ![k] = AfterDelete(k)]
      BY <2>1 DEF DeleteKid
    <3>2. k \in Projects BY <3>1 DEF KInv, IInv, TypeOK, IsSync
    <3> QED BY <1>1, <3>1, <3>2, DeleteLeaves
  <2>2. CASE Purge(p) BY <1>1, <2>2, DeleteLeaves DEF Purge
  <2>3. CASE Commit(p) BY <2>3, WriteLeaves DEF Commit
  <2>4. CASE UNCHANGED projects BY <1>1, <2>4
  <2> QED BY <1>2, <2>1, <2>2, <2>3, <2>4
          DEF Work, SyncDeleted, SyncActive, SyncTerminating, CountChild, GetDoomed, DropContent,
              KidsDone, Uncount, Seal, CommitRefused, storeUnchanged
<1>3. ASSUME NEW p \in Projects, CommitLost(p) PROVE Leaves
  BY <1>3, WriteLeaves DEF CommitLost
<1>4. ASSUME NEW p \in Projects, UserDelete(p) PROVE Leaves
  BY <1>4, DeleteLeaves DEF UserDelete, Present, DeleteRefused
<1>5. CASE \E p \in Projects : Deliver(p) BY <1>1, <1>5 DEF Deliver, storeUnchanged
<1>6. CASE Failure BY <1>1, <1>3, <1>6 DEF Failure, Restart, CallFails
<1>7. CASE Environment BY <1>1, <1>4, <1>7 DEF Environment, UserCreate, UserUpdate
<1>8. CASE UNCHANGED vars BY <1>1, <1>8 DEF vars
<1> QED BY <1>2, <1>5, <1>6, <1>7, <1>8, UserLeaves DEF Next

(* Whatever two workers and the users write at the same time, a child      *)
(* leaves the ledger of a parent that stays only when it is being deleted: *)
(* an update computed from an old ledger, which would drop a child counted *)
(* since, is refused, and an uncount is of the project its worker deletes. *)
THEOREM OnlyTheDyingLeave == Spec => OnlyDyingLeave
<1>1. KInv /\ [Next]_vars => Leaves BY NextLeaves
<1>2. KInv /\ [Next]_vars => [Leaves]_vars BY <1>1
<1>3. Spec => [][Leaves]_vars BY <1>2, LifeInvariant, PTL DEF Spec
<1> QED BY <1>3 DEF OnlyDyingLeave, Leaves

------------------------------------------------------------------------------
(* What holders of quotas hold together.  Total counts units, so that a    *)
(* holder more or less is a matter of cardinalities: the sum over a set as *)
(* a fold or a recursive function would need induction.                    *)

(* A quota that is never negative.                                         *)
Limits(h) == \A c \in DOMAIN h : h[c] >= 0

(* What a quota gives on a cluster is a number of units.                   *)
LEMMA AtNat ==
    ASSUME NEW h, IsLedger(h), Limits(h), NEW c
    PROVE  At(h, c) \in Nat
BY DEF IsLedger, Limits, At

(* Finitely many objects hold finitely many units.                         *)
LEMMA UnitsFinite ==
    ASSUME NEW S, IsFiniteSet(S), NEW quota, NEW c,
           \A x \in S : At(quota[x].hard, c) \in Nat
    PROVE  IsFiniteSet(Units(S, quota, c)) /\ Total(S, quota, c) \in Nat
<1> DEFINE f == [x \in S |-> {x} \X (1..At(quota[x].hard, c))]
           T == {{x} \X (1..At(quota[x].hard, c)) : x \in S}
<1>1. f \in Surjection(S, T) BY DEF Surjection
<1>2. IsFiniteSet(T) BY <1>1, FS_Surjection
<1>3. ASSUME NEW x \in S PROVE IsFiniteSet({x} \X (1..At(quota[x].hard, c)))
  <2>1. At(quota[x].hard, c) \in Int OBVIOUS
  <2>2. IsFiniteSet(1..At(quota[x].hard, c)) BY <2>1, FS_Interval
  <2>3. IsFiniteSet({x}) BY FS_Singleton
  <2> QED BY <2>2, <2>3, FS_Product
<1>4. IsFiniteSet(UNION T) BY <1>2, <1>3, FS_UNION
<1> QED BY <1>4, FS_CardinalityType DEF Units, Total

(* Nobody holds nothing.                                                   *)
LEMMA TotalOfNone == ASSUME NEW quota, NEW c PROVE Total({}, quota, c) = 0
BY FS_EmptySet DEF Total, Units

(* One more object holds its quota more.                                   *)
LEMMA TotalWithOneMore ==
    ASSUME NEW S, IsFiniteSet(S), NEW k, k \notin S, NEW quota, NEW c,
           \A x \in S \cup {k} : At(quota[x].hard, c) \in Nat
    PROVE  Total(S \cup {k}, quota, c) = Total(S, quota, c) + At(quota[k].hard, c)
<1> DEFINE U == Units(S, quota, c)
           V == {k} \X (1..At(quota[k].hard, c))
<1>1. Units(S \cup {k}, quota, c) = U \cup V BY DEF Units
<1>2. IsFiniteSet(U) /\ Cardinality(U) \in Nat BY UnitsFinite DEF Total
<1>3. IsFiniteSet(V) /\ Cardinality(V) = At(quota[k].hard, c)
  <2> DEFINE h == At(quota[k].hard, c)
             I == 1..h
             K == {k}
  <2>1. h \in Nat OBVIOUS
  <2>2. IsFiniteSet(I) /\ Cardinality(I) = h
    <3> HIDE DEF h
    <3> QED BY <2>1, FS_Interval
  <2>3. IsFiniteSet(K) /\ Cardinality(K) = 1 BY FS_Singleton
  <2> HIDE DEF I, K
  <2>4. IsFiniteSet(K \X I) /\ Cardinality(K \X I) = Cardinality(K) * Cardinality(I)
    BY <2>2, <2>3, FS_Product
  <2> HIDE DEF h
  <2>5. Cardinality(K \X I) = h BY <2>1, <2>2, <2>3, <2>4
  <2> QED BY <2>4, <2>5 DEF K, I, h
<1>4. U \cap V = {} BY DEF Units
<1>5. Cardinality(U \cup V) = Cardinality(U) + Cardinality(V) - Cardinality(U \cap V)
  BY <1>2, <1>3, FS_Union
<1>6. Cardinality(U \cap V) = 0 BY <1>4, FS_EmptySet
<1> HIDE DEF U, V
<1>7. Cardinality(U \cup V) = Cardinality(U) + At(quota[k].hard, c)
  BY <1>2, <1>3, <1>5, <1>6
<1> QED BY <1>1, <1>7 DEF Total, U

(* One object less holds its quota less.                                   *)
LEMMA TotalWithoutOne ==
    ASSUME NEW S, IsFiniteSet(S), NEW k \in S, NEW quota, NEW c,
           \A x \in S : At(quota[x].hard, c) \in Nat
    PROVE  /\ Total(S \ {k}, quota, c) \in Nat
           /\ Total(S, quota, c) = Total(S \ {k}, quota, c) + At(quota[k].hard, c)
<1>1. IsFiniteSet(S \ {k}) BY FS_RemoveElement
<1>2. (S \ {k}) \cup {k} = S OBVIOUS
<1> DEFINE R == S \ {k}
<1>3. \A x \in R \cup {k} : At(quota[x].hard, c) \in Nat OBVIOUS
<1>4. k \notin R OBVIOUS
<1> HIDE DEF R
<1>5. Total(R \cup {k}, quota, c) = Total(R, quota, c) + At(quota[k].hard, c)
  BY <1>1, <1>3, <1>4, TotalWithOneMore DEF R
<1>6. Total(R, quota, c) \in Nat BY <1>1, <1>3, UnitsFinite DEF R
<1> QED BY <1>2, <1>5, <1>6 DEF R

(* The same quotas add up to the same.                                     *)
LEMMA SameTotal ==
    ASSUME NEW S, NEW quota, NEW given, NEW c,
           \A x \in S : At(given[x].hard, c) = At(quota[x].hard, c)
    PROVE  Total(S, given, c) = Total(S, quota, c)
<1>1. Units(S, given, c) = Units(S, quota, c) BY DEF Units
<1> QED BY <1>1 DEF Total

------------------------------------------------------------------------------
(***************************************************************************)
(* What the ledgers add up to.                                             *)
(*                                                                         *)
(* A worker adds and subtracts the quota of the object it has in hand, not *)
(* of the one that is stored.  Accounts says why that is the same quota    *)
(* while nobody edits one: all copies of a project, of the informer, the   *)
(* cache and the workers, are of its present life and as large, or of an   *)
(* earlier one.  It also says what each pending write does to the ledger   *)
(* it was computed from; the comparison of resourceVersions makes that the *)
(* ledger it is stored over.                                               *)
(***************************************************************************)

(* An object whose ledger lists finitely many children and whose quota is  *)
(* not negative.                                                           *)
Sane(obj) == IsFiniteSet(obj.kids) /\ Limits(obj.hard)

(* An object o is a copy of project p: it is no younger than what is       *)
(* stored and, while nobody edits a quota, has the same quota if it is of  *)
(* the same project.                                                       *)
Copy(p, o) ==
    Present(o) =>
        /\ o.uid \in 1..projects[p].uid
        /\ edits = 0 /\ o.uid = projects[p].uid /\ Present(projects[p])
              => SameClusters(o, projects[p])

Good(p, o) == Sane(o) /\ Copy(p, o)

(* What the write a worker waits for does to the ledger.                   *)
Amounts(p, s) ==
    LET w == s.write
    IN  /\ Counting(s) => s.obj.phase = "Active"
        /\ Emptying(s) => Present(s.obj)
        /\ s.pc = "commit" => w.new.nss = w.base.nss
        /\ Writes(s, "count") =>
              /\ SameClusters(w.new, w.base)
              /\ w.base.uid \in 1..projects[w.target].uid
              /\ \/ /\ p \notin w.base.kids
                    /\ w.new.used = AddClusterHardToUsed(w.base.used, s.obj.hard)
                 \/ /\ p \in w.base.kids /\ Present(s.prev) /\ ~SameClusters(s.prev, s.obj)
                    /\ w.new.used = AddClusterHardToUsed(
                                        SubClusterHardFromUsed(w.base.used, s.prev.hard),
                                        s.obj.hard)
        /\ Writes(s, "uncount") =>
              /\ SameClusters(w.new, w.base) /\ p \in w.base.kids
              /\ w.new.used = SubClusterHardFromUsed(w.base.used, s.obj.hard)
        /\ Writes(s, "finalize") =>
              SameClusters(w.new, w.base) /\ w.new.used = w.base.used

Accountable(p, s) ==
    /\ Good(p, s.obj) /\ Good(p, s.prev) /\ Sane(s.write.new)
    /\ Amounts(p, s)

(* What the write of a user does to it.                                    *)
Asked(w) ==
    /\ Sane(w.new)
    /\ w.kind = "create" => w.new.used = Nothing /\ w.new.nss = {}
    /\ w.kind = "update" => edits # 0 /\ w.new.used = w.base.used /\ w.new.nss = w.base.nss

Accounts ==
    /\ \A p \in Projects : /\ Sane(projects[p])
                           /\ ~Present(projects[p]) => projects[p].nss = {}
                           /\ Good(p, listed[p]) /\ Good(p, cached[p])
                           /\ Accountable(p, sync[p])
    /\ \A u \in Users : Asked(user[u])

(* What the ledger of p says of cluster c beyond what its children hold.   *)
Spare(p, c) == At(projects[p].used, c) - Total(projects[p].kids, projects, c)

(* A step that neither spoils the ledger of p nor its namespaces: what is  *)
(* spare stays, or the project is removed or new.                          *)
Balanced(p) ==
    \A c \in Clusters : Spare(p, c) >= 0 =>
        \/ Spare(p, c)' = Spare(p, c)
        \/ projects'[p].nss = {} /\ Spare(p, c)' = 0

Balances ==
    \A p \in Projects : edits' = 0 /\ NamedOnce(p)' => edits = 0 /\ NamedOnce(p) /\ Balanced(p)

(* The ledgers are right while nobody edits a quota.                       *)
Books == \A p \in Projects : edits = 0 /\ NamedOnce(p) => Adds(p, projects)

AInv == KInv /\ Accounts

LInv == AInv /\ Books

------------------------------------------------------------------------------
(* How copies stay copies.                                                 *)

(* A new version of an object: a later one, and with the same quota if it  *)
(* is of the same project and nobody edits quotas.  What is being deleted  *)
(* stays so.                                                               *)
Continues(new, old) ==
    /\ new.uid >= old.uid
    /\ new.uid = old.uid /\ Present(new) =>
          /\ Present(old) /\ (edits = 0 => SameClusters(new, old))
          /\ new.phase = "Active" => old.phase = "Active"

Stores(t, new) ==
    /\ Sane(new) /\ Continues(new, projects[t]) /\ new.uid \in Nat
    /\ ~Present(new) => new.nss = {}
    /\ projects' = [projects EXCEPT ![t] = new]

(* It names the namespaces the old one names, unless the name is freed.    *)
SameNss(t, new) == new.nss = IF Present(new) THEN projects[t].nss ELSE {}

(* The step stores one object, or none.                                    *)
Writing == UNCHANGED projects \/ \E t \in Projects : \E new : Stores(t, new)

(* What is stored is what is there then.                                   *)
LEMMA StoresTo ==
    ASSUME AInv, NEW t \in Projects, NEW new, Stores(t, new)
    PROVE  \A q \in Projects : projects'[q] = IF q = t THEN new ELSE projects[q]
<1>1. KInv BY DEF AInv
<1>2. projects' = [projects EXCEPT ![t] = new] BY DEF Stores
<1> QED BY <1>1, <1>2, Stored

(* The uid of a name only grows, and nothing becomes of a sane object.     *)
LEMMA WritingSane ==
    ASSUME AInv, Writing
    PROVE  \A q \in Projects : /\ Sane(projects'[q]) /\ projects'[q].uid >= projects[q].uid
                               /\ projects'[q].uid \in Nat /\ projects[q].uid \in Nat
                               /\ ~Present(projects'[q]) => projects'[q].nss = {}
<1>1. \A q \in Projects : /\ Sane(projects[q]) /\ projects[q].uid \in Nat
                          /\ ~Present(projects[q]) => projects[q].nss = {}
  BY DEF AInv, KInv, IInv, TypeOK, IsProject, Accounts
<1>2. CASE UNCHANGED projects BY <1>1, <1>2
<1>3. ASSUME NEW t \in Projects, NEW new, Stores(t, new)
      PROVE  \A q \in Projects : /\ Sane(projects'[q]) /\ projects'[q].uid >= projects[q].uid
                                 /\ projects'[q].uid \in Nat
                                 /\ ~Present(projects'[q]) => projects'[q].nss = {}
  <2>1. \A q \in Projects : projects'[q] = IF q = t THEN new ELSE projects[q]
    BY <1>3, StoresTo
  <2> QED BY <1>1, <1>3, <2>1 DEF Stores, Continues
<1> QED BY <1>1, <1>2, <1>3 DEF Writing

(* A copy of a project stays one whatever is stored.                       *)
LEMMA CopyKept ==
    ASSUME AInv, Writing, edits' = 0 => edits = 0, NEW q \in Projects, NEW o, Good(q, o)
    PROVE  Good(q, o)'
<1>1. Sane(o)' BY DEF Good, Sane
<1>2. projects'[q].uid >= projects[q].uid /\ projects'[q].uid \in Nat /\ projects[q].uid \in Nat
  BY WritingSane
<1>3. Present(o) => o.uid \in 1..projects'[q].uid BY <1>2 DEF Good, Copy
<1>4. ASSUME Present(o), edits' = 0, o.uid = projects'[q].uid, Present(projects'[q])
      PROVE  SameClusters(o, projects'[q])
  <2>1. o.uid = projects[q].uid BY <1>2, <1>4 DEF Good, Copy
  <2>2. CASE UNCHANGED projects BY <1>4, <2>1, <2>2 DEF Good, Copy
  <2>3. ASSUME NEW t \in Projects, NEW new, Stores(t, new)
        PROVE  SameClusters(o, projects'[q])
    <3>1. projects'[q] = IF q = t THEN new ELSE projects[q]
      BY <2>3, StoresTo
    <3>2. CASE q = t
      BY <1>4, <2>1, <2>3, <3>1, <3>2 DEF Stores, Continues, Good, Copy, SameClusters
    <3>3. CASE q # t BY <1>4, <2>1, <3>1, <3>3 DEF Good, Copy
    <3> QED BY <3>2, <3>3
  <2> QED BY <2>2, <2>3 DEF Writing
<1>5. Copy(q, o)' BY <1>3, <1>4 DEF Copy, Present, SameClusters
<1> QED BY <1>1, <1>5 DEF Good

(* So what a worker may rely on stays.                                     *)
LEMMA AccountableKept ==
    ASSUME AInv, Writing, edits' = 0 => edits = 0, NEW q \in Projects, NEW s,
           Accountable(q, s), s.write.target \in Projects \/ ~Writes(s, "count")
    PROVE  Accountable(q, s)'
<1>1. Good(q, s.obj)' /\ Good(q, s.prev)' BY CopyKept DEF Accountable
<1>2. Sane(s.write.new)' BY DEF Accountable, Sane
<1>3. Writes(s, "count") => s.write.base.uid \in 1..projects'[s.write.target].uid
  BY WritingSane DEF Accountable, Amounts
<1>4. Amounts(q, s)' BY <1>3 DEF Accountable, Amounts
<1> QED BY <1>1, <1>2, <1>4 DEF Accountable

(* The copy of a name that is used once and the stored object agree while  *)
(* nobody edits quotas.                                                    *)
LEMMA CopyAgrees ==
    ASSUME AInv, NEW p \in Projects, NEW o, Good(p, o), Present(o), Present(projects[p]),
           FirstUse(p), edits = 0
    PROVE  SameClusters(o, projects[p])
<1>1. projects[p].uid \in Nat BY DEF AInv, KInv, IInv, TypeOK, IsProject
<1>2. o.uid = projects[p].uid BY <1>1 DEF Good, Copy, FirstUse
<1> QED BY <1>2 DEF Good, Copy

(* The stored object is a copy of itself, and no object one of any name.   *)
LEMMA StoredIsGood == ASSUME AInv, NEW p \in Projects PROVE Good(p, projects[p])
<1>1. projects[p].uid \in Nat BY DEF AInv, KInv, IInv, TypeOK, IsProject
<1>2. Present(projects[p]) => projects[p].uid # 0 BY DEF AInv, KInv, Facts, Life
<1> QED BY <1>1, <1>2 DEF AInv, Accounts, Good, Copy, SameClusters

(* An object of a free name is sane and a copy of anything.                *)
LEMMA NoObjectIsGood == ASSUME NEW p, NEW n PROVE Good(p, NoObject(n)) /\ Sane(NoObject(n))
BY FS_EmptySet DEF Good, Sane, Limits, Copy, NoObject, Nothing, Present

(* An idle worker has nothing to account for.                              *)
LEMMA IdleAccountable == ASSUME NEW p PROVE Accountable(p, Idle)
BY NoObjectIsGood
   DEF Accountable, Amounts, Idle, NoWrite, Writes, Counting, Emptying

------------------------------------------------------------------------------
(* The accounts after a step.                                              *)

(* Whatever is stored, the accounts stay right if what is new in the       *)
(* memory of the controller and of the users was right before.             *)
LEMMA AccountsKept ==
    ASSUME AInv, KInv', Writing, edits' = 0 => edits = 0,
           \A q \in Projects : listed'[q] = listed[q] \/ Good(q, listed'[q]),
           \A q \in Projects : cached'[q] = cached[q] \/ Good(q, cached'[q]),
           \A q \in Projects : sync'[q] = sync[q] \/ Accountable(q, sync'[q]),
           \A u \in Users : Asked(user[u])'
    PROVE  Accounts'
<1>1. ASSUME NEW q \in Projects
      PROVE  Sane(projects[q])' /\ (~Present(projects[q]) => projects[q].nss = {})'
  BY WritingSane DEF Sane, Present
<1>2. ASSUME NEW q \in Projects PROVE Good(q, listed[q])'
  <2>1. PICK o : o = listed'[q] OBVIOUS
  <2>2. Good(q, o) BY <2>1 DEF AInv, Accounts
  <2>3. Good(q, o)' BY <2>2, CopyKept
  <2> QED BY <2>1, <2>3
<1>3. ASSUME NEW q \in Projects PROVE Good(q, cached[q])'
  <2>1. PICK o : o = cached'[q] OBVIOUS
  <2>2. Good(q, o) BY <2>1 DEF AInv, Accounts
  <2>3. Good(q, o)' BY <2>2, CopyKept
  <2> QED BY <2>1, <2>3
<1>4. ASSUME NEW q \in Projects PROVE Accountable(q, sync[q])'
  <2>1. PICK s : s = sync'[q] OBVIOUS
  <2>2. Accountable(q, s) BY <2>1 DEF AInv, Accounts
  <2>3. SoundSync(q, s)' BY <2>1 DEF KInv, IInv
  <2>4. s.write.target \in Projects \/ ~Writes(s, "count")
    BY <2>3 DEF SoundSync, Sound, Writes
  <2>5. Accountable(q, s)' BY <2>2, <2>4, AccountableKept
  <2> QED BY <2>1, <2>5
<1> QED BY <1>1, <1>2, <1>3, <1>4 DEF Accounts

(* A worker that goes on, and may cache an object.                         *)
LEMMA WorkerAccounts ==
    ASSUME AInv, KInv', NEW p \in Projects, NEW s, Becomes(p, s), Accountable(p, s), Writing,
           UNCHANGED <<listed, user, edits>>,
           cached' = cached \/ \E o : Good(p, o) /\ cached' = [cached EXCEPT ![p] = o]
    PROVE  Accounts'
<1>1. \A q \in Projects : sync'[q] = IF q = p THEN s ELSE sync[q]
  BY DEF AInv, KInv, IInv, TypeOK, Becomes
<1>2. \A q \in Projects : cached'[q] = cached[q] \/ Good(q, cached'[q])
  BY DEF AInv, KInv, IInv, TypeOK
<1>3. \A u \in Users : Asked(user[u])' BY DEF AInv, Accounts, Asked, Sane, Limits
<1>4. \A q \in Projects : sync'[q] = sync[q] \/ Accountable(q, sync'[q]) BY <1>1
<1> QED BY <1>2, <1>3, <1>4, AccountsKept

(* A worker that ends its sync.                                            *)
LEMMA DoneAccounts ==
    ASSUME AInv, KInv', NEW p \in Projects, Done(p), Writing, UNCHANGED <<listed, user, edits>>,
           cached' = cached \/ \E o : Good(p, o) /\ cached' = [cached EXCEPT ![p] = o]
    PROVE  Accounts'
BY IdleAccountable, WorkerAccounts DEF Done

(* What a worker has in hand.                                              *)
LEMMA AtHand ==
    ASSUME AInv, NEW p \in Projects
    PROVE  /\ IsSync(sync[p]) /\ Accountable(p, sync[p])
           /\ Good(p, listed[p]) /\ Good(p, cached[p]) /\ Good(p, projects[p])
           /\ Good(p, sync[p].obj) /\ Good(p, sync[p].prev) /\ Sane(sync[p].write.new)
           /\ IsProject(projects[p]) /\ Sane(projects[p])
<1>1. IsSync(sync[p]) /\ IsProject(projects[p]) BY DEF AInv, KInv, IInv, TypeOK
<1>2. /\ Accountable(p, sync[p]) /\ Sane(projects[p])
      /\ Good(p, listed[p]) /\ Good(p, cached[p]) BY DEF AInv, Accounts
<1>3. Good(p, projects[p]) BY StoredIsGood
<1> QED BY <1>1, <1>2, <1>3 DEF Accountable

(* The informer copies what is stored.                                     *)
LEMMA DeliverAccounts ==
    ASSUME AInv, KInv', NEW p \in Projects, Deliver(p) PROVE Accounts'
<1>1. UNCHANGED <<projects, cached, sync, user, edits>> BY DEF Deliver, storeUnchanged
<1>2. \A q \in Projects : listed'[q] = listed[q] \/ Good(q, listed'[q])
  BY StoredIsGood DEF AInv, KInv, IInv, TypeOK, Deliver
<1>3. \A u \in Users : Asked(user[u])' BY <1>1 DEF AInv, Accounts, Asked, Sane, Limits
<1> QED BY <1>1, <1>2, <1>3, AccountsKept DEF Writing

(* A restart starts from what is stored.                                   *)
LEMMA RestartAccounts == ASSUME AInv, KInv', Restart PROVE Accounts'
<1>1. UNCHANGED <<projects, user, edits>> BY DEF Restart
<1>2. \A q \in Projects : Good(q, listed'[q]) BY StoredIsGood DEF Restart
<1>3. \A q \in Projects : Good(q, cached'[q]) BY NoObjectIsGood DEF Restart
<1>4. \A q \in Projects : Accountable(q, sync'[q]) BY IdleAccountable DEF Restart
<1>5. \A u \in Users : Asked(user[u])' BY <1>1 DEF AInv, Accounts, Asked, Sane, Limits
<1> QED BY <1>1, <1>2, <1>3, <1>4, <1>5, AccountsKept DEF Writing

(* A vanished project leaves the cache.                                    *)
LEMMA SyncDeletedAccounts ==
    ASSUME AInv, KInv', NEW p \in Projects, SyncDeleted(p) PROVE Accounts'
<1>1. UNCHANGED <<projects, listed, sync, user, edits>> BY DEF SyncDeleted, storeUnchanged
<1>2. \A q \in Projects : cached'[q] = cached[q] \/ Good(q, cached'[q])
  BY NoObjectIsGood DEF AInv, KInv, IInv, TypeOK, SyncDeleted
<1>3. \A u \in Users : Asked(user[u])' BY <1>1 DEF AInv, Accounts, Asked, Sane, Limits
<1> QED BY <1>1, <1>2, <1>3, AccountsKept DEF Writing

(* A worker starts to count what the cache has.                            *)
LEMMA SyncActiveAccounts ==
    ASSUME AInv, KInv', NEW p \in Projects, SyncActive(p) PROVE Accounts'
<1>1. UNCHANGED <<projects, listed, user, edits>> BY DEF SyncActive, storeUnchanged
<1>2. CASE Parent[p] = NoProject
  <2>1. UNCHANGED sync /\ cached' = [cached EXCEPT ![p] = listed[p]] BY <1>2 DEF SyncActive
  <2>2. \A q \in Projects : cached'[q] = cached[q] \/ Good(q, cached'[q])
    BY <2>1, AtHand DEF AInv, KInv, IInv, TypeOK
  <2>3. \A u \in Users : Asked(user[u])' BY <1>1 DEF AInv, Accounts, Asked, Sane, Limits
  <2> QED BY <1>1, <2>1, <2>2, <2>3, AccountsKept DEF Writing
<1>3. CASE Parent[p] # NoProject
  <2> DEFINE s == [sync[p] EXCEPT !.pc = "count", !.obj = listed[p], !.prev = cached[p]]
  <2>1. Becomes(p, s) BY <1>3 DEF SyncActive
  <2>2. s.pc = "count" /\ s.obj = listed[p] /\ s.prev = cached[p] /\ s.write = sync[p].write
    BY AtHand DEF IsSync
  <2>3. listed[p].phase = "Active" BY DEF SyncActive
  <2> HIDE DEF s
  <2>4. Accountable(p, s)
    BY <2>2, <2>3, AtHand DEF Accountable, Amounts, Writes, Counting, Emptying
  <2>5. cached' = cached \/ cached' = [cached EXCEPT ![p] = NoObject(0)]
    BY <1>3 DEF SyncActive
  <2> QED BY <1>1, <2>1, <2>4, <2>5, NoObjectIsGood, WorkerAccounts DEF Writing
<1> QED BY <1>2, <1>3

(* A worker that starts to delete has nothing in hand yet.                 *)
LEMMA SyncTerminatingAccounts ==
    ASSUME AInv, KInv', NEW p \in Projects, SyncTerminating(p) PROVE Accounts'
<1> DEFINE s == [sync[p] EXCEPT !.pc = "get"]
<1>1. UNCHANGED <<projects, listed, user, edits>> /\ Becomes(p, s)
      /\ cached' = [cached EXCEPT ![p] = NoObject(0)]
  BY DEF SyncTerminating, storeUnchanged, Step
<1>2. s.pc = "get" /\ s.obj = sync[p].obj /\ s.prev = sync[p].prev /\ s.write = sync[p].write
  BY AtHand DEF IsSync
<1> HIDE DEF s
<1>3. Accountable(p, s)
  BY <1>2, AtHand DEF Accountable, Amounts, Writes, Counting, Emptying
<1> QED BY <1>1, <1>3, NoObjectIsGood, WorkerAccounts DEF Writing

(* The new ledger of the parent accounts for what the worker has in hand.  *)
LEMMA CountChildAccounts ==
    ASSUME AInv, KInv', NEW p \in Projects, CountChild(p) PROVE Accounts'
<1> DEFINE parent == projects[Parent[p]]
           new == IF p \notin parent.kids THEN Counted(p, parent) ELSE Recounted(p, parent)
<1>1. UNCHANGED <<projects, listed, user, edits>> BY DEF CountChild, storeUnchanged
<1>2. sync[p].pc = "count" /\ Parent[p] \in Projects
  BY DEF CountChild, AInv, KInv, IInv, SoundSync
<1>3. IsProject(parent) /\ Sane(parent) /\ Good(Parent[p], parent) BY <1>2, AtHand
<1>4. Counting(sync[p]) /\ ~Emptying(sync[p]) /\ sync[p].obj.phase = "Active"
  BY <1>2, AtHand DEF Counting, Emptying, Writes, Accountable, Amounts
<1>5. CASE Done(p) /\ (cached' = cached \/ cached' = [cached EXCEPT ![p] = sync[p].obj])
  BY <1>1, <1>5, AtHand, DoneAccounts DEF Writing
<1>6. CASE /\ Present(parent) /\ (p \notin parent.kids \/ NeedsRecount(p))
           /\ Submit(p, "count", Parent[p], new) /\ cached' = cached
  <2>1. SameClusters(new, parent) /\ Sane(new) /\ new.nss = parent.nss
    <3>1. IsFiniteSet(parent.kids \cup {p}) BY <1>3, FS_AddElement DEF Sane
    <3>2. CASE p \notin parent.kids
      BY <1>3, <3>1, <3>2 DEF Counted, SameClusters, IsProject, Sane
    <3>3. CASE p \in parent.kids
      BY <1>3, <3>3 DEF Recounted, SameClusters, IsProject, Sane
    <3> QED BY <3>2, <3>3
  <2>2. \/ /\ p \notin parent.kids
           /\ new.used = AddClusterHardToUsed(parent.used, sync[p].obj.hard)
        \/ /\ p \in parent.kids
           /\ new.used = AddClusterHardToUsed(
                             SubClusterHardFromUsed(parent.used, sync[p].prev.hard),
                             sync[p].obj.hard)
    BY <1>3 DEF Counted, Recounted, IsProject
  <2>3. parent.uid \in 1..parent.uid BY <1>3, <1>6 DEF Good, Copy
  <2> HIDE DEF new
  <2>4. PICK s : /\ Becomes(p, s) /\ s.pc = "commit" /\ s.write.kind = "count"
                 /\ s.write.target = Parent[p] /\ s.write.base = parent /\ s.write.new = new
                 /\ s.obj = sync[p].obj /\ s.prev = sync[p].prev
    BY <1>2, <1>6, Submitted DEF AInv
  <2>5. Amounts(p, s)
    BY <1>4, <1>6, <2>1, <2>2, <2>3, <2>4
       DEF Amounts, Writes, Counting, Emptying, NeedsRecount
  <2>6. Accountable(p, s) BY <2>1, <2>4, <2>5, AtHand DEF Accountable
  <2> QED BY <1>1, <1>6, <2>4, <2>6, WorkerAccounts DEF Writing
<1> QED BY <1>5, <1>6 DEF CountChild, Requeue

(* The deleter reads the project.                                          *)
LEMMA GetDoomedAccounts ==
    ASSUME AInv, KInv', NEW p \in Projects, GetDoomed(p) PROVE Accounts'
<1> DEFINE s == [sync[p] EXCEPT !.pc  = IF projects[p].fin THEN "content" ELSE "purge",
                                !.obj = projects[p]]
<1>1. UNCHANGED <<projects, listed, user, edits, cached>> BY DEF GetDoomed, storeUnchanged
<1>2. CASE projects[p].phase # "Terminating"
  <2>1. Done(p) BY <1>2 DEF GetDoomed
  <2> QED BY <1>1, <2>1, DoneAccounts DEF Writing
<1>3. CASE projects[p].phase = "Terminating"
  <2>1. Becomes(p, s) BY <1>3 DEF GetDoomed
  <2>2. /\ s.pc \in {"content", "purge"} /\ s.obj = projects[p]
        /\ s.prev = sync[p].prev /\ s.write = sync[p].write
    BY AtHand DEF IsSync
  <2> HIDE DEF s
  <2>3. Accountable(p, s)
    BY <1>3, <2>2, AtHand DEF Accountable, Amounts, Writes, Counting, Emptying, Present
  <2> QED BY <1>1, <2>1, <2>3, WorkerAccounts DEF Writing
<1> QED BY <1>2, <1>3

(* A worker goes from one part of the emptying to the next.                *)
LEMMA EmptyingAccounts ==
    ASSUME AInv, KInv', NEW p \in Projects, Emptying(sync[p]), NEW s, Becomes(p, s),
           s.pc \in {"content", "kids", "uncount", "seal"},
           s.obj = sync[p].obj, s.prev = sync[p].prev,
           s.write = sync[p].write \/ s.write = NoWrite,
           Writing, UNCHANGED <<listed, user, edits, cached>>
    PROVE  Accounts'
<1>1. Present(sync[p].obj) BY AtHand DEF Accountable, Amounts
<1>2. Sane(s.write.new) BY AtHand, NoObjectIsGood DEF NoWrite
<1>3. Accountable(p, s)
  BY <1>1, <1>2, AtHand DEF Accountable, Amounts, Writes, Counting, Emptying
<1> QED BY <1>3, WorkerAccounts

(* The namespaces are dropped and the children listed.                     *)
LEMMA DropContentAccounts ==
    ASSUME AInv, KInv', NEW p \in Projects, DropContent(p) PROVE Accounts'
<1> DEFINE s == [sync[p] EXCEPT !.pc = "kids", !.todo = ChildrenOf(p)]
<1>1. UNCHANGED <<projects, listed, user, edits, cached>> /\ Becomes(p, s) BY DEF DropContent
<1>2. s.pc = "kids" /\ s.obj = sync[p].obj /\ s.prev = sync[p].prev /\ s.write = sync[p].write
  BY AtHand DEF IsSync
<1>3. Emptying(sync[p]) BY DEF DropContent, Emptying
<1> HIDE DEF s
<1> QED BY <1>1, <1>2, <1>3, EmptyingAccounts DEF Writing

(* The children have been asked to go.                                     *)
LEMMA KidsDoneAccounts ==
    ASSUME AInv, KInv', NEW p \in Projects, KidsDone(p) PROVE Accounts'
<1> DEFINE s == [sync[p] EXCEPT !.pc = "uncount"]
<1>1. UNCHANGED <<projects, listed, user, edits, cached>> /\ Becomes(p, s)
  BY DEF KidsDone, storeUnchanged, Step
<1>2. s.pc = "uncount" /\ s.obj = sync[p].obj /\ s.prev = sync[p].prev /\ s.write = sync[p].write
  BY AtHand DEF IsSync
<1>3. Emptying(sync[p]) BY DEF KidsDone, Emptying
<1> HIDE DEF s
<1> QED BY <1>1, <1>2, <1>3, EmptyingAccounts DEF Writing

(* What is given back is what the worker has in hand.                      *)
LEMMA UncountAccounts ==
    ASSUME AInv, KInv', NEW p \in Projects, Uncount(p) PROVE Accounts'
<1> DEFINE parent == projects[Parent[p]]
           new == Uncounted(p, parent)
<1>1. UNCHANGED <<projects, listed, user, edits, cached>> BY DEF Uncount, storeUnchanged
<1>2. sync[p].pc = "uncount" /\ Emptying(sync[p]) BY DEF Uncount, Emptying
<1>3. CASE Done(p) BY <1>1, <1>3, DoneAccounts DEF Writing
<1>4. CASE Step(p, "seal")
  <2> DEFINE s == [sync[p] EXCEPT !.pc = "seal"]
  <2>1. Becomes(p, s) BY <1>4 DEF Step
  <2>2. s.pc = "seal" /\ s.obj = sync[p].obj /\ s.prev = sync[p].prev /\ s.write = sync[p].write
    BY AtHand DEF IsSync
  <2> HIDE DEF s
  <2> QED BY <1>1, <1>2, <2>1, <2>2, EmptyingAccounts DEF Writing
<1>5. CASE /\ Parent[p] # NoProject /\ Present(parent) /\ p \in parent.kids
           /\ Submit(p, "uncount", Parent[p], new)
  <2>1. Parent[p] \in Projects BY <1>5, TreeAssumption
  <2>2. IsProject(parent) /\ Sane(parent) BY <2>1, AtHand
  <2>3. SameClusters(new, parent) /\ Sane(new) /\ new.nss = parent.nss
        /\ new.used = SubClusterHardFromUsed(parent.used, sync[p].obj.hard)
    BY <2>2, FS_RemoveElement DEF Uncounted, SameClusters, IsProject, Sane
  <2> HIDE DEF new
  <2>4. PICK s : /\ Becomes(p, s) /\ s.pc = "commit" /\ s.write.kind = "uncount"
                 /\ s.write.target = Parent[p] /\ s.write.base = parent /\ s.write.new = new
                 /\ s.obj = sync[p].obj /\ s.prev = sync[p].prev
    BY <1>5, <2>1, Submitted DEF AInv
  <2>5. Present(sync[p].obj) BY <1>2, AtHand DEF Accountable, Amounts
  <2>6. Amounts(p, s)
    BY <1>5, <2>3, <2>4, <2>5 DEF Amounts, Writes, Counting, Emptying
  <2>7. Accountable(p, s) BY <2>3, <2>4, <2>6, AtHand DEF Accountable
  <2> QED BY <1>1, <2>4, <2>7, WorkerAccounts DEF Writing
<1> QED BY <1>3, <1>4, <1>5 DEF Uncount, Requeue

(* The write that takes the finalizer away leaves the ledger as it is.     *)
LEMMA SealAccounts == ASSUME AInv, KInv', NEW p \in Projects, Seal(p) PROVE Accounts'
<1> DEFINE new == [projects[p] EXCEPT !.fin = FALSE]
<1>1. UNCHANGED <<projects, listed, user, edits, cached>> BY DEF Seal, storeUnchanged
<1>2. Emptying(sync[p]) BY DEF Seal, Emptying
<1>3. CASE Done(p) BY <1>1, <1>3, DoneAccounts DEF Writing
<1>4. CASE Submit(p, "finalize", p, new)
  <2>1. /\ SameClusters(new, projects[p]) /\ Sane(new) /\ new.used = projects[p].used
        /\ new.nss = projects[p].nss
    BY AtHand DEF IsProject, SameClusters, Sane
  <2> HIDE DEF new
  <2>2. PICK s : /\ Becomes(p, s) /\ s.pc = "commit" /\ s.write.kind = "finalize"
                 /\ s.write.target = p /\ s.write.base = projects[p] /\ s.write.new = new
                 /\ s.obj = sync[p].obj /\ s.prev = sync[p].prev
    BY <1>4, Submitted DEF AInv
  <2>3. Present(sync[p].obj) BY <1>2, AtHand DEF Accountable, Amounts
  <2>4. Amounts(p, s)
    BY <2>1, <2>2, <2>3 DEF Amounts, Writes, Counting, Emptying
  <2>5. Accountable(p, s) BY <2>1, <2>2, <2>4, AtHand DEF Accountable
  <2> QED BY <1>1, <2>2, <2>5, WorkerAccounts DEF Writing
<1> QED BY <1>3, <1>4 DEF Seal, Requeue

(* A refused write ends the sync, or the finalizer is tried again.         *)
LEMMA CommitRefusedAccounts ==
    ASSUME AInv, KInv', NEW p \in Projects, CommitRefused(p) PROVE Accounts'
<1>1. UNCHANGED <<projects, listed, user, edits>> BY DEF CommitRefused, storeUnchanged
<1>2. CASE Done(p) /\ (cached' = cached \/ cached' = [cached EXCEPT ![p] = sync[p].obj])
  BY <1>1, <1>2, AtHand, DoneAccounts DEF Writing
<1>3. CASE sync[p].write.kind = "finalize" /\ Proceed(p, "seal") /\ cached' = cached
  <2>1. PICK s : /\ Becomes(p, s) /\ s.pc = "seal" /\ s.write = NoWrite
                 /\ s.obj = sync[p].obj /\ s.prev = sync[p].prev
    BY <1>3, Proceeded DEF AInv
  <2>2. Emptying(sync[p]) BY <1>3 DEF CommitRefused, Emptying, Writes
  <2> QED BY <1>1, <1>3, <2>1, <2>2, EmptyingAccounts DEF Writing
<1> QED BY <1>2, <1>3 DEF CommitRefused, Requeue

(* A failed call ends the sync, or is noted while the content is deleted.  *)
LEMMA CallFailsAccounts ==
    ASSUME AInv, KInv', NEW p \in Projects, CallFails(p) PROVE Accounts'
<1> DEFINE s == [sync[p] EXCEPT
                   !.err = TRUE,
                   !.pc = IF sync[p].pc = "content" THEN "kids" ELSE "uncount",
                   !.todo = IF sync[p].pc = "content" THEN ChildrenOf(p) ELSE {}]
<1>1. UNCHANGED <<projects, listed, user, edits, cached>> BY DEF CallFails
<1>2. CASE Done(p) BY <1>1, <1>2, DoneAccounts DEF Writing
<1>3. CASE sync[p].pc \in {"content", "kids"} /\ Becomes(p, s)
  <2>1. /\ s.pc \in {"kids", "uncount"} /\ s.obj = sync[p].obj /\ s.prev = sync[p].prev
        /\ s.write = sync[p].write
    BY AtHand DEF IsSync
  <2>2. Emptying(sync[p]) BY <1>3 DEF Emptying
  <2> HIDE DEF s
  <2> QED BY <1>1, <1>3, <2>1, <2>2, EmptyingAccounts DEF Writing
<1> QED BY <1>2, <1>3 DEF CallFails, Requeue

(* A worker's write is a new version of what it was computed from.         *)
LEMMA WriteStores ==
    ASSUME AInv, NEW p \in Projects, sync[p].pc = "commit", Unchanged(sync[p].write),
           Store(sync[p].write)
    PROVE  /\ sync[p].write.target \in Projects
           /\ Stores(sync[p].write.target, sync[p].write.new)
           /\ SameNss(sync[p].write.target, sync[p].write.new)
<1> DEFINE w == sync[p].write
<1>1. /\ w.kind \in {"count", "uncount", "finalize"} /\ w.target \in Projects
      /\ IsProject(w.new) /\ w.base = projects[w.target]
  BY DEF AInv, KInv, IInv, SoundSync, Sound, TypeOK, IsSync, IsWrite, Unchanged
<1>2. Shape(p, sync[p]) BY DEF AInv, KInv, Facts, Fits
<1>3. Amounts(p, sync[p]) /\ Sane(w.new) BY AtHand DEF Accountable
<1>4. w.new.uid = w.base.uid /\ SameClusters(w.new, w.base)
  BY <1>1, <1>2, <1>3 DEF Shape, Amounts, Writes, SameLife
<1>5. w.new.phase = w.base.phase
  BY <1>1, <1>2 DEF Shape, Writes, SameLife
<1>6. w.new.uid \in Nat BY <1>1 DEF IsProject
<1>7. projects' = [projects EXCEPT ![w.target] = w.new] BY DEF Store
<1>8. Continues(w.new, projects[w.target])
  BY <1>1, <1>4, <1>5, <1>6 DEF Continues, Present
<1>9. w.new.nss = w.base.nss BY <1>3 DEF Amounts
<1>10. SameNss(w.target, w.new)
  BY <1>1, <1>5, <1>9 DEF AInv, Accounts, Present, SameNss
<1> QED BY <1>1, <1>3, <1>6, <1>7, <1>8, <1>10 DEF Stores, SameNss

(* A delete request makes a new version of an object or frees its name.    *)
LEMMA DeleteStores ==
    ASSUME AInv, NEW t \in Projects, Present(projects[t]), ~DeleteRefused(t),
           projects' = [projects EXCEPT ![t] = AfterDelete(t)]
    PROVE  Stores(t, AfterDelete(t)) /\ SameNss(t, AfterDelete(t))
<1>1. IsProject(projects[t]) /\ Sane(projects[t]) BY AtHand
<1>2. AfterDelete(t).uid = projects[t].uid BY DeletedObject DEF AInv
<1>3. projects[t].uid \in Nat BY <1>1 DEF IsProject
<1>4. CASE projects[t].phase = "Active"
  <2>1. /\ AfterDelete(t).kids = projects[t].kids /\ AfterDelete(t).hard = projects[t].hard
        /\ AfterDelete(t).bound = projects[t].bound /\ AfterDelete(t).phase = "Terminating"
        /\ AfterDelete(t).nss = projects[t].nss
    BY <1>1, <1>4 DEF AfterDelete, IsProject
  <2> QED BY <1>1, <1>2, <1>3, <1>4, <2>1
          DEF Stores, Continues, Present, Sane, SameClusters, SameNss
<1>5. CASE projects[t].phase # "Active"
  <2>1. AfterDelete(t) = NoObject(projects[t].uid) BY <1>5 DEF AfterDelete
  <2>2. ~Present(AfterDelete(t)) /\ AfterDelete(t).nss = {} BY <2>1 DEF NoObject, Present
  <2>3. Sane(AfterDelete(t)) BY <2>1, NoObjectIsGood
  <2> QED BY <1>2, <1>3, <2>2, <2>3 DEF Stores, Continues, SameNss
<1> QED BY <1>4, <1>5

(* The children are deleted one by one.                                    *)
LEMMA DeleteKidAccounts ==
    ASSUME AInv, KInv', NEW p \in Projects, DeleteKid(p) PROVE Accounts'
<1>1. UNCHANGED <<listed, user, edits, cached>> /\ Emptying(sync[p]) BY DEF DeleteKid, Emptying
<1>2. IsSync(sync[p]) /\ sync[p].pc = "kids" BY AtHand DEF DeleteKid
<1>3. PICK k \in sync[p].todo :
          IF Present(projects[k]) /\ ~DeleteRefused(k)
          THEN /\ projects' = [projects EXCEPT ![k] = AfterDelete(k)]
               /\ Becomes(p, [sync[p] EXCEPT !.todo = @ \ {k}])
          ELSE /\ Becomes(p, [sync[p] EXCEPT !.todo = {}, !.err = TRUE, !.pc = "uncount"])
               /\ UNCHANGED projects
  BY DEF DeleteKid
<1>4. k \in Projects BY <1>2, <1>3 DEF IsSync
<1>5. CASE Present(projects[k]) /\ ~DeleteRefused(k)
  <2> DEFINE s == [sync[p] EXCEPT !.todo = @ \ {k}]
  <2>1. Becomes(p, s) /\ projects' = [projects EXCEPT ![k] = AfterDelete(k)] BY <1>3, <1>5
  <2>2. s.pc = "kids" /\ s.obj = sync[p].obj /\ s.prev = sync[p].prev /\ s.write = sync[p].write
    BY <1>2 DEF IsSync
  <2> HIDE DEF s
  <2>3. Writing BY <1>4, <1>5, <2>1, DeleteStores DEF Writing
  <2> QED BY <1>1, <2>1, <2>2, <2>3, EmptyingAccounts
<1>6. CASE ~(Present(projects[k]) /\ ~DeleteRefused(k))
  <2> DEFINE s == [sync[p] EXCEPT !.todo = {}, !.err = TRUE, !.pc = "uncount"]
  <2>1. Becomes(p, s) /\ UNCHANGED projects BY <1>3, <1>6
  <2>2. /\ s.pc = "uncount" /\ s.obj = sync[p].obj /\ s.prev = sync[p].prev
        /\ s.write = sync[p].write
    BY <1>2 DEF IsSync
  <2> HIDE DEF s
  <2> QED BY <1>1, <2>1, <2>2, EmptyingAccounts DEF Writing
<1> QED BY <1>5, <1>6

(* A finalized project is removed.                                         *)
LEMMA PurgeAccounts == ASSUME AInv, KInv', NEW p \in Projects, Purge(p) PROVE Accounts'
<1>1. UNCHANGED <<listed, user, edits, cached>> /\ Done(p) BY DEF Purge, Requeue
<1>2. Writing BY DeleteStores DEF Purge, Writing
<1> QED BY <1>1, <1>2, DoneAccounts

(* A user deletes a project.                                               *)
LEMMA UserDeleteAccounts ==
    ASSUME AInv, KInv', NEW p \in Projects, UserDelete(p) PROVE Accounts'
<1>1. UNCHANGED <<listed, cached, sync, user, edits>> BY DEF UserDelete, controllerVars
<1>2. Present(projects[p]) /\ ~DeleteRefused(p) BY DEF UserDelete, Present, DeleteRefused
<1>3. Writing BY <1>2, DeleteStores DEF UserDelete, Writing
<1>4. \A u \in Users : Asked(user[u])' BY <1>1 DEF AInv, Accounts, Asked, Sane, Limits
<1> QED BY <1>1, <1>3, <1>4, AccountsKept

(* A worker's write is stored: a counted project is cached.                *)
LEMMA CommitAccounts == ASSUME AInv, KInv', NEW p \in Projects, Commit(p) PROVE Accounts'
<1>1. /\ sync[p].pc = "commit" /\ AfterCommit(p) /\ UNCHANGED <<listed, user, edits>>
      /\ Unchanged(sync[p].write) /\ Store(sync[p].write)
  BY DEF Commit
<1>2. Writing BY <1>1, WriteStores DEF Writing
<1>3. sync[p].write.kind \in {"count", "uncount", "finalize"}
  BY <1>1 DEF AInv, KInv, IInv, SoundSync
<1>4. CASE sync[p].write.kind = "count"
  <2>1. Done(p) /\ cached' = [cached EXCEPT ![p] = sync[p].obj]
    BY <1>1, <1>4 DEF AfterCommit
  <2> QED BY <1>1, <1>2, <2>1, AtHand, DoneAccounts
<1>5. CASE sync[p].write.kind = "uncount"
  <2>1. Proceed(p, "seal") /\ UNCHANGED cached BY <1>1, <1>5 DEF AfterCommit
  <2>2. PICK s : /\ Becomes(p, s) /\ s.pc = "seal" /\ s.write = NoWrite
                 /\ s.obj = sync[p].obj /\ s.prev = sync[p].prev
    BY <2>1, Proceeded DEF AInv
  <2>3. Emptying(sync[p]) BY <1>1, <1>5 DEF Emptying, Writes
  <2> QED BY <1>1, <1>2, <2>1, <2>2, <2>3, EmptyingAccounts
<1>6. CASE sync[p].write.kind = "finalize"
  <2>1. Proceed(p, "purge") /\ UNCHANGED cached BY <1>1, <1>6 DEF AfterCommit
  <2>2. PICK s : /\ Becomes(p, s) /\ s.pc = "purge" /\ s.write = NoWrite
                 /\ s.obj = sync[p].obj /\ s.prev = sync[p].prev
    BY <2>1, Proceeded DEF AInv
  <2>3. Sane(s.write.new) BY <2>2, NoObjectIsGood DEF NoWrite
  <2>4. Accountable(p, s)
    BY <2>2, <2>3, AtHand DEF Accountable, Amounts, Writes, Counting, Emptying
  <2> QED BY <1>1, <1>2, <2>1, <2>2, <2>4, WorkerAccounts
<1> QED BY <1>3, <1>4, <1>5, <1>6

(* A worker's write is stored and the answer lost.                         *)
LEMMA CommitLostAccounts ==
    ASSUME AInv, KInv', NEW p \in Projects, CommitLost(p) PROVE Accounts'
<1>1. /\ sync[p].pc = "commit" /\ UNCHANGED <<listed, cached, user, edits>>
      /\ Unchanged(sync[p].write) /\ Store(sync[p].write)
  BY DEF CommitLost
<1>2. Writing BY <1>1, WriteStores DEF Writing
<1>3. CASE Done(p) BY <1>1, <1>2, <1>3, DoneAccounts
<1>4. CASE UNCHANGED sync
  <2>1. \A u \in Users : Asked(user[u])' BY <1>1 DEF AInv, Accounts, Asked, Sane, Limits
  <2> QED BY <1>1, <1>2, <1>4, <2>1, AccountsKept
<1> QED BY <1>3, <1>4 DEF CommitLost, Requeue

(* A user's write is a new version of what the user read.                  *)
LEMMA UserStores ==
    ASSUME AInv, NEW u \in Users, user[u].kind # "none", Unchanged(user[u]), Store(user[u])
    PROVE  /\ user[u].target \in Projects /\ Stores(user[u].target, user[u].new)
           /\ SameNss(user[u].target, user[u].new)
<1> DEFINE w == user[u]
<1>1. /\ w.target \in Projects /\ IsProject(w.new) /\ IsProject(w.base) /\ Meant(w)
      /\ w.base = projects[w.target]
  BY DEF AInv, KInv, IInv, Facts, SoundUser, Sound, IsWrite, Unchanged
<1>2. Asked(w) BY DEF AInv, Accounts
<1>3. w.new.uid \in Nat /\ w.base.uid \in Nat BY <1>1 DEF IsProject
<1>4. projects' = [projects EXCEPT ![w.target] = w.new] BY DEF Store
<1>5. CASE w.kind = "create"
  <2>1. w.new.uid = w.base.uid + 1 /\ w.new.nss = {} /\ projects[w.target].nss = {}
    BY <1>1, <1>2, <1>5 DEF Meant, Asked, AInv, Accounts
  <2> QED BY <1>1, <1>2, <1>3, <1>4, <2>1 DEF Stores, Continues, Asked, SameNss
<1>6. CASE w.kind = "update"
  <2>1. /\ w.new.uid = w.base.uid /\ w.new.phase = w.base.phase
        /\ Present(w.base) /\ edits # 0
    BY <1>1, <1>2, <1>6 DEF Meant, SameLife, Asked
  <2>2. Present(w.new) /\ w.new.nss = w.base.nss BY <1>2, <1>6, <2>1 DEF Present, Asked
  <2> QED BY <1>1, <1>2, <1>3, <1>4, <2>1, <2>2 DEF Stores, Continues, Asked, SameNss
<1> QED BY <1>1, <1>5, <1>6 DEF Meant

(* It is stored, or refused as the object has changed.                     *)
LEMMA UserCommitAccounts ==
    ASSUME AInv, KInv', NEW u \in Users, UserCommit(u) PROVE Accounts'
<1>1. UNCHANGED <<listed, cached, sync, edits>> BY DEF UserCommit, controllerVars
<1>2. Writing BY UserStores DEF UserCommit, Writing
<1>3. \A v \in Users : user'[v] = user[v] \/ user'[v] = NoWrite
  BY DEF AInv, KInv, IInv, TypeOK, UserCommit
<1>4. Asked(NoWrite) BY NoObjectIsGood DEF Asked, NoWrite
<1>5. \A v \in Users : Asked(user'[v]) BY <1>3, <1>4 DEF AInv, Accounts
<1>6. \A v \in Users : Asked(user[v])' BY <1>1, <1>5 DEF Asked, Sane, Limits
<1> QED BY <1>1, <1>2, <1>6, AccountsKept

(* A user asks for a project.                                              *)
LEMMA UserCreateAccounts ==
    ASSUME AInv, KInv', NEW u \in Users, NEW p \in Projects, UserCreate(u, p) PROVE Accounts'
<1>1. PICK spec \in Specs : /\ Admits(p, NewProject(p, spec), projects[p])
                            /\ Request(u, "create", p, NewProject(p, spec))
  BY DEF UserCreate
<1>2. UNCHANGED <<projects, listed, cached, sync, edits>> /\ ~Present(projects[p])
  BY DEF UserCreate, controllerVars
<1> DEFINE new == NewProject(p, spec)
<1>3. \A c \in DOMAIN new.hard : new.hard[c] >= 0
  BY <1>1, <1>2 DEF Admits, ValidateProject
<1>4. Sane(new) /\ new.used = Nothing /\ new.nss = {}
  <2>1. new.kids = {} /\ new.used = Nothing /\ new.nss = {} BY DEF NewProject
  <2> QED BY <1>3, <2>1, FS_EmptySet DEF Sane, Limits
<1> HIDE DEF new
<1>5. PICK w : w = [kind |-> "create", target |-> p, base |-> projects[p], new |-> new] OBVIOUS
<1>6. \A v \in Users : user'[v] = user[v] \/ user'[v] = w
  BY <1>1, <1>5 DEF AInv, KInv, IInv, TypeOK, Request, new
<1>7. Asked(w) BY <1>4, <1>5 DEF Asked
<1>8. \A v \in Users : Asked(user'[v]) BY <1>6, <1>7 DEF AInv, Accounts
<1>9. \A v \in Users : Asked(user[v])' BY <1>2, <1>8 DEF Asked, Sane, Limits
<1> QED BY <1>2, <1>9, AccountsKept DEF Writing

(* A user edits a project: from now on, quotas are edited.                 *)
LEMMA UserUpdateAccounts ==
    ASSUME AInv, KInv', NEW u \in Users, NEW p \in Projects, UserUpdate(u, p) PROVE Accounts'
<1>1. edits' # 0
  <2>1. edits \in Nat BY DEF AInv, KInv, IInv, TypeOK
  <2>2. edits' = edits + 1 BY DEF UserUpdate
  <2> QED BY <2>1, <2>2
<1>2. PICK new \in {[projects[p] EXCEPT !.bound = spec.bound, !.hard = spec.hard] : spec \in Specs}
                   \cup (IF Locking THEN {[projects[p] EXCEPT !.locked = ~@]} ELSE {}) :
          Admits(p, new, projects[p]) /\ Request(u, "update", p, new)
  BY DEF UserUpdate
<1>3. UNCHANGED <<projects, listed, cached, sync>> /\ Present(projects[p]) /\ edits' = edits + 1
  BY DEF UserUpdate, controllerVars
<1>4. new.kids = projects[p].kids /\ new.used = projects[p].used /\ new.nss = projects[p].nss
  BY AtHand DEF IsProject
<1>5. \A c \in DOMAIN new.hard : new.hard[c] >= 0
  BY <1>2, <1>3 DEF Admits, ValidateProjectUpdate, ValidateProject
<1>6. Sane(new) BY <1>4, <1>5, AtHand DEF Sane, Limits
<1>7. PICK w : w = [kind |-> "update", target |-> p, base |-> projects[p], new |-> new] OBVIOUS
<1>8. \A v \in Users : user'[v] = user[v] \/ user'[v] = w
  BY <1>2, <1>7 DEF AInv, KInv, IInv, TypeOK, Request
<1>9. /\ Sane(w.new) /\ w.kind = "update"
      /\ w.new.used = w.base.used /\ w.new.nss = w.base.nss
  BY <1>4, <1>6, <1>7
<1>10. \A v \in Users : /\ Sane(user[v].new)
                        /\ user[v].kind = "create" =>
                              user[v].new.used = Nothing /\ user[v].new.nss = {}
                        /\ user[v].kind = "update" =>
                              /\ user[v].new.used = user[v].base.used
                              /\ user[v].new.nss = user[v].base.nss
  BY DEF AInv, Accounts, Asked
<1>11. \A v \in Users : Asked(user[v])'
  BY <1>1, <1>8, <1>9, <1>10, ZenonT(40) DEF Asked, Sane, Limits
<1> QED BY <1>1, <1>3, <1>11, AccountsKept DEF Writing

(* The empty store needs no accounts.                                      *)
LEMMA InitAccounts == ASSUME Init PROVE Accounts
<1>1. \A p : Good(p, NoObject(0)) /\ Sane(NoObject(0)) BY NoObjectIsGood
<1>2. \A p : Accountable(p, Idle) BY IdleAccountable
<1>3. Asked(NoWrite) BY <1>1 DEF Asked, NoWrite
<1>4. NoObject(0).nss = {} BY DEF NoObject
<1> QED BY <1>1, <1>2, <1>3, <1>4 DEF Init, Accounts

(* Every step keeps the accounts.                                          *)
LEMMA NextAccounts == ASSUME AInv, [Next]_vars PROVE Accounts'
<1>1. KInv' BY NextLife DEF AInv
<1>2. CASE \E p \in Projects : Deliver(p) BY <1>1, <1>2, DeliverAccounts
<1>3. ASSUME NEW p \in Projects, Work(p) PROVE Accounts'
  BY <1>1, <1>3, SyncDeletedAccounts, SyncActiveAccounts, SyncTerminatingAccounts,
     CountChildAccounts, GetDoomedAccounts, DropContentAccounts, DeleteKidAccounts,
     KidsDoneAccounts, UncountAccounts, SealAccounts, PurgeAccounts, CommitAccounts,
     CommitRefusedAccounts DEF Work
<1>4. CASE \E u \in Users : UserCommit(u) BY <1>1, <1>4, UserCommitAccounts
<1>5. CASE Failure
  BY <1>1, <1>5, RestartAccounts, CommitLostAccounts, CallFailsAccounts DEF Failure
<1>6. CASE Environment
  BY <1>1, <1>6, UserDeleteAccounts, UserCreateAccounts, UserUpdateAccounts DEF Environment
<1>7. CASE UNCHANGED vars
  <2>1. UNCHANGED <<projects, listed, cached, sync, user, edits>>
    BY <1>7 DEF vars, controllerVars
  <2>2. \A u \in Users : Asked(user[u])' BY <2>1 DEF AInv, Accounts, Asked, Sane, Limits
  <2> QED BY <1>1, <2>1, <2>2, AccountsKept DEF Writing
<1> QED BY <1>2, <1>3, <1>4, <1>5, <1>6, <1>7 DEF Next

------------------------------------------------------------------------------
(* The ledgers after a step.                                               *)

(* The quota of a counted child whose name is used once is what it was, as *)
(* long as nobody edits quotas.                                            *)
LEMMA HeldQuota ==
    ASSUME AInv, KInv', NEW t \in Projects, NEW new, Stores(t, new), edits = 0,
           NEW p \in Projects, NamedOnce(p)', NEW k \in projects[p].kids \cap projects'[p].kids
    PROVE  projects'[k].hard = projects[k].hard
<1>1. k \in Projects /\ Parent[k] = p
  BY DEF AInv, KInv, IInv, TypeOK, IsProject, Facts, Held
<1>2. projects'[k].uid <= 1 BY <1>1 DEF NamedOnce, FirstUse
<1>3. projects'[k].uid >= projects[k].uid /\ projects'[k].uid \in Nat /\ projects[k].uid \in Nat
  BY <1>1, WritingSane DEF Writing
<1>4. projects[k].fin BY <1>2, <1>3 DEF AInv, KInv, Facts, Held, FirstUse
<1>5. projects'[k].fin BY <1>2 DEF KInv, Facts, Held, FirstUse
<1>6. projects[k].uid # 0 BY <1>1, <1>4 DEF AInv, KInv, Facts, Life, Present
<1>7. Present(projects'[k]) BY <1>1, <1>5 DEF KInv, Facts, Life, Present
<1>8. projects'[k].uid = projects[k].uid BY <1>2, <1>3, <1>6
<1>9. projects'[k] = IF k = t THEN new ELSE projects[k]
  BY <1>1, StoresTo
<1> QED BY <1>7, <1>8, <1>9 DEF Stores, Continues, SameClusters

(* The name was used once before, too.                                     *)
LEMMA NamedOnceBefore ==
    ASSUME AInv, Writing, NEW p \in Projects, NamedOnce(p)' PROVE NamedOnce(p)
BY WritingSane DEF NamedOnce, FirstUse

(* The quotas of projects are numbers of units, and finitely many have to  *)
(* be added up.                                                            *)
LEMMA Quotas ==
    ASSUME AInv, NEW p \in Projects
    PROVE  /\ IsFiniteSet(projects[p].kids) /\ projects[p].kids \subseteq Projects
           /\ IsLedger(projects[p].used)
           /\ \A c : At(projects[p].hard, c) \in Nat
<1>1. IsProject(projects[p]) /\ Sane(projects[p]) BY AtHand
<1> QED BY <1>1, AtNat DEF IsProject, Sane

(* What a ledger says, and what children hold, are numbers.                *)
LEMMA SpareNumbers ==
    ASSUME AInv, NEW p \in Projects, NEW c
    PROVE  At(projects[p].used, c) \in Int /\ Total(projects[p].kids, projects, c) \in Nat
<1>1. At(projects[p].used, c) \in Int BY Quotas DEF IsLedger, At
<1>2. PICK S, quota : S = projects[p].kids /\ quota = projects OBVIOUS
<1>3. IsFiniteSet(S) /\ \A x \in S : At(quota[x].hard, c) \in Nat BY <1>2, Quotas
<1>4. Total(S, quota, c) \in Nat BY <1>3, UnitsFinite
<1> QED BY <1>1, <1>2, <1>4

(* ...also after a step.                                                   *)
LEMMA QuotasNext ==
    ASSUME AInv', NEW p \in Projects, NEW c
    PROVE  /\ At(projects'[p].hard, c) \in Nat
           /\ At(projects'[p].used, c) \in Int
           /\ IsFiniteSet(projects'[p].kids) /\ projects'[p].kids \subseteq Projects
<1>1. /\ IsLedger(projects'[p].used) /\ IsLedger(projects'[p].hard)
      /\ IsFiniteSet(projects'[p].kids) /\ projects'[p].kids \subseteq Projects
      /\ Limits(projects'[p].hard)
  BY DEF AInv, KInv, IInv, TypeOK, IsProject, Accounts, Sane, Limits
<1> QED BY <1>1, AtNat DEF IsLedger, At

(* What a step leaves of the children's quotas.                            *)
LEMMA SpareNumbersNext ==
    ASSUME AInv', NEW p \in Projects, NEW c
    PROVE  Total(projects'[p].kids, projects', c) \in Nat
<1>1. PICK S, quota : S = projects'[p].kids /\ quota = projects' OBVIOUS
<1>2. IsFiniteSet(S) /\ \A x \in S : At(quota[x].hard, c) \in Nat BY <1>1, QuotasNext
<1> QED BY <1>1, <1>2, UnitsFinite

(* So a ledger that no step touches has as much to spare as before.        *)
LEMMA SteadySpare ==
    ASSUME AInv, KInv', NEW t \in Projects, NEW new, Stores(t, new), edits = 0,
           NEW p \in Projects, NamedOnce(p)',
           projects'[p].kids = projects[p].kids, projects'[p].used = projects[p].used
    PROVE  Balanced(p)
<1>1. ASSUME NEW c \in Clusters
      PROVE  Total(projects'[p].kids, projects', c) = Total(projects[p].kids, projects, c)
  <2>1. \A k \in projects[p].kids : projects'[k].hard = projects[k].hard BY HeldQuota
  <2> QED BY <2>1, SameTotal
<1>2. \A c \in Clusters : Spare(p, c)' = Spare(p, c) BY <1>1 DEF Spare
<1> QED BY <1>2 DEF Balanced

(* Whatever is stored, no ledger is spoilt if the one written is not.      *)
LEMMA BalancesKept ==
    ASSUME AInv, KInv', edits' = 0 => edits = 0, NEW t \in Projects, NEW new, Stores(t, new),
           edits = 0 /\ NamedOnce(t)' => Balanced(t)
    PROVE  Balances
<1>1. \A q \in Projects : projects'[q] = IF q = t THEN new ELSE projects[q]
  BY StoresTo
<1>2. ASSUME NEW p \in Projects, edits' = 0, NamedOnce(p)' PROVE NamedOnce(p) /\ Balanced(p)
  <2>1. NamedOnce(p) BY <1>2, NamedOnceBefore DEF Writing
  <2>2. CASE p = t BY <1>2, <2>1, <2>2
  <2>3. CASE p # t BY <1>1, <1>2, <2>1, <2>3, SteadySpare
  <2> QED BY <2>2, <2>3
<1> QED BY <1>2 DEF Balances

(* A ledger that is empty and lists nobody is right.                       *)
LEMMA EmptySpare ==
    ASSUME NEW p, projects'[p].kids = {}, projects'[p].used = Nothing, projects'[p].nss = {}
    PROVE  Balanced(p)
<1>1. ASSUME NEW c PROVE Spare(p, c)' = 0
  <2>1. At(projects'[p].used, c) = 0 BY DEF At, Nothing
  <2>2. Total(projects'[p].kids, projects', c) = 0 BY TotalOfNone
  <2> QED BY <2>1, <2>2 DEF Spare
<1> QED BY <1>1 DEF Balanced

(* What a quota adds to a ledger, and what it takes from it.               *)
LEMMA AtOfSum ==
    ASSUME NEW f, NEW g, IsLedger(f), IsLedger(g), NEW c
    PROVE  /\ At(AddClusterHardToUsed(f, g), c) = At(f, c) + At(g, c)
           /\ At(SubClusterHardFromUsed(f, g), c)
                = IF c \in DOMAIN f THEN At(f, c) - At(g, c) ELSE 0
BY DEF IsLedger, AddClusterHardToUsed, SubClusterHardFromUsed, At

(* A child that is counted brings its quota.                               *)
LEMMA CountedSpare ==
    ASSUME AInv, AInv', NEW t \in Projects, NEW new, Stores(t, new), edits = 0, NamedOnce(t)',
           NEW k \in Projects, k \notin projects[t].kids, new.kids = projects[t].kids \cup {k},
           NEW h, h = projects'[k].hard, new.used = AddClusterHardToUsed(projects[t].used, h)
    PROVE  Balanced(t)
<1>1. projects'[t] = new BY StoresTo
<1>2. ASSUME NEW c \in Clusters PROVE Spare(t, c)' = Spare(t, c)
  <2>1. At(new.used, c) = At(projects[t].used, c) + At(h, c)
    <3>1. IsLedger(h) BY DEF AInv, KInv, IInv, TypeOK, IsProject
    <3> QED BY <3>1, Quotas, AtOfSum
  <2>2. Total(projects[t].kids, projects', c) = Total(projects[t].kids, projects, c)
    <3>1. \A x \in projects[t].kids : projects'[x].hard = projects[x].hard
      BY <1>1, HeldQuota DEF AInv
    <3> QED BY <3>1, SameTotal
  <2>3. Total(new.kids, projects', c) = Total(projects[t].kids, projects', c) + At(h, c)
    <3>1. PICK S, quota : S = projects[t].kids /\ quota = projects' OBVIOUS
    <3>2. IsFiniteSet(S) /\ k \notin S /\ \A x \in S \cup {k} : At(quota[x].hard, c) \in Nat
      BY <3>1, Quotas, QuotasNext
    <3>3. Total(S \cup {k}, quota, c) = Total(S, quota, c) + At(quota[k].hard, c)
      BY <3>2, TotalWithOneMore
    <3> QED BY <3>1, <3>3
  <2>4. At(h, c) \in Nat BY QuotasNext
  <2> DEFINE u == At(projects[t].used, c)
             T == Total(projects[t].kids, projects, c)
             g == At(h, c)
  <2>5. u \in Int /\ T \in Nat BY SpareNumbers
  <2>6. Spare(t, c)' = At(new.used, c) - Total(new.kids, projects', c) BY <1>1 DEF Spare
  <2>7. Spare(t, c) = u - T BY DEF Spare
  <2>8. At(new.used, c) = u + g /\ Total(new.kids, projects', c) = T + g
    BY <2>1, <2>2, <2>3
  <2> HIDE DEF u, T, g
  <2>9. (u + g) - (T + g) = u - T BY <2>4, <2>5 DEF g
  <2> QED BY <2>6, <2>7, <2>8, <2>9
<1> QED BY <1>2 DEF Balanced

(* A child that leaves takes its quota along.                              *)
LEMMA UncountedSpare ==
    ASSUME AInv, AInv', NEW t \in Projects, NEW new, Stores(t, new), edits = 0, NamedOnce(t)',
           NEW k \in projects[t].kids, new.kids = projects[t].kids \ {k},
           new.used = SubClusterHardFromUsed(projects[t].used, projects[k].hard)
    PROVE  Balanced(t)
<1>1. projects'[t] = new BY StoresTo
<1>2. ASSUME NEW c \in Clusters, Spare(t, c) >= 0 PROVE Spare(t, c)' = Spare(t, c)
  <2> DEFINE rest == Total(projects[t].kids \ {k}, projects, c)
             u == At(projects[t].used, c)
             h == At(projects[k].hard, c)
  <2>1. IsLedger(projects[t].used) /\ IsFiniteSet(projects[t].kids)
        /\ projects[t].kids \subseteq Projects
    BY Quotas
  <2>2. \A x \in projects[t].kids : At(projects[x].hard, c) \in Nat
    BY <2>1, Quotas
  <2>3. u \in Int /\ Spare(t, c) = u - Total(projects[t].kids, projects, c)
    BY SpareNumbers DEF Spare
  <2>4. rest \in Nat /\ Total(projects[t].kids, projects, c) = rest + h
    <3>1. PICK S, quota : S = projects[t].kids /\ quota = projects OBVIOUS
    <3>2. IsFiniteSet(S) /\ k \in S /\ \A x \in S : At(quota[x].hard, c) \in Nat
      BY <2>1, <2>2, <3>1
    <3>3. /\ Total(S \ {k}, quota, c) \in Nat
          /\ Total(S, quota, c) = Total(S \ {k}, quota, c) + At(quota[k].hard, c)
      BY <3>2, TotalWithoutOne
    <3> QED BY <3>1, <3>3
  <2>5. At(new.used, c) = IF c \in DOMAIN projects[t].used THEN u - h ELSE 0
    <3>1. IsLedger(projects[k].hard)
      BY <2>1 DEF AInv, KInv, IInv, TypeOK, IsProject
    <3> QED BY <2>1, <3>1, AtOfSum
  <2>6. c \notin DOMAIN projects[t].used => u = 0 BY DEF At
  <2>7. h \in Nat BY <2>2
  <2>8. Total(new.kids, projects', c) = rest
    <3>1. \A x \in new.kids : projects'[x].hard = projects[x].hard
      BY <1>1, HeldQuota DEF AInv
    <3> QED BY <3>1, SameTotal
  <2>9. Spare(t, c)' = At(new.used, c) - Total(new.kids, projects', c) BY <1>1 DEF Spare
  <2> HIDE DEF rest, u, h
  <2>10. Spare(t, c) = u - (rest + h) BY <2>3, <2>4
  <2>11. u - (rest + h) >= 0 BY <1>2, <2>10
  <2>12. At(new.used, c) - rest = u - (rest + h) BY <2>3, <2>4, <2>5, <2>6, <2>7, <2>11
  <2> QED BY <2>8, <2>9, <2>10, <2>12
<1> QED BY <1>2 DEF Balanced

(* What a worker has in hand of a project that is counted or emptied, and  *)
(* whose name is used once, has the quota the project has.                 *)
LEMMA HandAgrees ==
    ASSUME AInv, edits = 0, NEW p \in Projects, FirstUse(p),
           Counting(sync[p]) \/ Emptying(sync[p])
    PROVE  /\ SameClusters(sync[p].obj, projects[p])
           /\ Present(sync[p].prev) => SameClusters(sync[p].prev, projects[p])
<1>1. Fits(p, sync[p]) /\ Life(p) BY DEF AInv, KInv, Facts
<1>2. Present(projects[p]) BY <1>1 DEF Fits, Life, Present
<1>3. Present(sync[p].obj) BY AtHand DEF Accountable, Amounts, Present
<1> QED BY <1>2, <1>3, AtHand, CopyAgrees

(* A worker's write spoils no ledger.                                      *)
LEMMA WriteBalances ==
    ASSUME AInv, AInv', NEW p \in Projects, sync[p].pc = "commit", Unchanged(sync[p].write),
           Store(sync[p].write), UNCHANGED edits
    PROVE  Balances
<1> PICK w : w = sync[p].write OBVIOUS
<1> PICK t : t = w.target OBVIOUS
<1> PICK new : new = w.new OBVIOUS
<1>1. AInv OBVIOUS
<1>2. t \in Projects /\ Stores(t, new) BY <1>1, WriteStores
<1>3. w.kind \in {"count", "uncount", "finalize"} /\ w.base = projects[t]
  BY <1>1 DEF AInv, KInv, IInv, SoundSync, Unchanged
<1>4. Shape(p, sync[p]) /\ Amounts(p, sync[p]) BY <1>1, AtHand DEF AInv, KInv, Facts, Fits, Accountable
<1>5. \A q \in Projects : projects'[q] = IF q = t THEN new ELSE projects[q]
  BY <1>1, <1>2, StoresTo
<1>6. SameClusters(new, projects[t]) BY <1>3, <1>4 DEF Amounts, Writes
<1>7. projects'[p].hard = projects[p].hard BY <1>5, <1>6 DEF SameClusters
<1>8. ASSUME edits = 0, NamedOnce(t)' PROVE Balanced(t)
  <2>1. \A q \in Projects : Parent[q] = t => FirstUse(q)
    BY <1>1, <1>2, <1>8, WritingSane DEF Writing, NamedOnce, FirstUse
  <2>2. CASE w.kind = "count"
    <3>1. Parent[p] = t /\ new.kids = projects[t].kids \cup {p} /\ Counting(sync[p])
      BY <1>3, <1>4, <2>2 DEF Shape, Writes, Counting
    <3>2. /\ SameClusters(sync[p].obj, projects[p])
          /\ Present(sync[p].prev) => SameClusters(sync[p].prev, projects[p])
      BY <1>1, <1>8, <2>1, <3>1, HandAgrees
    <3>3. /\ p \notin projects[t].kids
          /\ new.used = AddClusterHardToUsed(projects[t].used, sync[p].obj.hard)
      BY <1>3, <1>4, <2>2, <3>2 DEF Amounts, Writes, SameClusters
    <3>4. sync[p].obj.hard = projects'[p].hard BY <1>7, <3>2 DEF SameClusters
    <3> QED BY <1>2, <1>8, <3>1, <3>3, <3>4, CountedSpare
  <2>3. CASE w.kind = "uncount"
    <3>1. /\ Parent[p] = t /\ new.kids = projects[t].kids \ {p} /\ p \in projects[t].kids
          /\ new.used = SubClusterHardFromUsed(projects[t].used, sync[p].obj.hard)
          /\ Emptying(sync[p])
      BY <1>3, <1>4, <2>3 DEF Shape, Amounts, Writes, Emptying
    <3>2. sync[p].obj.hard = projects[p].hard
      BY <1>1, <1>8, <2>1, <3>1, HandAgrees DEF SameClusters
    <3> QED BY <1>2, <1>8, <3>1, <3>2, UncountedSpare
  <2>4. CASE w.kind = "finalize"
    <3>1. new.kids = projects[t].kids /\ new.used = projects[t].used
      BY <1>3, <1>4, <2>4 DEF Shape, Amounts, Writes
    <3> QED BY <1>2, <1>5, <1>8, <3>1, SteadySpare DEF AInv
  <2> QED BY <1>3, <2>2, <2>3, <2>4
<1> QED BY <1>2, <1>8, BalancesKept DEF AInv

(* A delete request leaves a ledger alone or empties it.                   *)
LEMMA DeleteBalances ==
    ASSUME AInv, AInv', NEW t \in Projects, Present(projects[t]), ~DeleteRefused(t),
           projects' = [projects EXCEPT ![t] = AfterDelete(t)], UNCHANGED edits
    PROVE  Balances
<1> DEFINE gone == AfterDelete(t)
<1>1. AInv OBVIOUS
<1>2. Stores(t, gone) BY <1>1, DeleteStores
<1>3. IsProject(projects[t]) BY <1>1, AtHand
<1>4. projects[t].phase = "Active"
         => gone.kids = projects[t].kids /\ gone.used = projects[t].used
  BY <1>3 DEF AfterDelete, IsProject
<1>5. projects[t].phase # "Active" => gone.kids = {} /\ gone.used = Nothing /\ gone.nss = {}
  BY DEF AfterDelete, NoObject
<1> HIDE DEF gone
<1>6. projects'[t] = gone BY <1>1, <1>2, StoresTo
<1>7. ASSUME edits = 0, NamedOnce(t)' PROVE Balanced(t)
  <2>1. CASE projects[t].phase = "Active"
    BY <1>2, <1>4, <1>6, <1>7, <2>1, SteadySpare DEF AInv
  <2>2. CASE projects[t].phase # "Active" BY <1>5, <1>6, <2>2, EmptySpare
  <2> QED BY <2>1, <2>2
<1> QED BY <1>2, <1>7, BalancesKept DEF AInv

(* A step that stores nothing spoils no ledger.                            *)
LEMMA StillBalances ==
    ASSUME UNCHANGED projects, edits' = 0 => edits = 0 PROVE Balances
<1>1. \A p, c : Spare(p, c)' = Spare(p, c) BY DEF Spare
<1> QED BY <1>1 DEF Balances, Balanced, NamedOnce, FirstUse

(* A user's write that is stored while nobody edits starts a ledger.       *)
LEMMA UserBalances ==
    ASSUME AInv, AInv', NEW u \in Users, UserCommit(u) PROVE Balances
<1> PICK w : w = user[u] OBVIOUS
<1>1. AInv /\ edits' = edits BY DEF UserCommit
<1>2. CASE UNCHANGED projects BY <1>1, <1>2, StillBalances
<1>3. CASE w.kind # "none" /\ Unchanged(w) /\ Store(w)
  <2>1. w.target \in Projects /\ Stores(w.target, w.new) BY <1>1, <1>3, UserStores
  <2>2. Asked(w) /\ Meant(w) BY <1>1 DEF AInv, Accounts, KInv, Facts
  <2>3. projects'[w.target] = w.new BY <1>1, <2>1, StoresTo
  <2>4. ASSUME edits = 0 PROVE Balanced(w.target)
    <3>1. w.new.kids = {} /\ w.new.used = Nothing /\ w.new.nss = {} BY <1>3, <2>2, <2>4 DEF Asked, Meant
    <3> QED BY <2>3, <3>1, EmptySpare
  <2> QED BY <1>1, <2>1, <2>4, BalancesKept DEF AInv
<1> QED BY <1>2, <1>3 DEF UserCommit

(* Nor does any other.                                                     *)
LEMMA NextBalances == ASSUME AInv, AInv', [Next]_vars PROVE Balances
<1>1. ASSUME NEW p \in Projects, Work(p) PROVE Balances
  <2>1. UNCHANGED edits
    BY <1>1 DEF Work, SyncDeleted, SyncActive, SyncTerminating, CountChild, GetDoomed, DropContent,
                DeleteKid, KidsDone, Uncount, Seal, Purge, Commit, CommitRefused, storeUnchanged
  <2>2. CASE DeleteKid(p)
    <3>1. PICK k \in sync[p].todo :
            \/ UNCHANGED projects
            \/ /\ Present(projects[k]) /\ ~DeleteRefused(k)
               /\ projects' = [projects EXCEPT ![k] = AfterDelete(k)]
      BY <2>2 DEF DeleteKid
    <3>2. k \in Projects BY <3>1 DEF AInv, KInv, IInv, TypeOK, IsSync
    <3> QED BY <2>1, <3>1, <3>2, DeleteBalances, StillBalances
  <2>3. CASE Purge(p) BY <2>1, <2>3, DeleteBalances, StillBalances DEF Purge
  <2>4. CASE Commit(p) BY <2>4, WriteBalances DEF Commit
  <2>5. CASE UNCHANGED projects BY <2>1, <2>5, StillBalances
  <2> QED BY <1>1, <2>2, <2>3, <2>4, <2>5
          DEF Work, SyncDeleted, SyncActive, SyncTerminating, CountChild, GetDoomed, DropContent,
              KidsDone, Uncount, Seal, CommitRefused, storeUnchanged
<1>2. ASSUME NEW p \in Projects, CommitLost(p) PROVE Balances
  BY <1>2, WriteBalances DEF CommitLost
<1>3. ASSUME NEW p \in Projects, UserDelete(p) PROVE Balances
  BY <1>3, DeleteBalances DEF UserDelete, Present, DeleteRefused
<1>4. CASE \E p \in Projects : Deliver(p) BY <1>4, StillBalances DEF Deliver, storeUnchanged
<1>5. CASE Failure BY <1>2, <1>5, StillBalances DEF Failure, Restart, CallFails
<1>6. ASSUME NEW u \in Users, NEW p \in Projects, UserUpdate(u, p) PROVE Balances
  <2>1. edits \in Nat /\ edits' = edits + 1 /\ UNCHANGED projects
    BY <1>6 DEF UserUpdate, AInv, KInv, IInv, TypeOK
  <2> QED BY <2>1, StillBalances
<1>7. CASE Environment
  BY <1>3, <1>6, <1>7, StillBalances DEF Environment, UserCreate
<1>8. CASE UNCHANGED vars BY <1>8, StillBalances DEF vars
<1> QED BY <1>1, <1>4, <1>5, <1>7, <1>8, UserBalances DEF Next

(* A ledger that is right has nothing to spare, and stays so.              *)
LEMMA BooksNext == ASSUME Books, AInv, AInv', Balances PROVE Books'
<1>1. ASSUME NEW p \in Projects, edits' = 0, NamedOnce(p)', NEW c \in Clusters
      PROVE  At(projects'[p].used, c) = Total(projects'[p].kids, projects', c)
  <2> DEFINE u == At(projects[p].used, c)
             T == Total(projects[p].kids, projects, c)
             v == At(projects'[p].used, c)
             W == Total(projects'[p].kids, projects', c)
  <2>1. u \in Int /\ T \in Nat /\ v \in Int /\ W \in Nat
    BY SpareNumbers, SpareNumbersNext, QuotasNext
  <2>2. Spare(p, c) = u - T /\ Spare(p, c)' = v - W BY DEF Spare
  <2>3. u = T BY <1>1 DEF Balances, Books, Adds
  <2>4. Spare(p, c) >= 0 => Spare(p, c)' = Spare(p, c) \/ Spare(p, c)' = 0
    BY <1>1 DEF Balances, Balanced
  <2> HIDE DEF u, T, v, W
  <2>5. v = W BY <2>1, <2>2, <2>3, <2>4
  <2> QED BY <2>5 DEF v, W
<1> QED BY <1>1 DEF Books, Adds

(* Initially every ledger is empty.                                        *)
LEMMA InitBooks == Init => LInv
<1> SUFFICES ASSUME Init PROVE LInv OBVIOUS
<1>1. KInv BY InitLife
<1>2. Accounts BY InitAccounts
<1>3. ASSUME NEW p \in Projects PROVE Adds(p, projects)
  BY TotalOfNone DEF Init, Adds, NoObject, Nothing, At
<1> QED BY <1>1, <1>2, <1>3 DEF LInv, AInv, Books

(* Every step keeps the accounts and the books.                            *)
THEOREM LedgerInvariant == Spec => []LInv
<1>1. LInv /\ [Next]_vars => LInv'
  <2> SUFFICES ASSUME LInv, [Next]_vars PROVE LInv' OBVIOUS
  <2>1. KInv' BY NextLife DEF LInv, AInv
  <2>2. AInv' BY <2>1, NextAccounts DEF LInv, AInv
  <2>3. Books' BY <2>2, NextBalances, BooksNext DEF LInv
  <2> QED BY <2>2, <2>3 DEF LInv
<1> QED BY <1>1, InitBooks, PTL DEF Spec

(* As long as nobody edits a quota and no child's name is used twice, the  *)
(* used field of every project is, on every cluster, the sum of the quotas *)
(* of the children it lists.                                               *)
THEOREM LedgersAreExact == Spec => []LedgerExact
<1>1. LInv => LedgerExact BY DEF LInv, Books, LedgerExact
<1> QED BY <1>1, LedgerInvariant, PTL

------------------------------------------------------------------------------
(* What the other controller of the process may rely on, and what it may   *)
(* do.                                                                     *)

(* A step stores a new version of one project, with the namespaces the old *)
(* one names.                                                              *)
Rewrites ==
    \/ UNCHANGED projects
    \/ \E t \in Projects : \E new : Stores(t, new) /\ SameNss(t, new)

(* Every write of a project is one.                                        *)
LEMMA NextRewrites == ASSUME AInv, [Next]_vars PROVE Rewrites
<1>1. ASSUME NEW p \in Projects, Work(p) PROVE Rewrites
  <2>1. CASE DeleteKid(p)
    <3>1. PICK k \in sync[p].todo :
            \/ UNCHANGED projects
            \/ /\ Present(projects[k]) /\ ~DeleteRefused(k)
               /\ projects' = [projects EXCEPT ![k] = AfterDelete(k)]
      BY <2>1 DEF DeleteKid
    <3>2. k \in Projects BY <3>1 DEF AInv, KInv, IInv, TypeOK, IsSync
    <3> QED BY <3>1, <3>2, DeleteStores DEF Rewrites
  <2>2. CASE Purge(p) BY <2>2, DeleteStores DEF Purge, Rewrites
  <2>3. CASE Commit(p) BY <2>3, WriteStores DEF Commit, Rewrites
  <2>4. CASE UNCHANGED projects BY <2>4 DEF Rewrites
  <2> QED BY <1>1, <2>1, <2>2, <2>3, <2>4
          DEF Work, SyncDeleted, SyncActive, SyncTerminating, CountChild, GetDoomed, DropContent,
              KidsDone, Uncount, Seal, CommitRefused, storeUnchanged
<1>2. ASSUME NEW p \in Projects, CommitLost(p) PROVE Rewrites
  BY <1>2, WriteStores DEF CommitLost, Rewrites
<1>3. ASSUME NEW p \in Projects, UserDelete(p) PROVE Rewrites
  BY <1>3, DeleteStores DEF UserDelete, Present, DeleteRefused, Rewrites
<1>4. CASE \E p \in Projects : Deliver(p) BY <1>4 DEF Deliver, storeUnchanged, Rewrites
<1>5. CASE Failure BY <1>2, <1>5 DEF Failure, Restart, CallFails, Rewrites
<1>6. CASE Environment BY <1>3, <1>6 DEF Environment, UserCreate, UserUpdate, Rewrites
<1>7. CASE \E u \in Users : UserCommit(u) BY <1>7, UserStores DEF UserCommit, Rewrites
<1>8. CASE UNCHANGED vars BY <1>8 DEF vars, Rewrites
<1> QED BY <1>1, <1>4, <1>5, <1>6, <1>7, <1>8 DEF Next

(* The namespaces are left alone or, by the deleter of their project,      *)
(* removed; edits are counted.                                             *)
LEMMA NextBeside ==
    ASSUME AInv, [Next]_vars
    PROVE  /\ edits' = 0 => edits = 0
           /\ \A n \in Namespaces :
                  namespaces'[n] = namespaces[n] \/ namespaces'[n] = NoNamespace(namespaces[n].uid)
<1> DEFINE Goal == /\ edits' = 0 => edits = 0
                   /\ \A n \in Namespaces :
                          \/ namespaces'[n] = namespaces[n]
                          \/ namespaces'[n] = NoNamespace(namespaces[n].uid)
<1>1. CASE UNCHANGED <<namespaces, edits>> BY <1>1
<1>2. ASSUME NEW p \in Projects, Work(p) PROVE Goal
  <2>1. CASE DropContent(p) BY <2>1 DEF DropContent
  <2>2. CASE ~DropContent(p)
    BY <1>1, <1>2, <2>2
       DEF Work, SyncDeleted, SyncActive, SyncTerminating, CountChild, GetDoomed, DeleteKid,
           KidsDone, Uncount, Seal, Purge, Commit, CommitRefused, storeUnchanged
  <2> QED BY <2>1, <2>2
<1>3. ASSUME NEW u \in Users, NEW p \in Projects, UserUpdate(u, p) PROVE Goal
  <2>1. edits \in Nat /\ edits' = edits + 1 /\ UNCHANGED namespaces
    BY <1>3 DEF UserUpdate, AInv, KInv, IInv, TypeOK
  <2> QED BY <2>1
<1>4. CASE \E p \in Projects : Deliver(p) BY <1>1, <1>4 DEF Deliver, storeUnchanged
<1>5. CASE Failure BY <1>1, <1>5 DEF Failure, Restart, CallFails, CommitLost
<1>6. CASE Environment BY <1>1, <1>3, <1>6 DEF Environment, UserCreate, UserDelete
<1>7. CASE \E u \in Users : UserCommit(u) BY <1>1, <1>7 DEF UserCommit
<1>8. CASE UNCHANGED vars BY <1>1, <1>8 DEF vars
<1> QED BY <1>2, <1>4, <1>5, <1>6, <1>7, <1>8 DEF Next

(* So a name never loses its past, and the first project of a name is      *)
(* active only if it was before, and has the namespaces it had.            *)
LEMMA NextStanding ==
    ASSUME AInv, [Next]_vars, NEW p \in Projects
    PROVE  /\ projects[p].uid # 0 => projects'[p].uid # 0
           /\ projects'[p].nss = IF Present(projects'[p]) THEN projects[p].nss ELSE {}
           /\ projects[p].uid # 0 /\ projects'[p].uid = 1 /\ projects'[p].phase = "Active" =>
                 projects[p].uid = 1 /\ projects[p].phase = "Active"
<1>1. Rewrites BY NextRewrites
<1>2. projects[p].uid \in Nat /\ (~Present(projects[p]) => projects[p].nss = {})
  BY DEF AInv, KInv, IInv, TypeOK, IsProject, Accounts
<1>3. CASE UNCHANGED projects BY <1>2, <1>3
<1>4. ASSUME NEW t \in Projects, NEW new, Stores(t, new), SameNss(t, new)
      PROVE  /\ projects[p].uid # 0 => projects'[p].uid # 0
             /\ projects'[p].nss = IF Present(projects'[p]) THEN projects[p].nss ELSE {}
             /\ projects[p].uid # 0 /\ projects'[p].uid = 1 /\ projects'[p].phase = "Active" =>
                   projects[p].uid = 1 /\ projects[p].phase = "Active"
  <2>1. projects'[p] = IF p = t THEN new ELSE projects[p] BY <1>4, StoresTo
  <2>2. CASE p # t BY <1>2, <2>1, <2>2
  <2>3. CASE p = t
    <3>1. projects'[p] = new /\ new.nss = (IF Present(new) THEN projects[p].nss ELSE {})
      BY <1>4, <2>1, <2>3 DEF SameNss
    <3>2. /\ new.uid >= projects[p].uid /\ new.uid \in Nat
          /\ new.uid = projects[p].uid /\ Present(new) =>
                (new.phase = "Active" => projects[p].phase = "Active")
      BY <1>4, <2>3 DEF Stores, Continues
    <3>3. new.phase = "Active" => Present(new) BY DEF Present
    <3> QED BY <1>2, <3>1, <3>2, <3>3
  <2> QED BY <2>2, <2>3
<1> QED BY <1>1, <1>3, <1>4 DEF Rewrites

(* What the namespace controller does to a project: another version of its *)
(* ledger, within its quota, that names other namespaces.                  *)
Posted(t, new) ==
    /\ Present(projects[t]) /\ IsProject(new) /\ WithinHard(new) /\ SameLife(new, projects[t])
    /\ new.kids = projects[t].kids /\ SameClusters(new, projects[t])
    /\ projects' = [projects EXCEPT ![t] = new]

Beside ==
    /\ UNCHANGED <<listed, dirty, cached, sync, user>>
    /\ edits' \in Nat /\ faults' \in Nat /\ (edits' = 0 => edits = 0)
    /\ DOMAIN namespaces' = Namespaces /\ \A n \in Namespaces : IsNamespace(namespaces'[n])
    /\ UNCHANGED projects \/ \E t \in Projects : \E new : Posted(t, new)

(* The quotas of the children are what they were.                          *)
LEMMA BesideQuotas ==
    ASSUME AInv, Beside, NEW p \in Projects
    PROVE  /\ projects'[p].kids = projects[p].kids /\ projects'[p].hard = projects[p].hard
           /\ projects'[p].uid = projects[p].uid /\ projects'[p].phase = projects[p].phase
<1>1. CASE UNCHANGED projects BY <1>1
<1>2. ASSUME NEW t \in Projects, NEW new, Posted(t, new)
      PROVE  /\ projects'[p].kids = projects[p].kids /\ projects'[p].hard = projects[p].hard
             /\ projects'[p].uid = projects[p].uid /\ projects'[p].phase = projects[p].phase
  <2>1. projects'[p] = IF p = t THEN new ELSE projects[p]
    BY <1>2, Stored DEF AInv, Posted
  <2> QED BY <1>2, <2>1 DEF Posted, SameLife, SameClusters
<1> QED BY <1>1, <1>2 DEF Beside

(* That breaks no type and no quota.                                       *)
LEMMA BesideInv == ASSUME IInv, Beside PROVE IInv'
<1>1. /\ DOMAIN projects' = Projects
      /\ \A p \in Projects : IsProject(projects'[p]) /\ WithinHard(projects'[p])
  <2>1. DOMAIN projects = Projects /\ \A q \in Projects : IsProject(projects[q]) /\ WithinHard(projects[q])
    BY DEF IInv, TypeOK, UsedWithinHard
  <2>2. ASSUME NEW t \in Projects, NEW new, Posted(t, new)
        PROVE  /\ DOMAIN projects' = Projects
               /\ \A p \in Projects : IsProject(projects'[p]) /\ WithinHard(projects'[p])
    BY <2>1, <2>2 DEF Posted
  <2> QED BY <2>1, <2>2 DEF Beside
<1>2. UNCHANGED <<listed, dirty, cached, sync, user>> BY DEF Beside
<1>3. TypeOK' BY <1>1, <1>2 DEF IInv, TypeOK, Beside
<1> QED BY <1>1, <1>2, <1>3 DEF IInv, UsedWithinHard

(* Nor what is known of the lives of children.                             *)
LEMMA BesideFacts == ASSUME KInv, Beside PROVE Facts'
<1>1. UNCHANGED <<listed, sync, user>> BY DEF Beside
<1>2. CASE UNCHANGED projects
  BY <1>1, <1>2 DEF KInv, Facts, Life, Held, Informed, Fits, Shape, Meant, FirstUse, Present
<1>3. ASSUME NEW t \in Projects, NEW new, Posted(t, new) PROVE Facts'
  <2>1. /\ SameLife(new, projects[t]) /\ Present(projects[t]) /\ IsProject(new)
        /\ projects' = [projects EXCEPT ![t] = new] /\ new.kids = projects[t].kids
    BY <1>3 DEF Posted
  <2>2. new.kids \subseteq Projects /\ \A k \in new.kids : Parent[k] = t /\ (FirstUse(k) => projects[k].fin)
    BY <2>1 DEF KInv, Facts, Held, IsProject
  <2>3. \A q \in Projects : Life(q)' /\ Held(q)' /\ Informed(q)'
    BY <1>1, <2>1, <2>2, SteadyStore
  <2>4. ASSUME NEW q \in Projects PROVE Fits(q, sync[q])'
    <3>1. PICK s : s = sync[q] OBVIOUS
    <3>2. Fits(q, s) BY <3>1 DEF KInv, Facts
    <3>3. Sealing(s) /\ Parent[q] = t => q \notin new.kids
      BY <2>1, <3>2, TreeAssumption DEF Fits
    <3>4. Fits(q, s)' BY <1>1, <2>1, <3>2, <3>3, SteadyFits
    <3> QED BY <1>1, <3>1, <3>4
  <2>5. \A u \in Users : Meant(user[u])' BY <1>1 DEF KInv, Facts, Meant
  <2> QED BY <2>3, <2>4, <2>5 DEF Facts
<1> QED BY <1>2, <1>3 DEF Beside

(* Nor the accounts.                                                       *)
LEMMA BesideKeeps == AInv /\ Beside => AInv'
<1> SUFFICES ASSUME AInv, Beside PROVE AInv' OBVIOUS
<1>1. KInv' BY BesideInv, BesideFacts DEF AInv, KInv
<1>2. UNCHANGED <<listed, cached, sync, user>> /\ (edits' = 0 => edits = 0) BY DEF Beside
<1>3. Writing
  <2>1. ASSUME NEW t \in Projects, NEW new, Posted(t, new) PROVE Stores(t, new)
    <3>1. Sane(projects[t]) /\ projects[t].uid \in Nat
      BY DEF AInv, KInv, IInv, TypeOK, IsProject, Accounts
    <3>2. new.uid = projects[t].uid /\ new.phase = projects[t].phase /\ Present(new)
      BY <2>1 DEF Posted, SameLife, Present
    <3>3. Sane(new) BY <2>1, <3>1 DEF Posted, Sane, SameClusters
    <3> QED BY <2>1, <3>1, <3>2, <3>3 DEF Stores, Continues, Posted
  <2> QED BY <2>1 DEF Beside, Writing
<1>4. \A u \in Users : Asked(user[u])
  BY DEF AInv, Accounts
<1>5. \A u \in Users : Asked(user[u])' BY <1>2, <1>4 DEF Asked, Sane, Limits
<1>6. Accounts' BY <1>1, <1>2, <1>3, <1>5, AccountsKept
<1> QED BY <1>1, <1>6 DEF AInv

------------------------------------------------------------------------------
(***************************************************************************)
(* The ledgers and the cache.                                              *)
(*                                                                         *)
(* When quotas are edited a ledger lags behind, by exactly the difference  *)
(* between what is stored and what the controller has cached for a child.  *)
(* Cash says how the two stay together: Rooted, that a project that asks   *)
(* to be counted has somebody to count it; Follows, where the copies of a  *)
(* child that was never deleted are on their way from the store to the     *)
(* cache; and that the ledger adds up to the cache.                        *)
(***************************************************************************)

------------------------------------------------------------------------------
(* Sums that change by one object.                                         *)

(* An object more.                                                         *)
LEMMA SumWithOneMore ==
    ASSUME NEW S, IsFiniteSet(S), NEW k, k \notin S, NEW quota, NEW given, NEW c,
           NEW u, IsLedger(u), At(u, c) = Total(S, quota, c),
           \A x \in S : given[x].hard = quota[x].hard,
           \A x \in S \cup {k} : At(given[x].hard, c) \in Nat,
           IsLedger(given[k].hard)
    PROVE  At(AddClusterHardToUsed(u, given[k].hard), c) = Total(S \cup {k}, given, c)
<1>1. At(AddClusterHardToUsed(u, given[k].hard), c) = At(u, c) + At(given[k].hard, c)
  BY AtOfSum
<1>2. Total(S, given, c) = Total(S, quota, c) BY SameTotal
<1>3. Total(S \cup {k}, given, c) = Total(S, given, c) + At(given[k].hard, c)
  BY TotalWithOneMore
<1> QED BY <1>1, <1>2, <1>3

(* Giving back leaves what the others hold.                                *)
LEMMA SumWithoutOne ==
    ASSUME NEW S, IsFiniteSet(S), NEW k \in S, NEW quota, NEW given, NEW c,
           NEW u, IsLedger(u), At(u, c) = Total(S, quota, c),
           \A x \in S \ {k} : given[x].hard = quota[x].hard,
           \A x \in S : At(quota[x].hard, c) \in Nat,
           IsLedger(quota[k].hard)
    PROVE  At(SubClusterHardFromUsed(u, quota[k].hard), c) = Total(S \ {k}, given, c)
<1> DEFINE h == At(quota[k].hard, c)
           rest == Total(S \ {k}, quota, c)
<1>1. At(SubClusterHardFromUsed(u, quota[k].hard), c)
        = IF c \in DOMAIN u THEN At(u, c) - h ELSE 0
  BY AtOfSum
<1>2. rest \in Nat /\ Total(S, quota, c) = rest + h BY TotalWithoutOne
<1>3. Total(S \ {k}, given, c) = rest BY SameTotal
<1>4. c \notin DOMAIN u => At(u, c) = 0 BY DEF At
<1>5. h \in Nat OBVIOUS
<1> HIDE DEF h, rest
<1>6. At(SubClusterHardFromUsed(u, quota[k].hard), c) = rest BY <1>1, <1>2, <1>4, <1>5
<1> QED BY <1>3, <1>6

(* An object that gets another quota.                                      *)
LEMMA SumWithChanged ==
    ASSUME NEW S, IsFiniteSet(S), NEW k \in S, NEW quota, NEW given, NEW c,
           NEW u, IsLedger(u), At(u, c) = Total(S, quota, c),
           \A x \in S \ {k} : given[x].hard = quota[x].hard,
           \A x \in S : At(quota[x].hard, c) \in Nat /\ At(given[x].hard, c) \in Nat,
           IsLedger(quota[k].hard), IsLedger(given[k].hard)
    PROVE  At(AddClusterHardToUsed(SubClusterHardFromUsed(u, quota[k].hard), given[k].hard), c)
             = Total(S, given, c)
<1> DEFINE R == S \ {k}
           v == SubClusterHardFromUsed(u, quota[k].hard)
<1>1. At(v, c) = Total(R, given, c)
  <2>1. \A x \in S : At(quota[x].hard, c) \in Nat OBVIOUS
  <2> QED BY <2>1, SumWithoutOne
<1>2. IsFiniteSet(R) BY FS_RemoveElement
<1>3. IsLedger(v) BY SubIsLedger
<1>4. R \cup {k} = S /\ k \notin R OBVIOUS
<1>5. \A x \in R \cup {k} : At(given[x].hard, c) \in Nat OBVIOUS
<1> HIDE DEF R, v
<1>6. At(AddClusterHardToUsed(v, given[k].hard), c) = Total(R \cup {k}, given, c)
  BY <1>1, <1>2, <1>3, <1>4, <1>5, SumWithOneMore
<1> QED BY <1>4, <1>6 DEF v

------------------------------------------------------------------------------
(* What the cache has to do with the ledger.  For a child that has not     *)
(* been deleted: a key at work is one the informer knows, a worker that    *)
(* counts compares with what is cached and has the informer's copy unless  *)
(* the key waits again, a counted child is cached, a cached one has the    *)
(* quota the informer knows once its key is at rest, and a child that is   *)
(* not counted has its key at work.                                        *)
Knows(k, s, waiting, l, c) ==
    /\ k \in waiting \/ s.pc # "idle" => Present(l)
    /\ Counting(s) => s.prev = c /\ (k \notin waiting => s.obj = l)
    /\ k \in projects[Parent[k]].kids => Present(c)
    /\ s.pc = "idle" /\ k \notin waiting /\ Present(c) => c.hard = l.hard
    /\ Present(projects[Parent[k]]) /\ FirstUse(Parent[k]) /\ projects[k].uid # 0
          => k \in projects[Parent[k]].kids \/ k \in waiting \/ s.pc # "idle" \/ ~Present(l)

Follows ==
    faults = 0 => \A k \in Projects : Parent[k] # NoProject /\ NeverDeleted(k)
                      => Knows(k, sync[k], dirty, listed[k], cached[k])

(* A project was created under a parent that existed.                      *)
Under(k) == Parent[k] # NoProject => projects[Parent[k]].uid # 0

Rooted ==
    /\ \A k \in Projects : projects[k].uid # 0 => Under(k)
    /\ \A u \in Users : user[u].kind = "create" => Under(user[u].target)

Cash == Rooted /\ Follows /\ LedgerMatchesCache

CInv == AInv /\ Cash

(* What is stored is no child's coming to the ledger of its parent, nor    *)
(* its leaving a parent that stays.                                        *)
Leaving(t, new, k) ==
    Parent[k] = t => /\ k \in new.kids => k \in projects[t].kids
                     /\ k \in projects[t].kids => k \in new.kids \/ ~Present(new)

(* Nor does it change a ledger whose children all stay.                    *)
Untouched(t, new) ==
    /\ Stores(t, new)
    /\ new.uid # 0 => projects[t].uid # 0 \/ Under(t)
    /\ \A k \in Projects : NeverDeleted(k)' => Leaving(t, new, k)
    /\ ChildrenStay(t)' =>
          \/ new.kids = projects[t].kids /\ new.used = projects[t].used
          \/ new.kids = {} /\ new.used = Nothing

Steady == UNCHANGED projects \/ \E t \in Projects : \E new : Untouched(t, new)

(* A project that has not been deleted after a step was not before.        *)
LEMMA NeverDeletedBefore ==
    ASSUME AInv, Writing, NEW k \in Projects, NeverDeleted(k)' PROVE NeverDeleted(k)
<1>1. /\ projects'[k].uid >= projects[k].uid
      /\ projects'[k].uid \in Nat /\ projects[k].uid \in Nat
  BY WritingSane
<1>2. /\ projects'[k].uid <= 1
      /\ projects'[k].phase = "Active" \/ projects'[k].uid = 0
  BY DEF NeverDeleted, FirstUse
<1>3. CASE UNCHANGED projects BY <1>2, <1>3 DEF NeverDeleted, FirstUse
<1>4. ASSUME NEW t \in Projects, NEW new, Stores(t, new) PROVE NeverDeleted(k)
  <2>1. projects'[k] = IF k = t THEN new ELSE projects[k] BY <1>4, StoresTo
  <2>2. CASE k # t BY <1>2, <2>1, <2>2 DEF NeverDeleted, FirstUse
  <2>3. CASE k = t
    <3>1. projects[k].uid = 0 \/ projects[k].uid = new.uid BY <1>1, <1>2, <2>1, <2>3
    <3>2. CASE projects[k].uid = 0 BY <3>2 DEF NeverDeleted, FirstUse
    <3>3. CASE projects[k].uid = new.uid /\ new.uid # 0
      <4>1. new.phase = "Active" BY <1>2, <2>1, <2>3, <3>3
      <4> QED BY <1>1, <1>2, <1>4, <2>1, <2>3, <3>3, <4>1
              DEF Stores, Continues, NeverDeleted, FirstUse, Present
    <3> QED BY <3>1, <3>2, <3>3
  <2> QED BY <2>2, <2>3
<1> QED BY <1>3, <1>4 DEF Writing

(* A step that is steady writes.                                           *)
LEMMA SteadyWrites == ASSUME Steady PROVE Writing
BY DEF Steady, Untouched, Writing

(* What a key knows it knows after a write that is not its own.            *)
LEMMA KnowsKept ==
    ASSUME AInv, Rooted, NEW k \in Projects, Parent[k] # NoProject, NeverDeleted(k)',
           NEW s, NEW waiting, NEW l, NEW c, l = listed[k], Knows(k, s, waiting, l, c),
           \/ UNCHANGED projects
           \/ \E t \in Projects : \E new : Stores(t, new) /\ Leaving(t, new, k)
    PROVE  Knows(k, s, waiting, l, c)'
<1>1. CASE UNCHANGED projects BY <1>1 DEF Knows, FirstUse
<1>2. ASSUME NEW t \in Projects, NEW new, Stores(t, new), Leaving(t, new, k)
      PROVE  Knows(k, s, waiting, l, c)'
  <2> DEFINE q == Parent[k]
  <2>1. q \in Projects BY TreeAssumption
  <2>2. \A x \in Projects : projects'[x] = IF x = t THEN new ELSE projects[x]
    BY <1>2, StoresTo
  <2>3. k \in projects'[q].kids => k \in projects[q].kids
    BY <1>2, <2>1, <2>2 DEF Leaving
  <2>4. ASSUME Present(projects'[q]), projects'[q].uid <= 1, projects'[k].uid # 0,
               k \notin projects'[q].kids
        PROVE  k \in waiting \/ s.pc # "idle" \/ ~Present(l)
    <3>1. Writing BY <1>2 DEF Writing
    <3>2. CASE projects[k].uid = 0
      <4>1. ~Present(l) BY <3>2 DEF AInv, KInv, Facts, Informed, FirstUse, Present
      <4> QED BY <4>1
    <3>3. CASE projects[k].uid # 0
      <4>1. projects[q].uid # 0 BY <3>3 DEF Rooted, Under
      <4>2. /\ projects'[q].uid >= projects[q].uid
            /\ projects'[q].uid \in Nat /\ projects[q].uid \in Nat
        BY <2>1, <3>1, WritingSane
      <4>3. projects'[q].uid = projects[q].uid /\ FirstUse(q)
        BY <2>4, <4>1, <4>2 DEF FirstUse
      <4>4. Present(projects[q])
        BY <1>2, <2>1, <2>2, <2>4, <4>3 DEF Stores, Continues
      <4>5. k \notin projects[q].kids
        BY <1>2, <2>1, <2>2, <2>4 DEF Leaving
      <4> QED BY <3>3, <4>3, <4>4, <4>5 DEF Knows
    <3> QED BY <3>2, <3>3
  <2>5. Present(projects[q])' /\ FirstUse(q)' /\ projects'[k].uid # 0
          => k \in projects'[q].kids \/ k \in waiting \/ s.pc # "idle" \/ ~Present(l)
    BY <2>4 DEF FirstUse, Present
  <2> QED BY <2>3, <2>5 DEF Knows
<1> QED BY <1>1, <1>2

(* The ledgers still match if the cached quota of a counted child that     *)
(* stays is what it was.                                                   *)
LEMMA MatchKept ==
    ASSUME CInv, AInv', Steady, faults = 0,
           \A k \in Projects :
              \/ cached'[k].hard = cached[k].hard
              \/ Parent[k] = NoProject \/ ~NeverDeleted(k)'
              \/ k \notin projects'[Parent[k]].kids
    PROVE  \A p \in Projects : ChildrenStay(p)' => Adds(p, cached)'
<1> TAKE p \in Projects
<1> HAVE ChildrenStay(p)'
<1>1. \A k \in Projects : Parent[k] = p => NeverDeleted(k)' BY DEF ChildrenStay
<1>2. ChildrenStay(p)
  BY <1>1, SteadyWrites, NeverDeletedBefore DEF ChildrenStay, CInv
<1>3. \A c \in Clusters : At(projects[p].used, c) = Total(projects[p].kids, cached, c)
  BY <1>2 DEF CInv, Cash, LedgerMatchesCache, Adds
<1>4. \A k \in projects'[p].kids : k \in Projects /\ Parent[k] = p
  BY DEF AInv, KInv, IInv, TypeOK, IsProject, Facts, Held
<1>5. \A k \in projects'[p].kids : cached'[k].hard = cached[k].hard
  BY <1>1, <1>4, TreeAssumption
<1>6. ASSUME projects'[p].kids = projects[p].kids, projects'[p].used = projects[p].used
      PROVE  Adds(p, cached)'
  <2>1. ASSUME NEW c \in Clusters
        PROVE  Total(projects'[p].kids, cached', c) = Total(projects[p].kids, cached, c)
    BY <1>5, <1>6, SameTotal
  <2> QED BY <1>3, <1>6, <2>1 DEF Adds
<1>7. ASSUME projects'[p].kids = {}, projects'[p].used = Nothing
      PROVE  Adds(p, cached)'
  BY <1>7, TotalOfNone DEF Adds, At, Nothing
<1>8. CASE UNCHANGED projects BY <1>6, <1>8
<1>9. ASSUME NEW t \in Projects, NEW new, Untouched(t, new) PROVE Adds(p, cached)'
  <2>1. projects'[p] = IF p = t THEN new ELSE projects[p]
    BY <1>9, StoresTo DEF CInv, Untouched
  <2>2. CASE p # t BY <1>6, <2>1, <2>2
  <2>3. CASE p = t
    <3>1. \/ new.kids = projects[p].kids /\ new.used = projects[p].used
          \/ new.kids = {} /\ new.used = Nothing
      BY <1>9, <2>3 DEF Untouched
    <3> QED BY <1>6, <1>7, <2>1, <2>3, <3>1
  <2> QED BY <2>2, <2>3
<1> QED BY <1>8, <1>9 DEF Steady

(* Projects are created under parents that existed.                        *)
LEMMA RootedKept ==
    ASSUME AInv, Rooted,
           \/ UNCHANGED projects
           \/ \E t \in Projects : \E new :
                 Stores(t, new) /\ (new.uid # 0 => projects[t].uid # 0 \/ Under(t)),
           \A u \in Users : user'[u].kind = "create" =>
                user'[u].target \in Projects /\ Under(user'[u].target)
    PROVE  Rooted'
<1>1. \A q \in Projects : projects[q].uid # 0 => projects'[q].uid # 0
  <2>1. Writing BY DEF Writing
  <2>2. \A q \in Projects : /\ projects'[q].uid >= projects[q].uid
                            /\ projects'[q].uid \in Nat /\ projects[q].uid \in Nat
    BY <2>1, WritingSane
  <2> QED BY <2>2
<1>2. \A k \in Projects : Under(k) => Under(k)' BY <1>1, TreeAssumption DEF Under
<1>3. \A k \in Projects : projects'[k].uid # 0 => Under(k)
  <2>1. CASE UNCHANGED projects BY <2>1 DEF Rooted
  <2>2. ASSUME NEW t \in Projects, NEW new, Stores(t, new),
               new.uid # 0 => projects[t].uid # 0 \/ Under(t)
        PROVE  \A k \in Projects : projects'[k].uid # 0 => Under(k)
    BY <2>2, StoresTo DEF Rooted
  <2> QED BY <2>1, <2>2
<1>4. ASSUME NEW u \in Users PROVE (user[u].kind = "create" => Under(user[u].target))'
  BY <1>2 DEF Under
<1> QED BY <1>2, <1>3, <1>4 DEF Rooted

------------------------------------------------------------------------------
(* What a step does to the keys.                                           *)

SameKey(q) ==
    /\ listed'[q] = listed[q] /\ cached'[q] = cached[q] /\ sync'[q] = sync[q]
    /\ q \in dirty' <=> q \in dirty

MovedKey(q) ==
    faults = 0 /\ Parent[q] # NoProject /\ NeverDeleted(q)' =>
        /\ Knows(q, sync[q], dirty, listed[q], cached[q])'
        /\ cached'[q].hard = cached[q].hard \/ q \notin projects'[Parent[q]].kids

(* A key that does not move knows what it knew.                            *)
LEMMA SameKeyKnows ==
    ASSUME CInv, faults = 0, NEW q \in Projects, Parent[q] # NoProject, NeverDeleted(q)',
           SameKey(q),
           \/ UNCHANGED projects
           \/ \E t \in Projects : \E new : Stores(t, new) /\ Leaving(t, new, q)
    PROVE  Knows(q, sync[q], dirty, listed[q], cached[q])'
<1>1. NeverDeleted(q) BY NeverDeletedBefore DEF CInv, Writing
<1>2. PICK s : s = sync[q] OBVIOUS
<1>3. PICK d : d = dirty OBVIOUS
<1>4. PICK l : l = listed[q] OBVIOUS
<1>5. PICK c : c = cached[q] OBVIOUS
<1>6. Knows(q, s, d, l, c)
  BY <1>1, <1>2, <1>3, <1>4, <1>5 DEF CInv, Cash, Follows
<1>7. Knows(q, s, d, l, c)' BY <1>4, <1>6, KnowsKept DEF CInv, Cash
<1>8. /\ listed'[q] = l /\ cached'[q] = c /\ sync'[q] = s
      /\ q \in dirty' <=> q \in d
  BY <1>2, <1>3, <1>4, <1>5 DEF SameKey
<1> QED BY <1>7, <1>8 DEF Knows

(* A step that leaves the ledgers alone.                                   *)
LEMMA KeysMove ==
    ASSUME CInv, AInv', UNCHANGED faults, Steady,
           \A q \in Projects : SameKey(q) \/ MovedKey(q),
           \A u \in Users : user'[u].kind = "create" =>
                user'[u].target \in Projects /\ Under(user'[u].target)
    PROVE  Cash'
<1>1. Rooted'
  <2>1. \/ UNCHANGED projects
        \/ \E t \in Projects : \E new :
              Stores(t, new) /\ (new.uid # 0 => projects[t].uid # 0 \/ Under(t))
    BY DEF Steady, Untouched
  <2> QED BY <2>1, RootedKept DEF CInv, Cash
<1>2. ASSUME faults = 0, NEW q \in Projects, Parent[q] # NoProject, NeverDeleted(q)'
      PROVE  Knows(q, sync[q], dirty, listed[q], cached[q])'
  <2>1. CASE MovedKey(q) BY <1>2, <2>1 DEF MovedKey
  <2>2. CASE SameKey(q)
    <3>1. \/ UNCHANGED projects
          \/ \E t \in Projects : \E new : Stores(t, new) /\ Leaving(t, new, q)
      BY <1>2 DEF Steady, Untouched
    <3> QED BY <1>2, <2>2, <3>1, SameKeyKnows
  <2> QED BY <2>1, <2>2
<1>3. Follows' BY <1>2 DEF Follows
<1>4. LedgerMatchesCache'
  <2>1. \A k \in Projects :
            \/ faults # 0
            \/ cached'[k].hard = cached[k].hard
            \/ Parent[k] = NoProject \/ ~NeverDeleted(k)'
            \/ k \notin projects'[Parent[k]].kids
    BY DEF SameKey, MovedKey
  <2>2. faults = 0 => \A p \in Projects : ChildrenStay(p)' => Adds(p, cached)'
    BY <2>1, MatchKept
  <2> QED BY <2>2 DEF LedgerMatchesCache
<1> QED BY <1>1, <1>3, <1>4 DEF Cash

(* The requests users have made stay under parents that existed.           *)
LEMMA SameUsers ==
    ASSUME CInv, UNCHANGED user
    PROVE  \A u \in Users : user'[u].kind = "create" =>
                user'[u].target \in Projects /\ Under(user'[u].target)
BY DEF CInv, Cash, Rooted, AInv, KInv, IInv, SoundUser, Sound

(* How the key moves that a worker holds.                                  *)
LEMMA WorkerKeys ==
    ASSUME CInv, NEW p \in Projects, NEW s, Becomes(p, s), UNCHANGED listed,
           cached' = cached \/ \E o : cached' = [cached EXCEPT ![p] = o],
           dirty' \in {dirty, dirty \cup {p}, dirty \ {p}}
    PROVE  /\ \A q \in Projects : q # p => SameKey(q)
           /\ sync'[p] = s
<1>1. /\ DOMAIN sync = Projects /\ DOMAIN cached = Projects
  BY DEF CInv, AInv, KInv, IInv, TypeOK
<1> QED BY <1>1 DEF Becomes, SameKey

(* The worker of a project that has been deleted, or has no parent, may do *)
(* what it likes with its own key.                                         *)
LEMMA StrangerMoves ==
    ASSUME CInv, AInv', NEW p \in Projects, UNCHANGED <<user, faults>>, Steady,
           \A q \in Projects : q # p => SameKey(q),
           faults = 0 => Parent[p] = NoProject \/ ~NeverDeleted(p)
    PROVE  Cash'
<1>1. NeverDeleted(p)' => NeverDeleted(p) BY SteadyWrites, NeverDeletedBefore DEF CInv
<1>2. MovedKey(p) BY <1>1 DEF MovedKey
<1> QED BY <1>2, SameUsers, KeysMove

(* A worker that deletes deletes a project somebody asked to delete.       *)
LEMMA DoomedNotStaying ==
    ASSUME AInv, NEW p \in Projects, Deleting(sync[p]) PROVE ~NeverDeleted(p)
<1>1. Fits(p, sync[p]) BY DEF AInv, KInv, Facts
<1>2. sync[p].pc # "idle" BY DEF Deleting, Emptying, Writes
<1> QED BY <1>1, <1>2 DEF Fits, NeverDeleted, FirstUse

(* Workers that only look around leave everything as it is.                *)
LEMMA StillSteady == ASSUME UNCHANGED projects PROVE Steady
BY DEF Steady

(* The informer delivers.                                                  *)
LEMMA DeliverCash == ASSUME CInv, AInv', NEW p \in Projects, Deliver(p) PROVE Cash'
<1>1. UNCHANGED <<projects, cached, sync, user, faults>> BY DEF Deliver, storeUnchanged
<1>2. /\ \A q \in Projects : listed'[q] = IF q = p THEN projects[p] ELSE listed[q]
      /\ dirty' = IF Present(projects[p]) THEN dirty \cup {p} ELSE dirty
  BY DEF CInv, AInv, KInv, IInv, TypeOK, Deliver
<1>3. \A q \in Projects : q # p => SameKey(q) BY <1>1, <1>2 DEF SameKey
<1>4. ASSUME faults = 0, Parent[p] # NoProject, NeverDeleted(p)'
      PROVE  Knows(p, sync[p], dirty, listed[p], cached[p])'
  <2>1. NeverDeleted(p) BY <1>1, <1>4 DEF NeverDeleted, FirstUse
  <2>2. Knows(p, sync[p], dirty, listed[p], cached[p])
    BY <1>4, <2>1 DEF CInv, Cash, Follows
  <2>3. CASE Present(projects[p])
    <3>1. listed'[p] = projects[p] /\ p \in dirty' BY <1>2, <2>3
    <3> QED BY <1>1, <2>2, <2>3, <3>1 DEF Knows, FirstUse, Present
  <2>4. CASE ~Present(projects[p])
    <3>1. projects[p].uid = 0 BY <2>1, <2>4 DEF NeverDeleted, Present
    <3>2. ~Present(listed[p]) /\ sync[p].pc = "idle"
      BY <3>1 DEF CInv, AInv, KInv, Facts, Informed, Fits, FirstUse, Present
    <3>3. p \notin dirty BY <2>2, <3>2 DEF Knows
    <3>4. ~Present(cached[p])
      <4>1. Good(p, cached[p]) BY AtHand DEF CInv
      <4> QED BY <3>1, <4>1 DEF Good, Copy
    <3>5. p \notin dirty' /\ UNCHANGED <<sync, cached, projects>> BY <1>1, <1>2, <2>4, <3>3
    <3>6. ~Counting(sync[p]) BY <3>2 DEF Counting, Writes
    <3> QED BY <2>2, <3>1, <3>2, <3>4, <3>5, <3>6 DEF Knows, FirstUse, Present, Counting, Writes
  <2> QED BY <2>3, <2>4
<1>5. MovedKey(p) BY <1>1, <1>4 DEF MovedKey
<1> QED BY <1>1, <1>3, <1>5, SameUsers, KeysMove, StillSteady

(* A vanished project leaves the cache: no child that stays vanishes.      *)
LEMMA SyncDeletedCash == ASSUME CInv, AInv', NEW p \in Projects, SyncDeleted(p) PROVE Cash'
<1>1. UNCHANGED <<projects, listed, sync, user, faults>> BY DEF SyncDeleted, storeUnchanged
<1>2. \A q \in Projects : q # p => SameKey(q)
  BY <1>1 DEF SyncDeleted, Take, SameKey, CInv, AInv, KInv, IInv, TypeOK
<1>3. p \in dirty /\ ~Present(listed[p]) /\ dirty' = dirty \ {p}
      /\ cached' = [cached EXCEPT ![p] = NoObject(0)]
  BY DEF SyncDeleted, Take
<1>4. faults = 0 => Parent[p] = NoProject \/ ~NeverDeleted(p)
  BY <1>3 DEF CInv, Cash, Follows, Knows
<1>5. Steady BY <1>1, StillSteady
<1> QED BY <1>1, <1>2, <1>3, <1>4, <1>5, StrangerMoves

(* A worker starts to count: what it compares with is what is cached.      *)
LEMMA SyncActiveCash == ASSUME CInv, AInv', NEW p \in Projects, SyncActive(p) PROVE Cash'
<1>1. UNCHANGED <<projects, listed, user, faults>> BY DEF SyncActive, storeUnchanged
<1>2. p \in dirty /\ dirty' = dirty \ {p} /\ listed[p].phase = "Active"
  BY DEF SyncActive, Take
<1>3. Steady BY <1>1, StillSteady
<1>4. CASE Parent[p] = NoProject
  <2>1. UNCHANGED sync /\ cached' = [cached EXCEPT ![p] = listed[p]] BY <1>4 DEF SyncActive
  <2>2. \A q \in Projects : q # p => SameKey(q)
    BY <1>1, <1>2, <2>1 DEF SameKey, CInv, AInv, KInv, IInv, TypeOK
  <2> QED BY <1>1, <1>2, <1>3, <1>4, <2>1, <2>2, StrangerMoves
<1>5. CASE Parent[p] # NoProject
  <2> DEFINE s == [sync[p] EXCEPT !.pc = "count", !.obj = listed[p], !.prev = cached[p]]
  <2>1. /\ Becomes(p, s)
        /\ cached' = IF Present(cached[p]) /\ cached[p].uid # listed[p].uid
                     THEN [cached EXCEPT ![p] = NoObject(0)] ELSE cached
    BY <1>5 DEF SyncActive
  <2>2. s.pc = "count" /\ s.obj = listed[p] /\ s.prev = cached[p]
    BY AtHand DEF CInv, IsSync
  <2> HIDE DEF s
  <2>3. (\A q \in Projects : q # p => SameKey(q)) /\ sync'[p] = s
    <3>1. cached' = cached \/ \E o : cached' = [cached EXCEPT ![p] = o] BY <2>1
    <3> QED BY <1>1, <1>2, <2>1, <3>1, WorkerKeys
  <2>4. ASSUME faults = 0, NeverDeleted(p)'
        PROVE  Knows(p, sync[p], dirty, listed[p], cached[p])' /\ cached'[p] = cached[p]
    <3>1. NeverDeleted(p) BY <1>1, <2>4 DEF NeverDeleted, FirstUse
    <3>2. Knows(p, sync[p], dirty, listed[p], cached[p])
      BY <1>5, <2>4, <3>1 DEF CInv, Cash, Follows
    <3>3. Present(cached[p]) => cached[p].uid = listed[p].uid
      <4>1. Good(p, cached[p]) /\ Good(p, listed[p]) BY AtHand DEF CInv
      <4>2. projects[p].uid \in Nat BY DEF CInv, AInv, KInv, IInv, TypeOK, IsProject
      <4>3. Present(listed[p]) BY <1>2 DEF Present
      <4> QED BY <3>1, <4>1, <4>2, <4>3 DEF Good, Copy, NeverDeleted, FirstUse
    <3>4. cached' = cached BY <2>1, <3>3
    <3>5. p \notin dirty' /\ listed'[p] = listed[p] BY <1>1, <1>2
    <3> QED BY <1>1, <1>2, <2>2, <2>3, <3>2, <3>4, <3>5 DEF Knows, FirstUse, Present
  <2>5. MovedKey(p) BY <2>4 DEF MovedKey
  <2> QED BY <1>1, <1>3, <2>3, <2>5, SameUsers, KeysMove
<1> QED BY <1>4, <1>5

(* A worker starts to delete a project that was deleted.                   *)
LEMMA SyncTerminatingCash ==
    ASSUME CInv, AInv', NEW p \in Projects, SyncTerminating(p) PROVE Cash'
<1>1. UNCHANGED <<projects, listed, user, faults>> BY DEF SyncTerminating, storeUnchanged
<1>2. dirty' = dirty \ {p} /\ listed[p].phase = "Terminating"
      /\ cached' = [cached EXCEPT ![p] = NoObject(0)]
  BY DEF SyncTerminating, Take
<1>3. PICK s : Becomes(p, s) BY DEF SyncTerminating, Step
<1>4. \A q \in Projects : q # p => SameKey(q)
  BY <1>1, <1>2, <1>3, WorkerKeys
<1>5. ~NeverDeleted(p)
  BY <1>2 DEF CInv, AInv, KInv, Facts, Informed, NeverDeleted, FirstUse
<1>6. Steady BY <1>1, StillSteady
<1> QED BY <1>1, <1>4, <1>5, <1>6, StrangerMoves

------------------------------------------------------------------------------
(* The workers that delete.                                                *)

(* A worker that deletes goes on, or ends its sync, without a write.       *)
LEMMA DoomedMoves ==
    ASSUME CInv, AInv', NEW p \in Projects, Deleting(sync[p]), NEW s, Becomes(p, s),
           dirty' \in {dirty, dirty \cup {p}}, Steady,
           UNCHANGED <<listed, cached, user, faults>>
    PROVE  Cash'
<1>1. \A q \in Projects : q # p => SameKey(q) BY WorkerKeys
<1>2. ~NeverDeleted(p) BY DoomedNotStaying DEF CInv
<1> QED BY <1>1, <1>2, StrangerMoves

(* A delete request leaves ledgers alone or empties the one of the object. *)
LEMMA DeleteSteady ==
    ASSUME CInv, NEW t \in Projects, Present(projects[t]), ~DeleteRefused(t),
           projects' = [projects EXCEPT ![t] = AfterDelete(t)]
    PROVE  Steady
<1> DEFINE gone == AfterDelete(t)
<1>1. AInv BY DEF CInv
<1>2. Stores(t, gone) BY <1>1, DeleteStores
<1>3. IsProject(projects[t]) BY <1>1, AtHand
<1>4. gone.uid = projects[t].uid BY DeletedObject DEF CInv, AInv
<1>5. \/ gone.kids = projects[t].kids /\ gone.used = projects[t].used
      \/ gone.kids = {} /\ gone.used = Nothing /\ ~Present(gone)
  BY <1>3 DEF AfterDelete, IsProject, NoObject, Present
<1> HIDE DEF gone
<1>6. Untouched(t, gone) BY <1>2, <1>4, <1>5 DEF Untouched, Leaving
<1> QED BY <1>6 DEF Steady

(* A child that a worker takes out of a ledger has been deleted; the write *)
(* that takes the finalizer away leaves the ledger alone.                  *)
LEMMA DoomedSteady ==
    ASSUME CInv, NEW p \in Projects, sync[p].pc = "commit", Unchanged(sync[p].write),
           Store(sync[p].write), sync[p].write.kind # "count"
    PROVE  Steady
<1> PICK w : w = sync[p].write OBVIOUS
<1> PICK t : t = w.target OBVIOUS
<1> PICK new : new = w.new OBVIOUS
<1>1. AInv BY DEF CInv
<1>2. t \in Projects /\ Stores(t, new) BY <1>1, WriteStores
<1>3. w.kind \in {"uncount", "finalize"} /\ w.base = projects[t]
  BY <1>1 DEF AInv, KInv, IInv, SoundSync, Unchanged
<1>4. Shape(p, sync[p]) /\ Amounts(p, sync[p])
  BY <1>1, AtHand DEF AInv, KInv, Facts, Fits, Accountable
<1>5. ~NeverDeleted(p)'
  <2>1. Deleting(sync[p]) BY <1>3 DEF Deleting, Emptying, Writes
  <2>2. Writing BY <1>2 DEF Writing
  <2> QED BY <1>1, <2>1, <2>2, DoomedNotStaying, NeverDeletedBefore
<1>6. new.uid = projects[t].uid BY <1>3, <1>4 DEF Shape, Writes, SameLife
<1>7. CASE w.kind = "uncount"
  <2>1. Parent[p] = t /\ new.kids = projects[t].kids \ {p}
    BY <1>3, <1>4, <1>7 DEF Shape, Writes
  <2>2. ~ChildrenStay(t)' BY <1>5, <2>1 DEF ChildrenStay
  <2>3. \A k \in Projects : NeverDeleted(k)' => Leaving(t, new, k)
    BY <1>5, <2>1 DEF Leaving
  <2>4. Untouched(t, new) BY <1>2, <1>6, <2>2, <2>3 DEF Untouched
  <2> QED BY <1>2, <2>4 DEF Steady
<1>8. CASE w.kind = "finalize"
  <2>1. new.kids = projects[t].kids /\ new.used = projects[t].used
    BY <1>3, <1>4, <1>8 DEF Shape, Amounts, Writes
  <2>2. Untouched(t, new) BY <1>2, <1>6, <2>1 DEF Untouched, Leaving
  <2> QED BY <1>2, <2>2 DEF Steady
<1> QED BY <1>3, <1>7, <1>8

(* The deletion of a project concerns no child that stays.                 *)
LEMMA DoomedCash ==
    ASSUME CInv, AInv', NEW p \in Projects,
           \/ GetDoomed(p) \/ DropContent(p) \/ DeleteKid(p) \/ KidsDone(p)
           \/ Uncount(p) \/ Seal(p) \/ Purge(p)
    PROVE  Cash'
<1>1. Deleting(sync[p])
  BY DEF GetDoomed, DropContent, DeleteKid, KidsDone, Uncount, Seal, Purge, Deleting, Emptying
<1>2. UNCHANGED <<listed, cached, user, faults>>
  BY DEF GetDoomed, DropContent, DeleteKid, KidsDone, Uncount, Seal, Purge, storeUnchanged
<1>3. dirty' \in {dirty, dirty \cup {p}}
  BY DEF GetDoomed, DropContent, DeleteKid, KidsDone, Uncount, Seal, Purge, Requeue
<1>4. \E s : Becomes(p, s)
  BY DEF GetDoomed, DropContent, DeleteKid, KidsDone, Uncount, Seal, Purge, Requeue, Done, Step,
         Submit
<1>5. Steady
  <2>1. CASE UNCHANGED projects BY <2>1, StillSteady
  <2>2. CASE DeleteKid(p)
    <3>1. PICK k \in sync[p].todo :
            \/ UNCHANGED projects
            \/ /\ Present(projects[k]) /\ ~DeleteRefused(k)
               /\ projects' = [projects EXCEPT ![k] = AfterDelete(k)]
      BY <2>2 DEF DeleteKid
    <3>2. k \in Projects BY <3>1 DEF CInv, AInv, KInv, IInv, TypeOK, IsSync
    <3> QED BY <3>1, <3>2, DeleteSteady, StillSteady
  <2>3. CASE Purge(p) BY <2>3, DeleteSteady, StillSteady DEF Purge
  <2> QED BY <2>1, <2>2, <2>3
          DEF GetDoomed, DropContent, KidsDone, Uncount, Seal, storeUnchanged
<1> QED BY <1>1, <1>2, <1>3, <1>4, <1>5, DoomedMoves

------------------------------------------------------------------------------
(* The workers that count.                                                 *)

(* What the key of a child that stays knows.                               *)
LEMMA KeyKnows ==
    ASSUME CInv, faults = 0, NEW p \in Projects, Parent[p] # NoProject, NeverDeleted(p)
    PROVE  Knows(p, sync[p], dirty, listed[p], cached[p])
BY DEF CInv, Cash, Follows

(* A key that waits again knows enough.                                    *)
LEMMA WaitingKnows ==
    ASSUME CInv, faults = 0, NEW p \in Projects, Parent[p] # NoProject, NeverDeleted(p),
           sync[p].pc # "idle", p \in dirty', sync'[p] = Idle,
           UNCHANGED <<projects, listed, cached>>
    PROVE  Knows(p, sync[p], dirty, listed[p], cached[p])'
<1>1. Knows(p, sync[p], dirty, listed[p], cached[p]) BY KeyKnows
<1>2. sync'[p].pc = "idle" /\ ~Counting(sync'[p]) BY DEF Idle, Counting, Writes
<1> QED BY <1>1, <1>2 DEF Knows, Counting, Writes, Present, FirstUse

(* A key whose worker has counted the child, or has nobody to count it     *)
(* for, knows enough.                                                      *)
LEMMA CountedKnows ==
    ASSUME CInv, faults = 0, NEW p \in Projects, Parent[p] # NoProject, NeverDeleted(p),
           Counting(sync[p]), dirty' = dirty, listed' = listed, sync'[p] = Idle,
           cached'[p] = sync[p].obj,
           p \in projects'[Parent[p]].kids \/ ~Present(projects'[Parent[p]])
    PROVE  Knows(p, sync[p], dirty, listed[p], cached[p])'
<1>1. Knows(p, sync[p], dirty, listed[p], cached[p]) BY KeyKnows
<1>2. sync'[p].pc = "idle" /\ ~Counting(sync'[p]) BY DEF Idle, Counting, Writes
<1>3. sync[p].pc # "idle" BY DEF Counting, Writes
<1>4. Present(cached'[p])
  <2>1. Accountable(p, sync[p]) BY AtHand DEF CInv
  <2> QED BY <2>1 DEF Accountable, Amounts, Present
<1>5. p \notin dirty => cached'[p] = listed[p] BY <1>1 DEF Knows
<1>6. Present(listed[p]) BY <1>1, <1>3 DEF Knows
<1> QED BY <1>2, <1>4, <1>5, <1>6 DEF Knows, Counting, Writes, Present, FirstUse

(* The worker compares the child with what it was counted with.            *)
LEMMA CountChildCash == ASSUME CInv, AInv', NEW p \in Projects, CountChild(p) PROVE Cash'
<1> DEFINE parent == projects[Parent[p]]
           new == IF p \notin parent.kids THEN Counted(p, parent) ELSE Recounted(p, parent)
<1>1. UNCHANGED <<projects, listed, user, faults>> BY DEF CountChild, storeUnchanged
<1>2. /\ sync[p].pc = "count" /\ Parent[p] \in Projects
      /\ Counting(sync[p]) /\ sync[p].pc # "idle"
  BY DEF CountChild, CInv, AInv, KInv, IInv, SoundSync, Counting
<1>3. Steady BY <1>1, StillSteady
<1>4. Parent[p] # NoProject BY <1>2, TreeAssumption
<1>5. NeverDeleted(p)' => NeverDeleted(p) BY <1>1 DEF NeverDeleted, FirstUse
<1>6. CASE Done(p) /\ dirty' = dirty \cup {p} /\ cached' = cached
  <2>1. (\A q \in Projects : q # p => SameKey(q)) /\ sync'[p] = Idle
    BY <1>1, <1>6, WorkerKeys DEF Done
  <2>2. MovedKey(p)
    BY <1>1, <1>2, <1>4, <1>5, <1>6, <2>1, WaitingKnows DEF MovedKey
  <2> QED BY <1>1, <1>3, <2>1, <2>2, SameUsers, KeysMove
<1>7. CASE /\ p \in parent.kids /\ ~NeedsRecount(p)
           /\ cached' = [cached EXCEPT ![p] = sync[p].obj] /\ Done(p) /\ dirty' = dirty
  <2>1. (\A q \in Projects : q # p => SameKey(q)) /\ sync'[p] = Idle
    BY <1>1, <1>7, WorkerKeys DEF Done
  <2>2. cached'[p] = sync[p].obj BY <1>7 DEF CInv, AInv, KInv, IInv, TypeOK
  <2>3. ASSUME faults = 0, NeverDeleted(p)'
        PROVE  /\ Knows(p, sync[p], dirty, listed[p], cached[p])'
               /\ cached'[p].hard = cached[p].hard
    <3>1. Knows(p, sync[p], dirty, listed[p], cached[p]) BY <1>4, <1>5, <2>3, KeyKnows
    <3>2. cached'[p].hard = cached[p].hard
      BY <1>2, <1>7, <2>2, <3>1 DEF Knows, NeedsRecount, SameClusters
    <3>3. p \in projects'[Parent[p]].kids BY <1>1, <1>7
    <3> QED BY <1>1, <1>2, <1>4, <1>5, <1>7, <2>1, <2>2, <2>3, <3>2, <3>3, CountedKnows
  <2>4. MovedKey(p) BY <2>3 DEF MovedKey
  <2> QED BY <1>1, <1>3, <2>1, <2>4, SameUsers, KeysMove
<1>8. CASE Submit(p, "count", Parent[p], new) /\ dirty' = dirty /\ cached' = cached
  <2> HIDE DEF new
  <2>1. PICK s : /\ Becomes(p, s) /\ s.pc = "commit"
                 /\ s.obj = sync[p].obj /\ s.prev = sync[p].prev
    BY <1>2, <1>8, Submitted DEF CInv, AInv
  <2>2. (\A q \in Projects : q # p => SameKey(q)) /\ sync'[p] = s
    BY <1>1, <1>8, <2>1, WorkerKeys
  <2>3. ASSUME faults = 0, NeverDeleted(p)'
        PROVE  Knows(p, sync[p], dirty, listed[p], cached[p])'
    <3>1. Knows(p, sync[p], dirty, listed[p], cached[p]) BY <1>4, <1>5, <2>3, KeyKnows
    <3>2. sync'[p].pc # "idle" /\ sync'[p].obj = sync[p].obj /\ sync'[p].prev = sync[p].prev
      BY <2>1, <2>2
    <3> QED BY <1>1, <1>2, <1>8, <3>1, <3>2 DEF Knows, Present, FirstUse
  <2>4. MovedKey(p) BY <1>8, <2>3 DEF MovedKey
  <2> QED BY <1>1, <1>3, <2>2, <2>4, SameUsers, KeysMove
<1> QED BY <1>6, <1>7, <1>8 DEF CountChild, Requeue

(* A refused write: the sync ends, and the child waits again if there is   *)
(* a parent to count it for.                                               *)
LEMMA CommitRefusedCash ==
    ASSUME CInv, AInv', NEW p \in Projects, CommitRefused(p) PROVE Cash'
<1>1. UNCHANGED <<projects, listed, user, faults>> /\ sync[p].pc = "commit"
  BY DEF CommitRefused, storeUnchanged
<1>2. Steady BY <1>1, StillSteady
<1>3. NeverDeleted(p)' => NeverDeleted(p) BY <1>1 DEF NeverDeleted, FirstUse
<1>4. CASE sync[p].write.kind # "count"
  <2>1. Deleting(sync[p])
    BY <1>1, <1>4 DEF CommitRefused, Deleting, Emptying, Writes
  <2>2. \E s : Becomes(p, s) BY <1>4 DEF CommitRefused, Proceed, Requeue, Done
  <2>3. cached' = cached /\ dirty' \in {dirty, dirty \cup {p}}
    BY <1>4 DEF CommitRefused, Requeue
  <2> QED BY <1>1, <1>2, <2>1, <2>2, <2>3, DoomedMoves
<1>5. CASE sync[p].write.kind = "count"
  <2>1. Counting(sync[p]) /\ sync[p].pc # "idle" BY <1>1, <1>5 DEF Counting, Writes
  <2>2. Parent[p] \in Projects /\ sync[p].write.target = Parent[p]
    BY <1>1, <1>5 DEF CInv, AInv, KInv, IInv, SoundSync, Sound, Facts, Fits, Shape, Writes
  <2>3. Parent[p] # NoProject BY <2>2, TreeAssumption
  <2>4. CASE Done(p) /\ dirty' = dirty \cup {p} /\ cached' = cached
    <3>1. (\A q \in Projects : q # p => SameKey(q)) /\ sync'[p] = Idle
      BY <1>1, <2>4, WorkerKeys DEF Done
    <3>2. MovedKey(p)
      BY <1>1, <1>3, <2>1, <2>3, <2>4, <3>1, WaitingKnows DEF MovedKey
    <3> QED BY <1>1, <1>2, <3>1, <3>2, SameUsers, KeysMove
  <2>5. CASE /\ ~Present(projects[sync[p].write.target]) /\ Done(p)
             /\ cached' = [cached EXCEPT ![p] = sync[p].obj] /\ dirty' = dirty
    <3>1. (\A q \in Projects : q # p => SameKey(q)) /\ sync'[p] = Idle
      BY <1>1, <2>5, WorkerKeys DEF Done
    <3>2. cached'[p] = sync[p].obj BY <2>5 DEF CInv, AInv, KInv, IInv, TypeOK
    <3>3. ~Present(projects'[Parent[p]]) BY <1>1, <2>2, <2>5
    <3>4. p \notin projects'[Parent[p]].kids
      BY <1>1, <2>2, <2>5 DEF CInv, AInv, KInv, Facts, Life
    <3>5. MovedKey(p)
      BY <1>1, <1>3, <2>1, <2>3, <2>5, <3>1, <3>2, <3>3, <3>4, CountedKnows DEF MovedKey
    <3> QED BY <1>1, <1>2, <3>1, <3>5, SameUsers, KeysMove
  <2> QED BY <1>5, <2>4, <2>5 DEF CommitRefused, Requeue
<1> QED BY <1>4, <1>5

(* A child's quota goes into the ledger and into the cache at once.        *)
LEMMA CountedCash ==
    ASSUME CInv, AInv', NEW p \in Projects, sync[p].pc = "commit", sync[p].write.kind = "count",
           Unchanged(sync[p].write), Store(sync[p].write), Done(p),
           cached' = [cached EXCEPT ![p] = sync[p].obj],
           UNCHANGED <<listed, dirty, user, faults>>
    PROVE  Cash'
<1> PICK w : w = sync[p].write OBVIOUS
<1> PICK t : t = w.target OBVIOUS
<1> PICK new : new = w.new OBVIOUS
<1>1. AInv BY DEF CInv
<1>2. t \in Projects /\ Stores(t, new) BY <1>1, WriteStores
<1>3. w.base = projects[t] BY DEF Unchanged
<1>4. Shape(p, sync[p]) /\ Amounts(p, sync[p])
  BY <1>1, AtHand DEF AInv, KInv, Facts, Fits, Accountable
<1>5. /\ Parent[p] = t /\ new.uid = projects[t].uid /\ new.kids = projects[t].kids \cup {p}
      /\ \/ /\ p \notin projects[t].kids
            /\ new.used = AddClusterHardToUsed(projects[t].used, sync[p].obj.hard)
         \/ /\ p \in projects[t].kids /\ Present(sync[p].prev)
            /\ new.used = AddClusterHardToUsed(
                              SubClusterHardFromUsed(projects[t].used, sync[p].prev.hard),
                              sync[p].obj.hard)
  BY <1>3, <1>4 DEF Shape, Amounts, Writes, SameLife
<1>6. Parent[p] # NoProject BY <1>2, <1>5, TreeAssumption
<1>7. \A q \in Projects : projects'[q] = IF q = t THEN new ELSE projects[q]
  BY <1>1, <1>2, StoresTo
<1>8. (\A q \in Projects : q # p => SameKey(q)) /\ sync'[p] = Idle
  BY WorkerKeys DEF Done
<1>9. \A q \in Projects : cached'[q] = IF q = p THEN sync[p].obj ELSE cached[q]
  BY DEF CInv, AInv, KInv, IInv, TypeOK
<1>10. Counting(sync[p]) BY DEF Counting, Writes
<1>11. Writing BY <1>2 DEF Writing
<1>12. Rooted'
  <2>1. \E x \in Projects : \E v : Stores(x, v) /\ (v.uid # 0 => projects[x].uid # 0 \/ Under(x))
    BY <1>2, <1>5
  <2> QED BY <2>1, SameUsers, RootedKept DEF CInv, Cash
<1>13. ASSUME faults = 0, NEW q \in Projects, Parent[q] # NoProject, NeverDeleted(q)'
       PROVE  Knows(q, sync[q], dirty, listed[q], cached[q])'
  <2>1. NeverDeleted(q) BY <1>1, <1>11, <1>13, NeverDeletedBefore
  <2>2. CASE q = p
    <3>1. p \in projects'[Parent[p]].kids BY <1>2, <1>5, <1>7
    <3>2. cached'[p] = sync[p].obj BY <1>9
    <3> QED BY <1>6, <1>8, <1>10, <1>13, <2>1, <2>2, <3>1, <3>2, CountedKnows
  <2>3. CASE q # p
    <3>1. Leaving(t, new, q) BY <1>5, <2>3 DEF Leaving
    <3> QED BY <1>2, <1>8, <1>13, <2>3, <3>1, SameKeyKnows
  <2> QED BY <2>2, <2>3
<1>14. ASSUME faults = 0, NEW q \in Projects, ChildrenStay(q)' PROVE Adds(q, cached)'
  <2>1. ChildrenStay(q)
    BY <1>1, <1>11, <1>14, NeverDeletedBefore DEF ChildrenStay
  <2>2. \A c \in Clusters : At(projects[q].used, c) = Total(projects[q].kids, cached, c)
    BY <1>14, <2>1 DEF CInv, Cash, LedgerMatchesCache, Adds
  <2>3. \A x \in projects[q].kids : x \in Projects /\ Parent[x] = q
    BY <1>1 DEF AInv, KInv, IInv, TypeOK, IsProject, Facts, Held
  <2>4. CASE q # t
    <3>1. projects'[q] = projects[q] BY <1>7, <2>4
    <3>2. \A x \in projects[q].kids : cached'[x].hard = cached[x].hard
      BY <1>5, <1>9, <2>3, <2>4
    <3>3. PICK S : S = projects[q].kids OBVIOUS
    <3>4. PICK quota : quota = cached OBVIOUS
    <3>5. PICK given : given = cached' OBVIOUS
    <3>6. \A x \in S : given[x].hard = quota[x].hard BY <3>2, <3>3, <3>4, <3>5
    <3>7. \A c \in Clusters : Total(S, given, c) = Total(S, quota, c) BY <3>6, SameTotal
    <3> QED BY <2>2, <3>1, <3>3, <3>4, <3>5, <3>7 DEF Adds
  <2>5. CASE q = t
    <3>1. NeverDeleted(p) BY <1>5, <2>1, <2>5 DEF ChildrenStay
    <3>2. sync[p].prev = cached[p]
      BY <1>6, <1>10, <1>14, <3>1, KeyKnows DEF Knows
    <3>3. projects'[t] = new BY <1>2, <1>7
    <3>4. PICK S : S = projects[t].kids OBVIOUS
    <3>5. PICK quota : quota = cached OBVIOUS
    <3>6. PICK given : given = cached' OBVIOUS
    <3>7. PICK u : u = projects[t].used OBVIOUS
    <3>8. IsFiniteSet(S) /\ IsLedger(u) /\ S \subseteq Projects
      BY <1>1, <1>2, <3>4, <3>7, Quotas
    <3>9. \A x \in Projects : /\ IsLedger(quota[x].hard) /\ Limits(quota[x].hard)
                              /\ IsLedger(given[x].hard) /\ Limits(given[x].hard)
      <4>1. \A x \in Projects : /\ IsProject(cached[x]) /\ Sane(cached[x])
                                /\ IsProject(cached'[x]) /\ Sane(cached[x])'
        BY <1>1 DEF AInv, KInv, IInv, TypeOK, Accounts, Good
      <4> QED BY <3>5, <3>6, <4>1 DEF IsProject, Sane, Limits
    <3>10. \A x \in S \ {p} : given[x].hard = quota[x].hard BY <1>9, <3>5, <3>6, <3>8
    <3>11. given[p].hard = sync[p].obj.hard BY <1>9, <3>6
    <3>12. quota[p].hard = sync[p].prev.hard BY <3>2, <3>5
    <3>13. ASSUME NEW c \in Clusters PROVE At(new.used, c) = Total(new.kids, given, c)
      <4>1. \A x \in Projects : At(quota[x].hard, c) \in Nat /\ At(given[x].hard, c) \in Nat
        BY <3>9, AtNat
      <4>2. At(u, c) = Total(S, quota, c) BY <2>2, <2>5, <3>4, <3>5, <3>7
      <4>3. CASE p \notin S
        <5>1. \A x \in S \cup {p} : At(given[x].hard, c) \in Nat BY <3>8, <4>1
        <5>2. \A x \in S : given[x].hard = quota[x].hard BY <3>10, <4>3
        <5>3. IsLedger(given[p].hard) BY <3>9
        <5>4. At(AddClusterHardToUsed(u, given[p].hard), c) = Total(S \cup {p}, given, c)
          BY <3>8, <4>2, <4>3, <5>1, <5>2, <5>3, SumWithOneMore
        <5> QED BY <1>5, <3>4, <3>7, <3>11, <4>3, <5>4
      <4>4. CASE p \in S
        <5>1. \A x \in S : At(quota[x].hard, c) \in Nat /\ At(given[x].hard, c) \in Nat
          BY <3>8, <4>1
        <5>2. IsLedger(quota[p].hard) /\ IsLedger(given[p].hard) BY <3>9
        <5>3. At(AddClusterHardToUsed(SubClusterHardFromUsed(u, quota[p].hard), given[p].hard), c)
                = Total(S, given, c)
          BY <3>8, <3>10, <4>2, <4>4, <5>1, <5>2, SumWithChanged
        <5>4. S \cup {p} = S BY <4>4
        <5> QED BY <1>5, <3>4, <3>7, <3>11, <3>12, <4>4, <5>3, <5>4
      <4> QED BY <4>3, <4>4
    <3> QED BY <2>5, <3>3, <3>6, <3>13 DEF Adds
  <2> QED BY <2>4, <2>5
<1> QED BY <1>12, <1>13, <1>14 DEF Cash, Follows, LedgerMatchesCache

(* A worker's write is stored.                                             *)
LEMMA CommitCash == ASSUME CInv, AInv', NEW p \in Projects, Commit(p) PROVE Cash'
<1>1. /\ sync[p].pc = "commit" /\ AfterCommit(p) /\ UNCHANGED <<listed, dirty, user, faults>>
      /\ Unchanged(sync[p].write) /\ Store(sync[p].write)
  BY DEF Commit
<1>2. sync[p].write.kind \in {"count", "uncount", "finalize"}
  BY <1>1 DEF CInv, AInv, KInv, IInv, SoundSync
<1>3. CASE sync[p].write.kind = "count"
  BY <1>1, <1>3, CountedCash DEF AfterCommit
<1>4. CASE sync[p].write.kind # "count"
  <2>1. Steady BY <1>1, <1>4, DoomedSteady
  <2>2. (\E s : Becomes(p, s)) /\ cached' = cached
    BY <1>1, <1>2, <1>4 DEF AfterCommit, Proceed
  <2>3. Deleting(sync[p]) BY <1>1, <1>2, <1>4 DEF Deleting, Emptying, Writes
  <2> QED BY <1>1, <2>1, <2>2, <2>3, DoomedMoves
<1> QED BY <1>3, <1>4

------------------------------------------------------------------------------
(* Failures, users and the rest.                                           *)

(* After a failure, only who was created under whom is still said.         *)
LEMMA FaultCash ==
    ASSUME CInv, AInv', Failure PROVE Cash'
<1>1. faults' # 0
  <2>1. faults \in Nat BY DEF CInv, AInv, KInv, IInv, TypeOK
  <2>2. faults' = faults + 1 BY DEF Failure, Restart, CommitLost, CallFails, Fault
  <2> QED BY <2>1, <2>2
<1>2. UNCHANGED user BY DEF Failure, Restart, CommitLost, CallFails
<1>3. \/ UNCHANGED projects
      \/ \E t \in Projects : \E new :
            Stores(t, new) /\ (new.uid # 0 => projects[t].uid # 0 \/ Under(t))
  <2>1. CASE UNCHANGED projects BY <2>1
  <2>2. ASSUME NEW p \in Projects, CommitLost(p)
        PROVE  \E t \in Projects : \E new :
                  Stores(t, new) /\ (new.uid # 0 => projects[t].uid # 0 \/ Under(t))
    <3>1. AInv BY DEF CInv
    <3>2. /\ sync[p].pc = "commit" /\ Unchanged(sync[p].write) /\ Store(sync[p].write)
      BY <2>2 DEF CommitLost
    <3>3. /\ sync[p].write.target \in Projects
          /\ Stores(sync[p].write.target, sync[p].write.new)
      BY <3>1, <3>2, WriteStores
    <3>4. sync[p].write.new.uid = projects[sync[p].write.target].uid
      BY <3>1, <3>2
         DEF AInv, KInv, IInv, SoundSync, Facts, Fits, Shape, Writes, SameLife, Unchanged
    <3> QED BY <3>3, <3>4
  <2> QED BY <2>1, <2>2 DEF Failure, Restart, CallFails
<1>4. Rooted' BY <1>2, <1>3, SameUsers, RootedKept DEF CInv, Cash
<1> QED BY <1>1, <1>4 DEF Cash, Follows, LedgerMatchesCache

(* What a user stores leaves the ledger alone, or is a new project under a *)
(* parent that existed.                                                    *)
LEMMA UserSteady ==
    ASSUME CInv, NEW u \in Users, user[u].kind # "none", Unchanged(user[u]), Store(user[u])
    PROVE  Steady
<1> PICK w : w = user[u] OBVIOUS
<1>1. AInv BY DEF CInv
<1>2. w.target \in Projects /\ Stores(w.target, w.new) BY <1>1, UserStores
<1>3. w.base = projects[w.target] /\ Meant(w) /\ Asked(w)
  BY <1>1 DEF Unchanged, AInv, KInv, Facts, Accounts
<1>4. CASE w.kind = "create"
  <2>1. w.new.kids = {} /\ w.new.used = Nothing BY <1>3, <1>4 DEF Meant, Asked
  <2>2. Under(w.target) BY <1>4 DEF CInv, Cash, Rooted
  <2>3. projects[w.target].kids = {}
    BY <1>1, <1>2, <1>3, <1>4 DEF Meant, AInv, KInv, Facts, Life
  <2>4. Untouched(w.target, w.new) BY <1>2, <2>1, <2>2, <2>3 DEF Untouched, Leaving
  <2> QED BY <1>2, <2>4 DEF Steady
<1>5. CASE w.kind = "update"
  <2>1. /\ w.new.kids = projects[w.target].kids /\ w.new.used = projects[w.target].used
        /\ w.new.uid = projects[w.target].uid
    BY <1>3, <1>5 DEF Meant, Asked, SameLife
  <2>2. Untouched(w.target, w.new) BY <1>2, <2>1 DEF Untouched, Leaving
  <2> QED BY <1>2, <2>2 DEF Steady
<1> QED BY <1>3, <1>4, <1>5 DEF Meant

(* A user's write is stored or refused.                                    *)
LEMMA UserCommitCash == ASSUME CInv, AInv', NEW u \in Users, UserCommit(u) PROVE Cash'
<1>1. UNCHANGED <<listed, dirty, cached, sync, faults>> BY DEF UserCommit, controllerVars
<1>2. Steady BY UserSteady, StillSteady DEF UserCommit
<1>3. \A v \in Users : user'[v] = user[v] \/ user'[v] = NoWrite
  BY DEF CInv, AInv, KInv, IInv, TypeOK, UserCommit
<1>4. \A v \in Users : user'[v].kind = "create" =>
          user'[v].target \in Projects /\ Under(user'[v].target)
  BY <1>3 DEF NoWrite, CInv, Cash, Rooted, AInv, KInv, IInv, SoundUser, Sound
<1>5. \A q \in Projects : SameKey(q) BY <1>1 DEF SameKey
<1> QED BY <1>1, <1>2, <1>4, <1>5, KeysMove

(* A user asks for a project under a parent that exists, or for an edit.   *)
LEMMA UserAsksCash ==
    ASSUME CInv, AInv', NEW u \in Users, NEW p \in Projects,
           UserCreate(u, p) \/ UserUpdate(u, p)
    PROVE  Cash'
<1>1. UNCHANGED <<projects, listed, dirty, cached, sync, faults>>
  BY DEF UserCreate, UserUpdate, controllerVars
<1>2. Steady BY <1>1, StillSteady
<1>3. \A q \in Projects : SameKey(q) BY <1>1 DEF SameKey
<1>4. \A v \in Users : user[v].kind = "create" =>
          user[v].target \in Projects /\ Under(user[v].target)
  BY DEF CInv, Cash, Rooted, AInv, KInv, IInv, SoundUser, Sound
<1>5. \E kind \in {"create", "update"} : \E new :
          Request(u, kind, p, new) /\ (kind = "create" => Under(p))
  <2>1. CASE UserUpdate(u, p)
    <3>1. \E new : Request(u, "update", p, new) BY <2>1 DEF UserUpdate
    <3> QED BY <3>1
  <2>2. CASE UserCreate(u, p)
    <3>1. PICK spec \in Specs : /\ Admits(p, NewProject(p, spec), projects[p])
                                /\ Request(u, "create", p, NewProject(p, spec))
      BY <2>2 DEF UserCreate
    <3>2. ~Present(projects[p]) BY <2>2 DEF UserCreate
    <3>3. Parent[p] # NoProject => Present(projects[Parent[p]])
      BY <3>1, <3>2 DEF Admits, ValidateProject, ValidateAgainstParent
    <3>4. Under(p)
      BY <3>3, TreeAssumption DEF Under, CInv, AInv, KInv, Facts, Life
    <3> QED BY <3>1, <3>4
  <2> QED BY <2>1, <2>2
<1>6. \A v \in Users : user'[v].kind = "create" =>
          user'[v].target \in Projects /\ Under(user'[v].target)
  BY <1>4, <1>5 DEF Request, CInv, AInv, KInv, IInv, TypeOK
<1> QED BY <1>1, <1>2, <1>3, <1>6, KeysMove

(* A user deletes a project.                                               *)
LEMMA UserDeleteCash == ASSUME CInv, AInv', NEW p \in Projects, UserDelete(p) PROVE Cash'
<1>1. UNCHANGED <<listed, dirty, cached, sync, user, faults>>
  BY DEF UserDelete, controllerVars
<1>2. Steady BY DeleteSteady DEF UserDelete, Present, DeleteRefused
<1>3. \A q \in Projects : SameKey(q) BY <1>1 DEF SameKey
<1> QED BY <1>1, <1>2, <1>3, SameUsers, KeysMove

(* Every step keeps cache and ledgers together.                            *)
LEMMA NextCash == ASSUME CInv, AInv', [Next]_vars PROVE Cash'
<1>1. CASE \E p \in Projects : Deliver(p) BY <1>1, DeliverCash
<1>2. ASSUME NEW p \in Projects, Work(p) PROVE Cash'
  BY <1>2, SyncDeletedCash, SyncActiveCash, SyncTerminatingCash, CountChildCash, DoomedCash,
     CommitCash, CommitRefusedCash DEF Work
<1>3. CASE Environment
  BY <1>3, UserDeleteCash, UserAsksCash DEF Environment
<1>4. CASE UNCHANGED vars
  <2>1. UNCHANGED <<projects, listed, dirty, cached, sync, user, faults>>
    BY <1>4 DEF vars, controllerVars
  <2>2. \A q \in Projects : SameKey(q) BY <2>1 DEF SameKey
  <2>3. Steady BY <2>1, StillSteady
  <2> QED BY <2>1, <2>2, <2>3, SameUsers, KeysMove
<1> QED BY <1>1, <1>2, <1>3, <1>4, FaultCash, UserCommitCash DEF Next

(* Nothing is cached and no ledger has an entry initially.                 *)
LEMMA InitCash == Init => Cash
<1> SUFFICES ASSUME Init PROVE Cash OBVIOUS
<1>1. Rooted BY DEF Init, Rooted, NoObject, NoWrite
<1>2. Follows
  BY TreeAssumption
     DEF Init, Follows, Knows, Idle, Counting, Writes, NoObject, Present
<1>3. LedgerMatchesCache
  BY TotalOfNone DEF Init, LedgerMatchesCache, Adds, NoObject, Nothing, At
<1> QED BY <1>1, <1>2, <1>3 DEF Cash

(* Every step of the controller, of users and of failures keeps what the   *)
(* cache has to do with the ledgers.                                       *)
THEOREM CacheInvariant == Spec => []CInv
<1>1. Init => CInv BY InitBooks, InitCash DEF CInv, LInv
<1>2. CInv /\ [Next]_vars => CInv'
  <2> SUFFICES ASSUME CInv, [Next]_vars PROVE CInv' OBVIOUS
  <2>1. AInv' BY NextLife, NextAccounts DEF CInv, AInv
  <2> QED BY <2>1, NextCash DEF CInv
<1> QED BY <1>1, <1>2, PTL DEF Spec

(* While no child has been deleted and no call has failed, the used field  *)
(* is the sum of the quotas the controller has cached for the counted      *)
(* children: an edit is accounted for by exactly the difference to what    *)
(* was counted, whatever edits and counts happen at the same time.         *)
THEOREM LedgersMatchTheCache == Spec => []LedgerMatchesCache
<1>1. CInv => LedgerMatchesCache BY DEF CInv, Cash
<1> QED BY <1>1, CacheInvariant, PTL

(* When the controller has nothing left to do, a project lists all of its  *)
(* children and the used field is the sum of their present quotas, if no   *)
(* call failed and no child was deleted.                                   *)
THEOREM LedgersSettle == Spec => []SettledLedger
<1>1. CInv => SettledLedger
  <2> SUFFICES ASSUME CInv, AtRest, faults = 0, NEW p \in Projects, Present(projects[p]),
                      FirstUse(p), ChildrenStay(p)
               PROVE  projects[p].kids = ChildrenOf(p) /\ Adds(p, projects)
    BY DEF SettledLedger
  <2>1. \A k \in projects[p].kids : k \in Projects /\ Parent[k] = p /\ Present(projects[k])
    BY DEF CInv, AInv, KInv, IInv, TypeOK, IsProject, Facts, Held, Life, ChildrenStay, NeverDeleted
  <2>2. ASSUME NEW k \in Projects, Parent[k] = p
        PROVE  Knows(k, sync[k], dirty, listed[k], cached[k])
    BY <2>2, TreeAssumption, KeyKnows DEF ChildrenStay
  <2>3. \A k \in Projects : sync[k].pc = "idle" /\ k \notin dirty /\ listed[k] = projects[k]
    BY DEF AtRest
  <2>4. ASSUME NEW k \in ChildrenOf(p) PROVE k \in projects[p].kids
    <3>1. k \in Projects /\ Parent[k] = p /\ Present(projects[k]) BY DEF ChildrenOf
    <3>2. projects[k].uid # 0 BY <3>1 DEF CInv, AInv, KInv, Facts, Life
    <3> QED BY <2>2, <2>3, <3>1, <3>2 DEF Knows
  <2>5. projects[p].kids = ChildrenOf(p) BY <2>1, <2>4 DEF ChildrenOf
  <2>6. \A k \in projects[p].kids : projects[k].hard = cached[k].hard
    BY <2>1, <2>2, <2>3 DEF Knows
  <2>7. Adds(p, cached) BY DEF CInv, Cash, LedgerMatchesCache
  <2>8. \A c \in Clusters :
            Total(projects[p].kids, projects, c) = Total(projects[p].kids, cached, c)
    BY <2>6, SameTotal
  <2> QED BY <2>5, <2>7, <2>8 DEF Adds
<1> QED BY <1>1, CacheInvariant, PTL
==============================================================================
