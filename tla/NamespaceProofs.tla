--------------------------- MODULE NamespaceProofs ---------------------------
(***************************************************************************)
(* Type correctness of the namespace controller, and what it guarantees of *)
(* the namespaces it has provisioned: each is in the ledger of its project *)
(* and, unless others remove namespaces from the clusters, no two projects *)
(* have the same one, for every number of projects, namespaces, users,     *)
(* health loops, edits and faults.                                         *)
(*                                                                         *)
(* Neither is inductive.  A namespace turns available three ways: by the   *)
(* worker that creates it, by a health loop, by a user's update of an      *)
(* available one.  For the first, the invariant says what the worker knows *)
(* from its commit of the ledger and from its labelling of the cluster     *)
(* on; for the two others, that what they read was settled already and,    *)
(* by the comparison of resourceVersions, still is.  The worker that takes *)
(* a namespace down knows that it is not settled, even when the object it  *)
(* read was purged and its name given out again in the meantime.           *)
(***************************************************************************)
EXTENDS NamespaceLedger, FiniteSetTheorems, TLAPS

(* The worker of n takes it down: it is on its way from the count to the   *)
(* end of deleteAllContent.                                                *)
Writes(s, kind) == s.pc = "commit" /\ s.write.kind = kind

TakingDown(s) == s.pc \in {"uncount", "unprovision"} \/ Writes(s, "uncount")

(* The worker has counted n and is creating it on the cluster.             *)
Creating(s) == s.pc \in {"provision", "quota", "report", "store"}

(* The worker has labelled the namespace of the cluster and means to       *)
(* report it available.                                                    *)
Succeeding(s) == s.pc = "quota" \/ (s.pc \in {"report", "store"} /\ s.next = "Available")

Settled(n) == namespaces[n].phase \in {"Available", "Failed"}

(* The project is the first one of its name and stays.                     *)
Standing(project) == project.phase = "Active" /\ project.uid = 1

InLedger(n) ==
    LET project == projects[ProjectOf[n]]
    IN  project.uid # 0 /\ (Standing(project) /\ Unmistaken(ProjectOf[n]) => n \in project.nss)

Labelled(n) ==
    /\ onCluster[TargetOf[n]].exists
    /\ onCluster[TargetOf[n]].owner = ProjectOf[n]

(* An admitted write of a ledger: of the project it was computed from      *)
(* nothing else changes, and what is in use stays within the quota.        *)
Posting(base, new) ==
    /\ Present(base) /\ WithinHard(new)
    /\ new = [base EXCEPT !.nss = new.nss, !.used = new.used]

(* What the write a worker waits for changes.                              *)
Shape(n, s) ==
    LET w == s.write
    IN  /\ s.pc # "commit" => w.kind = "none"
        /\ s.pc = "commit" => w.kind \in {"count", "adjust", "uncount"} /\ Posting(w.base, w.new)
        /\ Writes(s, "count") => w.new.nss = w.base.nss \cup {n}
        /\ Writes(s, "adjust") => w.new.nss = w.base.nss /\ ~Unmistaken(ProjectOf[n])
        /\ Writes(s, "uncount") => w.new.nss = w.base.nss \ {n}

(* What a worker in state s may rely on.                                   *)
Fits(n, s) ==
    /\ Shape(n, s)
    /\ s.pc = "commit" => projects[ProjectOf[n]].uid # 0
    /\ TakingDown(s) => ~Settled(n)
    /\ Creating(s) => InLedger(n)
    /\ "removed" \notin FaultKinds /\ Succeeding(s) => Labelled(n)

(* A settled namespace is in the ledger, an available one on the cluster.  *)
Kept(n) ==
    /\ Settled(n) => InLedger(n)
    /\ "removed" \notin FaultKinds /\ namespaces[n].phase = "Available" => Labelled(n)

(* A user's write leaves the phase alone or starts a new life.             *)
Meant(r) == r.new.phase = r.base.phase \/ r.new.phase = "Pending"

(* The states of namespaceCache, by namespace.                             *)
Caches(f) == DOMAIN f = Namespaces /\ \A n \in Namespaces : IsState(f[n])

NInv ==
    /\ TypeOK
    /\ \A p \in Projects : Present(projects[p]) => projects[p].uid # 0
    /\ \A n \in Namespaces : Kept(n) /\ Fits(n, nsSync[n])
    /\ \A r \in requests : Meant(r)

------------------------------------------------------------------------------
(* Ledgers and objects.                                                    *)

(* Adding a quota to a ledger gives a ledger.                              *)
LEMMA AddIsLedger ==
    ASSUME NEW f, NEW g, IsLedger(f), IsLedger(g)
    PROVE  IsLedger(AddClusterHardToUsed(f, g))
BY DEF IsLedger, AddClusterHardToUsed, At

(* Subtracting a quota from a ledger gives a ledger.                       *)
LEMMA SubIsLedger ==
    ASSUME NEW f, NEW g, IsLedger(f), IsLedger(g)
    PROVE  IsLedger(SubClusterHardFromUsed(f, g))
BY DEF IsLedger, SubClusterHardFromUsed, At

(* The objects of free names are well-formed.                              *)
LEMMA NoObjects ==
    ASSUME NEW i \in Nat
    PROVE  IsProject(NoObject(i)) /\ IsNamespace(NoNamespace(i))
<1>1. IsLedger(Nothing) BY DEF IsLedger, Nothing
<1> QED BY <1>1 DEF IsProject, IsNamespace, NoObject, NoNamespace

(* "No write" is a write.                                                  *)
LEMMA NoWriteType == IsWrite(NoWrite) /\ NoWrite.kind = "none"
BY NoObjects DEF IsWrite, NoWrite

(* So is the state of a key that has none, and of one that was synced.     *)
LEMMA StateTypes ==
    ASSUME NEW obj, IsNamespace(obj)
    PROVE  IsState(NoState) /\ IsState(State(obj))
<1>1. IsLedger(Nothing) BY DEF IsLedger, Nothing
<1> QED BY <1>1 DEF IsState, NoState, State, IsNamespace

LEMMA NoStateType == IsState(NoState)
BY NoObjects, StateTypes

(* A cache with another state for one name.                                *)
LEMMA CacheSet ==
    ASSUME NEW f, Caches(f), NEW n, NEW c, IsState(c)
    PROVE  Caches([f EXCEPT ![n] = c])
BY DEF Caches

(* A worker that is idle is well-formed and relies on nothing.             *)
LEMMA IdleFits == ASSUME NEW n PROVE IsSync(Idle) /\ Fits(n, Idle)
<1>1. IsSync(Idle) BY NoObjects, NoStateType, NoWriteType DEF IsSync, Idle
<1>2. Idle.pc = "idle" /\ Idle.write.kind = "none" BY DEF Idle, NoWrite
<1> HIDE DEF Idle
<1>3. Fits(n, Idle) BY <1>2 DEF Fits, Shape, Writes, TakingDown, Creating, Succeeding
<1> QED BY <1>1, <1>3

(* So is a loop that is off or has nothing in hand.                        *)
LEMMA OffType == IsLoop(Off) /\ IsLoop([Off EXCEPT !.pc = "wait"])
<1>1. IsNamespace(Off.obj) /\ Off \in [pc : {"off"}, obj : {NoNamespace(0)}]
  BY NoObjects DEF Off
<1> QED BY <1>1 DEF IsLoop

(* What holds of every value a variable has for one name.                  *)
LEMMA Holds ==
    ASSUME NInv, NEW n \in Namespaces
    PROVE  /\ IsNamespace(namespaces[n]) /\ IsNamespace(nsListed[n])
           /\ IsSync(nsSync[n]) /\ Fits(n, nsSync[n]) /\ Kept(n)
           /\ ProjectOf[n] \in Projects /\ TargetOf[n] \in Targets
           /\ IsProject(projects[ProjectOf[n]]) /\ IsOnCluster(onCluster[TargetOf[n]])
BY TreeAssumption, NamespaceAssumption DEF NInv, TypeOK

------------------------------------------------------------------------------
(* How the facts survive a change.                                         *)

(* A step that only moves the worker of one key, and perhaps its target on *)
(* the cluster without unlabelling what others rely on.                    *)
LEMMA MovesOnCluster ==
    ASSUME NInv, NEW n \in Namespaces, NEW s, IsSync(s), Fits(n, s)', Becomes(n, s),
           UNCHANGED <<projects, namespaces, nsListed, loops, requests, edits>>,
           nsSeen' \in [Namespaces -> Phases], nsDirty' \subseteq Namespaces,
           Caches(nsCached'), health' \subseteq Namespaces, faults' \in Nat,
           DOMAIN onCluster' = Targets, \A t \in Targets : IsOnCluster(onCluster'[t]),
           \A m \in Namespaces :
               Labelled(m) => Labelled(m)' \/ (m = n /\ TakingDown(nsSync[n]))
    PROVE  NInv'
<1>1. \A m \in Namespaces : nsSync'[m] = IF m = n THEN s ELSE nsSync[m]
  BY DEF NInv, TypeOK, Becomes
<1>2. TypeOK'
  <2>1. DOMAIN nsSync' = Namespaces BY DEF NInv, TypeOK, Becomes
  <2>2. \A m \in Namespaces : IsSync(nsSync'[m]) BY <1>1 DEF NInv, TypeOK
  <2>3. \A m \in Namespaces : IsSync(nsSync[m])' BY <2>2 DEF IsSync, IsWrite
  <2> QED BY <2>1, <2>2, <2>3 DEF NInv, TypeOK, Caches, IsState
<1>3. ASSUME NEW m \in Namespaces PROVE Kept(m)'
  <2>1. Kept(m) /\ Fits(m, nsSync[m]) BY DEF NInv
  <2> QED BY <2>1 DEF Kept, Fits, Settled, InLedger
<1>4. ASSUME NEW m \in Namespaces PROVE Fits(m, nsSync[m])'
  <2>1. CASE m = n BY <1>1, <2>1
  <2>2. CASE m # n
    <3>1. PICK r : r = nsSync[m] OBVIOUS
    <3>2. Fits(m, r) BY <3>1 DEF NInv
    <3>3. Fits(m, r)' BY <2>2, <3>2 DEF Fits, Shape, Settled, InLedger
    <3> QED BY <1>1, <2>2, <3>1, <3>3
  <2> QED BY <2>1, <2>2
<1>5. \A r \in requests' : Meant(r) BY DEF NInv
<1>6. \A p \in Projects : Present(projects'[p]) => projects'[p].uid # 0 BY DEF NInv
<1> QED BY <1>2, <1>3, <1>4, <1>5, <1>6 DEF NInv, Meant

(* A step that only moves the worker of one key.                           *)
LEMMA Moves ==
    ASSUME NInv, NEW n \in Namespaces, NEW s, IsSync(s), Fits(n, s), Becomes(n, s),
           UNCHANGED <<projects, namespaces, onCluster, nsListed, loops, requests, edits>>,
           nsSeen' \in [Namespaces -> Phases], nsDirty' \subseteq Namespaces,
           Caches(nsCached'), health' \subseteq Namespaces, faults' \in Nat
    PROVE  NInv'
<1>1. Fits(n, s)' BY DEF Fits, Shape, Settled, InLedger, Labelled
<1>2. DOMAIN onCluster' = Targets /\ \A t \in Targets : IsOnCluster(onCluster'[t])
  BY DEF NInv, TypeOK
<1>3. \A m \in Namespaces : Labelled(m) => Labelled(m)' BY DEF Labelled
<1> QED BY <1>1, <1>2, <1>3, MovesOnCluster

(* A step that ends a sync.                                                *)
LEMMA Ends ==
    ASSUME NInv, NEW n \in Namespaces, Done(n),
           UNCHANGED <<projects, namespaces, onCluster, nsListed, loops, requests, edits>>,
           nsSeen' \in [Namespaces -> Phases], nsDirty' \subseteq Namespaces,
           Caches(nsCached'), health' \subseteq Namespaces, faults' \in Nat
    PROVE  NInv'
BY IdleFits, Moves DEF Done

(* The parts of the type invariant that most steps leave alone.            *)
LEMMA Types ==
    ASSUME NInv
    PROVE  /\ nsSeen \in [Namespaces -> Phases] /\ nsDirty \subseteq Namespaces
           /\ Caches(nsCached) /\ health \subseteq Namespaces
           /\ faults \in Nat /\ edits \in Nat
BY DEF NInv, TypeOK, Caches

------------------------------------------------------------------------------
(* The informer and the starts of a sync.                                  *)

(* The informer copies what is stored.                                     *)
LEMMA DeliverKeeps == ASSUME NInv, NEW n \in Namespaces, Deliver(n) PROVE NInv'
<1>1. UNCHANGED <<projects, namespaces, onCluster, nsSync, nsCached, health, loops, requests,
                  edits, faults>>
  BY DEF Deliver, storeUnchanged, healthVars, userVars
<1>2. TypeOK'
  <2>1. DOMAIN nsListed' = Namespaces /\ \A m \in Namespaces : IsNamespace(nsListed'[m])
    BY Holds DEF NInv, TypeOK, Deliver
  <2>2. nsSeen' \in [Namespaces -> Phases]
    BY Holds, Types DEF Deliver, IsNamespace, Phases
  <2>3. nsDirty' \subseteq Namespaces BY Types DEF Deliver
  <2> QED BY <1>1, <2>1, <2>2, <2>3 DEF NInv, TypeOK
<1> QED BY <1>1, <1>2
        DEF NInv, Kept, Fits, Shape, Settled, InLedger, Labelled, Meant

(* A key whose namespace is gone.                                          *)
LEMMA SyncGoneKeeps == ASSUME NInv, NEW n \in Namespaces, SyncGone(n) PROVE NInv'
<1>1. /\ UNCHANGED <<projects, namespaces, onCluster, nsListed, nsSeen, nsSync, loops, requests,
                     edits, faults>>
      /\ nsDirty' = nsDirty \ {n} /\ health' = health \ {n}
      /\ nsCached' = [nsCached EXCEPT ![n] = NoState]
  BY DEF SyncGone, Take, Forgotten, listerUnchanged, storeUnchanged, userVars
<1>2. Caches(nsCached') BY <1>1, Types, NoStateType, CacheSet
<1>3. TypeOK' BY <1>1, <1>2, Types DEF NInv, TypeOK, Caches, IsState
<1> QED BY <1>1, <1>3 DEF NInv, Kept, Fits, Shape, Settled, InLedger, Labelled, Meant

(* A worker that starts a sync relies on nothing yet.                      *)
LEMMA Starts ==
    ASSUME NInv, NEW n \in Namespaces, nsSync[n].pc = "idle", NEW s, IsSync(s),
           s.pc \in {"get", "count"}, s.write = nsSync[n].write
    PROVE  Fits(n, s)
<1>1. nsSync[n].write.kind = "none" BY Holds DEF Fits, Shape
<1> QED BY <1>1 DEF Fits, Shape, Writes, TakingDown, Creating, Succeeding

(* The deleter is called.                                                  *)
LEMMA SyncTerminatingKeeps ==
    ASSUME NInv, NEW n \in Namespaces, SyncTerminating(n) PROVE NInv'
<1> DEFINE s == [nsSync[n] EXCEPT !.pc = "get"]
<1>1. /\ UNCHANGED <<projects, namespaces, onCluster, nsListed, nsSeen, loops, requests, edits,
                     faults>>
      /\ nsDirty' = nsDirty \ {n} /\ health' = health \ {n}
      /\ nsCached' = [nsCached EXCEPT ![n] = NoState] /\ Becomes(n, s) /\ nsSync[n].pc = "idle"
  BY DEF SyncTerminating, Take, Forgotten, listerUnchanged, storeUnchanged, userVars
<1>2. Caches(nsCached') BY <1>1, Types, NoStateType, CacheSet
<1>3. IsSync(s) /\ s.pc = "get" /\ s.write = nsSync[n].write BY Holds DEF IsSync
<1> HIDE DEF s
<1>4. Fits(n, s) BY <1>1, <1>3, Starts
<1> QED BY <1>1, <1>2, <1>3, <1>4, Types, Moves

(* A pending namespace is taken up.                                        *)
LEMMA SyncPendingKeeps == ASSUME NInv, NEW n \in Namespaces, SyncPending(n) PROVE NInv'
<1> DEFINE s == [nsSync[n] EXCEPT !.pc = "count", !.obj = nsListed[n], !.state = nsCached[n]]
<1>1. /\ UNCHANGED <<projects, namespaces, onCluster, nsListed, nsSeen, loops, requests, edits,
                     faults>>
      /\ nsDirty' = nsDirty \ {n} /\ Becomes(n, s) /\ nsSync[n].pc = "idle"
  BY DEF SyncPending, Take, listerUnchanged, storeUnchanged, userVars
<1>2. Caches(nsCached') /\ health' \subseteq Namespaces
  BY Types, NoStateType, CacheSet DEF SyncPending, Forgotten
<1>3. IsSync(s) /\ s.pc = "count" /\ s.write = nsSync[n].write
  BY Holds, Types DEF IsSync, Caches
<1> HIDE DEF s
<1>4. Fits(n, s) BY <1>1, <1>3, Starts
<1> QED BY <1>1, <1>2, <1>3, <1>4, Types, Moves

(* A loop of n is started, moved on or ended.                              *)
LEMMA LoopType ==
    ASSUME NInv, NEW n \in Namespaces, NEW i \in Slots, NEW l, IsLoop(l),
           loops' = [loops EXCEPT ![n][i] = l]
    PROVE  /\ DOMAIN loops' = Namespaces
           /\ \A m \in Namespaces :
                  DOMAIN loops'[m] = Slots /\ \A j \in Slots : IsLoop(loops'[m][j])
<1>1. DOMAIN loops = Namespaces
      /\ \A m \in Namespaces : DOMAIN loops[m] = Slots /\ \A j \in Slots : IsLoop(loops[m][j])
  BY DEF NInv, TypeOK
<1>2. loops' = [loops EXCEPT ![n] = [loops[n] EXCEPT ![i] = l]] BY <1>1
<1> QED BY <1>1, <1>2

(* The health of a settled namespace is watched from now on.               *)
LEMMA SyncSettledKeeps == ASSUME NInv, NEW n \in Namespaces, SyncSettled(n) PROVE NInv'
<1>1. /\ UNCHANGED <<projects, namespaces, onCluster, nsListed, nsSeen, nsSync, requests,
                     edits, faults>>
      /\ nsDirty' = nsDirty \ {n} /\ nsCached' = [nsCached EXCEPT ![n] = State(nsListed[n])]
  BY DEF SyncSettled, Take, listerUnchanged, storeUnchanged, userVars
<1>2. Caches(nsCached') BY <1>1, Types, Holds, StateTypes, CacheSet
<1>3. health' \subseteq Namespaces BY Types DEF SyncSettled, healthVars
<1>4. /\ DOMAIN loops' = Namespaces
      /\ \A m \in Namespaces :
             DOMAIN loops'[m] = Slots /\ \A j \in Slots : IsLoop(loops'[m][j])
  <2>1. CASE UNCHANGED loops BY <2>1 DEF NInv, TypeOK
  <2>2. CASE \E i \in Slots : loops' = [loops EXCEPT ![n][i] = [Off EXCEPT !.pc = "wait"]]
    BY <2>2, OffType, LoopType
  <2> QED BY <2>1, <2>2 DEF SyncSettled, healthVars
<1>5. TypeOK' BY <1>1, <1>2, <1>3, <1>4, Types DEF NInv, TypeOK, IsLoop, Caches, IsState
<1> QED BY <1>1, <1>5 DEF NInv, Kept, Fits, Shape, Settled, InLedger, Labelled, Meant

------------------------------------------------------------------------------
(* Creating a namespace.                                                   *)

(* A worker with a write to submit.                                        *)
LEMMA Submitted ==
    ASSUME NInv, NEW n \in Namespaces, NEW kind \in {"count", "adjust", "uncount"}, NEW new,
           IsProject(new), Submit(n, kind, new)
    PROVE  \E s : /\ IsSync(s) /\ Becomes(n, s) /\ s.pc = "commit" /\ s.write.kind = kind
                  /\ s.write.base = projects[ProjectOf[n]] /\ s.write.new = new
<1> DEFINE w == [kind |-> kind, base |-> projects[ProjectOf[n]], new |-> new]
           s == [nsSync[n] EXCEPT !.pc = "commit", !.write = w]
<1>1. w.kind = kind /\ w.base = projects[ProjectOf[n]] /\ w.new = new OBVIOUS
<1>2. IsWrite(w) BY Holds DEF IsWrite
<1>3. Becomes(n, s) BY DEF Submit
<1> HIDE DEF w
<1>4. IsSync(s) /\ s.pc = "commit" /\ s.write = w BY <1>2, Holds DEF IsSync
<1> HIDE DEF s
<1> QED BY <1>1, <1>3, <1>4

(* What the registry admits as an update is within its quota.              *)
LEMMA AdmittedWithinHard ==
    ASSUME NEW p, NEW new, NEW old, Present(old), Admits(p, new, old)
    PROVE  WithinHard(new)
<1>1. /\ \A c \in DOMAIN new.used : new.used[c] >= 0
      /\ \A c \in DOMAIN new.hard : new.hard[c] >= At(new.used, c)
  BY DEF Admits, ValidateProjectUpdate, ValidateUpdateResource
<1>2. ASSUME NEW c \in DOMAIN new.used, c \in DOMAIN new.hard
      PROVE  new.used[c] <= new.hard[c]
  <2>1. new.hard[c] >= new.used[c] BY <1>1, <1>2 DEF At
  <2> QED BY <2>1
<1> QED BY <1>1, <1>2 DEF WithinHard

(* What a worker writes into a ledger is a project.                        *)
LEMMA LedgerTypes ==
    ASSUME NInv, NEW n \in Namespaces
    PROVE  LET project == projects[ProjectOf[n]]
           IN  /\ IsProject(Counted(n, project)) /\ IsProject(Adjusted(n, project))
               /\ IsProject(Uncounted(n, project))
               /\ Counted(n, project).nss = project.nss \cup {n}
               /\ Adjusted(n, project).nss = project.nss
               /\ Uncounted(n, project).nss = project.nss \ {n}
               /\ \A new \in {Counted(n, project), Adjusted(n, project), Uncounted(n, project)} :
                      new = [project EXCEPT !.nss = new.nss, !.used = new.used]
<1> DEFINE project == projects[ProjectOf[n]]
           quota == nsSync[n].obj.hard
           last == nsSync[n].state.hard
<1>1. IsProject(project) /\ IsLedger(quota) /\ IsLedger(last)
  BY Holds DEF NInv, IsSync, IsNamespace, IsState
<1>2. IsLedger(project.used) BY <1>1 DEF IsProject
<1>3. PICK up : up = AddClusterHardToUsed(project.used, quota) /\ IsLedger(up)
  BY <1>1, <1>2, AddIsLedger
<1>4. PICK down : down = SubClusterHardFromUsed(project.used, quota) /\ IsLedger(down)
  BY <1>1, <1>2, SubIsLedger
<1>9. PICK over : /\ over = AddClusterHardToUsed(SubClusterHardFromUsed(project.used, last), quota)
                  /\ IsLedger(over)
  BY <1>1, <1>2, AddIsLedger, SubIsLedger
<1>10. Adjusted(n, project) = [project EXCEPT !.nss = project.nss, !.used = over]
  BY <1>1, <1>9 DEF Adjusted, IsProject
<1>5. Counted(n, project) = [project EXCEPT !.nss = project.nss \cup {n}, !.used = up]
  BY <1>1, <1>3 DEF Counted, IsProject
<1>6. Uncounted(n, project) = [project EXCEPT !.nss = project.nss \ {n}, !.used = down]
  BY <1>1, <1>4 DEF Uncounted, IsProject
<1> HIDE DEF project, quota, last
<1>11. /\ IsProject(Adjusted(n, project)) /\ Adjusted(n, project).nss = project.nss
       /\ Adjusted(n, project).used = over
  BY <1>1, <1>9, <1>10 DEF IsProject
<1>7. /\ IsProject(Counted(n, project)) /\ Counted(n, project).nss = project.nss \cup {n}
      /\ Counted(n, project).used = up
  <2>1. project.nss \cup {n} \subseteq Namespaces BY <1>1 DEF IsProject
  <2>2. PICK names : names = project.nss \cup {n} OBVIOUS
  <2> QED BY <1>1, <1>3, <1>5, <2>1, <2>2 DEF IsProject
<1>8. /\ IsProject(Uncounted(n, project)) /\ Uncounted(n, project).nss = project.nss \ {n}
      /\ Uncounted(n, project).used = down
  BY <1>1, <1>4, <1>6 DEF IsProject
<1> QED BY <1>5, <1>6, <1>7, <1>8, <1>10, <1>11 DEF project

(* What a worker submits is a posting.                                     *)
LEMMA SubmitsPosting ==
    ASSUME NInv, NEW n \in Namespaces,
           NEW new \in {Counted(n, projects[ProjectOf[n]]), Adjusted(n, projects[ProjectOf[n]]),
                        Uncounted(n, projects[ProjectOf[n]])},
           Present(projects[ProjectOf[n]]), Admits(ProjectOf[n], new, projects[ProjectOf[n]])
    PROVE  /\ IsProject(new) /\ Posting(projects[ProjectOf[n]], new)
           /\ projects[ProjectOf[n]].uid # 0
<1>1. /\ IsProject(new)
      /\ new = [projects[ProjectOf[n]] EXCEPT !.nss = new.nss, !.used = new.used]
  BY LedgerTypes
<1>2. WithinHard(new) BY AdmittedWithinHard
<1>3. projects[ProjectOf[n]].uid # 0 BY Holds DEF NInv
<1> QED BY <1>1, <1>2, <1>3 DEF Posting

(* The write that counts the namespace is submitted, or the one that       *)
(* accounts for an edit; there is none if the controller was misled.       *)
LEMMA CountNamespaceKeeps ==
    ASSUME NInv, NEW n \in Namespaces, CountNamespace(n) PROVE NInv'
<1> DEFINE project == projects[ProjectOf[n]]
<1>1. /\ UNCHANGED <<projects, namespaces, onCluster, nsListed, nsSeen, nsCached, health, loops,
                     requests, edits, faults>>
      /\ nsSync[n].pc = "count"
  BY DEF CountNamespace, listerUnchanged, storeUnchanged, healthVars, userVars
<1>2. ASSUME NEW kind \in {"count", "adjust"}, NEW new, Present(project),
             \/ kind = "count" /\ new = Counted(n, project)
             \/ kind = "adjust" /\ new = Adjusted(n, project) /\ Misled(n),
             Admits(ProjectOf[n], new, project), Submit(n, kind, new), UNCHANGED nsDirty
      PROVE  NInv'
  <2>1. IsProject(new) /\ Posting(project, new) /\ project.uid # 0
    BY <1>2, SubmitsPosting
  <2>2. /\ kind = "count" => new.nss = project.nss \cup {n}
        /\ kind = "adjust" => new.nss = project.nss /\ ~Unmistaken(ProjectOf[n])
    BY <1>2, LedgerTypes DEF Misled, Unmistaken
  <2>3. PICK s : /\ IsSync(s) /\ Becomes(n, s) /\ s.pc = "commit" /\ s.write.kind = kind
                 /\ s.write.base = project /\ s.write.new = new
    BY <1>2, <2>1, Submitted
  <2>4. Fits(n, s)
    BY <1>2, <2>1, <2>2, <2>3 DEF Fits, Shape, Writes, TakingDown, Creating, Succeeding
  <2> QED BY <1>1, <1>2, <2>3, <2>4, Types, Moves
<1>3. CASE Requeue(n)
  <2>1. Done(n) /\ nsDirty' \subseteq Namespaces BY <1>3, Types DEF Requeue
  <2> QED BY <1>1, <2>1, Types, Ends
<1>4. CASE Present(project) /\ Misled(n) /\ Step(n, "provision") /\ UNCHANGED nsDirty
  <2>1. PICK s : s = [nsSync[n] EXCEPT !.pc = "provision"] OBVIOUS
  <2>2. Becomes(n, s) BY <1>4, <2>1 DEF Step
  <2>3. IsSync(s) /\ s.pc = "provision" /\ s.write = nsSync[n].write
    BY <2>1, Holds DEF IsSync
  <2>4. nsSync[n].write.kind = "none" BY <1>1, Holds DEF Fits, Shape
  <2>5. InLedger(n) BY <1>4, Holds DEF InLedger, Misled, Unmistaken, NInv
  <2>6. Fits(n, s)
    BY <2>3, <2>4, <2>5 DEF Fits, Shape, Writes, TakingDown, Creating, Succeeding
  <2> QED BY <1>1, <1>4, <2>2, <2>3, <2>6, Types, Moves
<1> QED BY <1>2, <1>3, <1>4 DEF CountNamespace, SubmitIfAdmitted

(* A worker that goes from one stage of the creation to a later one.       *)
LEMMA CreatingOn ==
    ASSUME NInv, NEW n \in Namespaces, Creating(nsSync[n]), NEW s,
           s.write = nsSync[n].write, Creating(s),
           "removed" \notin FaultKinds /\ Succeeding(s) => Labelled(n)
    PROVE  Fits(n, s)
<1>1. nsSync[n].write.kind = "none" /\ InLedger(n)
  BY Holds DEF Fits, Shape, Creating
<1> QED BY <1>1 DEF Fits, Shape, Writes, TakingDown, Creating

(* The namespace on the cluster is labelled, unless another project's      *)
(* label is on it.                                                         *)
LEMMA ProvisionKeeps == ASSUME NInv, NEW n \in Namespaces, Provision(n) PROVE NInv'
<1>1. /\ UNCHANGED <<projects, namespaces, nsListed, nsSeen, nsDirty, nsCached, health, loops,
                     requests, edits, faults>>
      /\ nsSync[n].pc = "provision" /\ Creating(nsSync[n])
  BY DEF Provision, listerUnchanged, storeUnchanged, healthVars, userVars, Creating
<1>2. CASE Taken(n)
  <2> DEFINE s == [nsSync[n] EXCEPT !.pc = "report", !.next = "Failed"]
  <2>1. Becomes(n, s) /\ UNCHANGED onCluster BY <1>2 DEF Provision
  <2>2. IsSync(s) /\ s.pc = "report" /\ s.next = "Failed" /\ s.write = nsSync[n].write
    BY Holds DEF IsSync
  <2> HIDE DEF s
  <2>3. Fits(n, s) BY <1>1, <2>2, CreatingOn DEF Creating, Succeeding
  <2> QED BY <1>1, <2>1, <2>2, <2>3, Types, Moves
<1>3. CASE ~Taken(n)
  <2> DEFINE t == TargetOf[n]
             mine == [onCluster[t] EXCEPT !.exists = TRUE, !.owner = ProjectOf[n]]
  <2>0. PICK s : s = [nsSync[n] EXCEPT !.pc = "quota"] OBVIOUS
  <2>1. Becomes(n, s) BY <1>3, <2>0 DEF Provision, Step
  <2>2. onCluster' = [onCluster EXCEPT ![t] = mine]
    BY <1>3, Holds DEF Provision, NInv, TypeOK, IsOnCluster
  <2>3. IsSync(s) /\ s.pc = "quota" /\ s.write = nsSync[n].write BY <2>0, Holds DEF IsSync
  <2>4. IsOnCluster(mine) /\ mine.exists /\ mine.owner = ProjectOf[n]
    BY Holds DEF IsOnCluster
  <2> HIDE DEF mine
  <2>5. \A d \in Targets : onCluster'[d] = IF d = t THEN mine ELSE onCluster[d]
    BY <2>2 DEF NInv, TypeOK
  <2>6. DOMAIN onCluster' = Targets /\ \A d \in Targets : IsOnCluster(onCluster'[d])
    BY <2>2, <2>4, <2>5 DEF NInv, TypeOK
  <2>7. ASSUME NEW m \in Namespaces, Labelled(m) PROVE Labelled(m)'
    <3>1. CASE TargetOf[m] = t
      <4>1. ProjectOf[m] = ProjectOf[n]
        BY <1>3, <2>7, <3>1, TreeAssumption DEF Taken, Labelled
      <4> QED BY <2>4, <2>5, <3>1, <4>1, Holds DEF Labelled
    <3>2. CASE TargetOf[m] # t BY <2>5, <2>7, <3>2, Holds DEF Labelled
    <3> QED BY <3>1, <3>2
  <2>8. Labelled(n)' BY <2>4, <2>5, Holds DEF Labelled
  <2>9. nsSync[n].write.kind = "none" /\ InLedger(n)
    BY <1>1, Holds DEF Fits, Shape, Creating
  <2>10. Fits(n, s)'
    BY <1>1, <2>3, <2>8, <2>9 DEF Fits, Shape, Writes, TakingDown, Creating, InLedger
  <2> QED BY <1>1, <2>1, <2>3, <2>6, <2>7, <2>10, Types, MovesOnCluster
<1> QED BY <1>2, <1>3

(* The quota is pushed.                                                    *)
LEMMA PushQuotaKeeps == ASSUME NInv, NEW n \in Namespaces, PushQuota(n) PROVE NInv'
<1>1. /\ UNCHANGED <<projects, namespaces, nsListed, nsSeen, nsDirty, nsCached, health, loops,
                     requests, edits, faults>>
      /\ nsSync[n].pc = "quota" /\ Creating(nsSync[n]) /\ Succeeding(nsSync[n])
  BY DEF PushQuota, listerUnchanged, storeUnchanged, healthVars, userVars, Creating, Succeeding
<1>2. CASE ~onCluster[TargetOf[n]].exists
  <2> DEFINE s == [nsSync[n] EXCEPT !.pc = "report", !.next = "Failed"]
  <2>1. Becomes(n, s) /\ UNCHANGED onCluster BY <1>2 DEF PushQuota
  <2>2. IsSync(s) /\ s.pc = "report" /\ s.next = "Failed" /\ s.write = nsSync[n].write
    BY Holds DEF IsSync
  <2> HIDE DEF s
  <2>3. Fits(n, s) BY <1>1, <2>2, CreatingOn DEF Creating, Succeeding
  <2> QED BY <1>1, <2>1, <2>2, <2>3, Types, Moves
<1>3. CASE onCluster[TargetOf[n]].exists
  <2> DEFINE t == TargetOf[n]
             limited == [onCluster[t] EXCEPT !.quota = Pushed(n)]
  <2>0. PICK s : s = [nsSync[n] EXCEPT !.pc = "report", !.next = "Available"] OBVIOUS
  <2>1. Becomes(n, s) BY <1>3, <2>0 DEF PushQuota
  <2>2. onCluster' = [onCluster EXCEPT ![t] = limited]
    BY <1>3, Holds DEF PushQuota, NInv, TypeOK
  <2>3. IsSync(s) /\ s.pc = "report" /\ s.write = nsSync[n].write BY <2>0, Holds DEF IsSync
  <2>4. \A q \in Pushed(n) : IsLedger(q) BY Holds DEF Pushed, IsSync, IsNamespace
  <2>5. /\ IsOnCluster(limited) /\ limited.exists = onCluster[t].exists
        /\ limited.owner = onCluster[t].owner
    BY <2>4, Holds DEF IsOnCluster
  <2> HIDE DEF limited
  <2>6. \A d \in Targets : onCluster'[d] = IF d = t THEN limited ELSE onCluster[d]
    BY <2>2 DEF NInv, TypeOK
  <2>7. DOMAIN onCluster' = Targets /\ \A d \in Targets : IsOnCluster(onCluster'[d])
    BY <2>2, <2>5, <2>6 DEF NInv, TypeOK
  <2>8. \A m \in Namespaces : Labelled(m)' <=> Labelled(m)
    BY <2>5, <2>6, Holds DEF Labelled
  <2>9. /\ nsSync[n].write.kind = "none" /\ InLedger(n)
        /\ "removed" \notin FaultKinds => Labelled(n)
    BY <1>1, Holds DEF Fits, Shape, Creating
  <2>10. Fits(n, s)'
    BY <1>1, <2>3, <2>8, <2>9 DEF Fits, Shape, Writes, TakingDown, Creating, InLedger
  <2> QED BY <1>1, <2>1, <2>3, <2>7, <2>8, <2>10, Types, MovesOnCluster
<1> QED BY <1>2, <1>3

(* The new phase is submitted.                                             *)
LEMMA ReportPhaseKeeps == ASSUME NInv, NEW n \in Namespaces, ReportPhase(n) PROVE NInv'
<1>1. /\ UNCHANGED <<projects, namespaces, onCluster, nsListed, nsCached, health, loops,
                     requests, edits, faults>>
      /\ nsSync[n].pc = "report"
  BY DEF ReportPhase, storeUnchanged, healthVars, userVars
<1>2. nsSeen' \in [Namespaces -> Phases]
  BY Types, Holds DEF ReportPhase, IsSync, Phases
<1>3. CASE Step(n, "store") /\ UNCHANGED nsDirty
  <2> DEFINE s == [nsSync[n] EXCEPT !.pc = "store"]
  <2>1. Becomes(n, s) BY <1>3 DEF Step
  <2>2. /\ IsSync(s) /\ s.pc = "store" /\ s.next = nsSync[n].next
        /\ s.write = nsSync[n].write
    BY Holds DEF IsSync
  <2> HIDE DEF s
  <2>3. Fits(n, s) BY <1>1, <2>2, Holds, CreatingOn DEF Creating, Succeeding, Fits
  <2> QED BY <1>1, <1>2, <1>3, <2>1, <2>2, <2>3, Types, Moves
<1>4. CASE Requeue(n)
  <2>1. Done(n) /\ nsDirty' \subseteq Namespaces BY <1>4, Types DEF Requeue
  <2> QED BY <1>1, <1>2, <2>1, Types, Ends
<1> QED BY <1>3, <1>4 DEF ReportPhase

------------------------------------------------------------------------------
(* Steps that store a namespace.                                           *)

(* What is stored is settled only if the namespace is in its ledger and,   *)
(* to be available, on the cluster.                                        *)
Earned(n, obj) ==
    /\ obj.phase \in {"Available", "Failed"} => InLedger(n)
    /\ "removed" \notin FaultKinds /\ obj.phase = "Available" => Labelled(n)

(* Storing such an object keeps what is said of the namespaces.            *)
LEMMA StoredKept ==
    ASSUME NInv, NEW n \in Namespaces, NEW obj, IsNamespace(obj), Earned(n, obj),
           namespaces' = [namespaces EXCEPT ![n] = obj], UNCHANGED <<projects, onCluster>>
    PROVE  /\ DOMAIN namespaces' = Namespaces
           /\ \A m \in Namespaces : IsNamespace(namespaces'[m])
           /\ \A m \in Namespaces : Kept(m)'
<1>1. \A m \in Namespaces : namespaces'[m] = IF m = n THEN obj ELSE namespaces[m]
  BY DEF NInv, TypeOK
<1>2. \A m \in Namespaces : IsNamespace(namespaces'[m]) BY <1>1 DEF NInv, TypeOK
<1>3. ASSUME NEW m \in Namespaces PROVE Kept(m)'
  BY <1>1 DEF NInv, Kept, Earned, Settled, InLedger, Labelled
<1> QED BY <1>2, <1>3 DEF NInv, TypeOK

(* It keeps what the workers rely on, if nobody is taking the namespace    *)
(* down that becomes settled.                                              *)
LEMMA StoredFits ==
    ASSUME NInv, NEW n \in Namespaces, NEW obj,
           namespaces' = [namespaces EXCEPT ![n] = obj], UNCHANGED <<projects, onCluster>>,
           NEW m \in Namespaces, NEW r, Fits(m, r),
           m = n /\ TakingDown(r) => obj.phase \notin {"Available", "Failed"}
    PROVE  Fits(m, r)'
<1>1. namespaces'[m] = IF m = n THEN obj ELSE namespaces[m]
  BY DEF NInv, TypeOK
<1> QED BY <1>1 DEF Fits, Shape, Settled, InLedger, Labelled

(* An object that somebody stores beside the workers.                      *)
LEMMA StoredBeside ==
    ASSUME NInv, NEW n \in Namespaces, NEW obj, IsNamespace(obj), Earned(n, obj),
           TakingDown(nsSync[n]) => obj.phase \notin {"Available", "Failed"},
           namespaces' = [namespaces EXCEPT ![n] = obj],
           UNCHANGED <<projects, onCluster, workerVars>>,
           health' \subseteq Namespaces, DOMAIN loops' = Namespaces,
           \A m \in Namespaces :
               DOMAIN loops'[m] = Slots /\ \A j \in Slots : IsLoop(loops'[m][j]),
           requests' \subseteq requests, edits' \in Nat, faults' \in Nat
    PROVE  NInv'
<1>1. /\ DOMAIN namespaces' = Namespaces
      /\ \A m \in Namespaces : IsNamespace(namespaces'[m])
      /\ \A m \in Namespaces : Kept(m)'
  BY StoredKept
<1>2. TypeOK' BY <1>1 DEF NInv, TypeOK, workerVars, IsLoop, IsRequest
<1>3. ASSUME NEW m \in Namespaces PROVE Fits(m, nsSync[m])'
  <2>1. PICK r : r = nsSync[m] OBVIOUS
  <2>2. Fits(m, r) BY <2>1 DEF NInv
  <2>3. Fits(m, r)' BY <2>1, <2>2, StoredFits
  <2> QED BY <2>1, <2>3 DEF workerVars
<1> QED BY <1>1, <1>2, <1>3 DEF NInv, Meant

(* The worker's report is an object it has earned.                         *)
LEMMA ReportEarned ==
    ASSUME NInv, NEW n \in Namespaces, nsSync[n].pc = "store"
    PROVE  IsNamespace(Reported(n)) /\ Earned(n, Reported(n))
<1>1. IsSync(nsSync[n]) /\ Fits(n, nsSync[n]) BY Holds
<1>2. /\ IsNamespace(Reported(n)) /\ Reported(n).phase = nsSync[n].next
  BY <1>1 DEF Reported, IsSync, IsNamespace
<1> QED BY <1>1, <1>2 DEF Earned, Fits, Creating, Succeeding

(* The worker stores the new phase and ends the sync.                      *)
LEMMA StorePhaseKeeps == ASSUME NInv, NEW n \in Namespaces, StorePhase(n) PROVE NInv'
<1>1. /\ UNCHANGED <<projects, onCluster, nsListed, nsSeen, health, loops, requests, edits,
                     faults>>
      /\ nsSync[n].pc = "store" /\ Becomes(n, Idle)
  BY DEF StorePhase, listerUnchanged, healthVars, userVars, Done, Requeue
<1>2. nsDirty' \subseteq Namespaces /\ Caches(nsCached')
  <2>1. nsDirty' \subseteq Namespaces BY Types DEF StorePhase, Requeue
  <2>2. IsNamespace(nsSync[n].obj) BY Holds DEF IsSync
  <2>3. \/ UNCHANGED nsCached
        \/ nsCached' = [nsCached EXCEPT ![n] = State(nsSync[n].obj)]
    BY DEF StorePhase
  <2> QED BY <2>1, <2>2, <2>3, Types, StateTypes, CacheSet
<1>3. CASE UNCHANGED namespaces
  <2>1. Done(n) BY <1>1 DEF Done
  <2> QED BY <1>1, <1>2, <1>3, <2>1, Types, Ends
<1>4. CASE namespaces' = [namespaces EXCEPT ![n] = Reported(n)]
  <2>1. PICK obj : obj = Reported(n) OBVIOUS
  <2>2. IsNamespace(obj) /\ Earned(n, obj) BY <1>1, <2>1, ReportEarned
  <2>3. /\ DOMAIN namespaces' = Namespaces
        /\ \A m \in Namespaces : IsNamespace(namespaces'[m])
        /\ \A m \in Namespaces : Kept(m)'
    BY <1>1, <1>4, <2>1, <2>2, StoredKept
  <2>4. \A m \in Namespaces : nsSync'[m] = IF m = n THEN Idle ELSE nsSync[m]
    BY <1>1 DEF NInv, TypeOK, Becomes
  <2>5. ASSUME NEW m \in Namespaces PROVE IsSync(nsSync[m])' /\ Fits(m, nsSync[m])'
    <3>1. PICK r : r = IF m = n THEN Idle ELSE nsSync[m] OBVIOUS
    <3>2. IsSync(r) /\ Fits(m, r) BY <3>1, IdleFits, Holds
    <3>3. m = n => ~TakingDown(r)
      BY <3>1 DEF TakingDown, Writes, Idle
    <3>4. Fits(m, r)' BY <1>1, <1>4, <2>1, <3>2, <3>3, StoredFits
    <3>5. nsSync'[m] = r BY <2>4, <3>1
    <3> QED BY <3>2, <3>4, <3>5 DEF IsSync, IsWrite
  <2>6. TypeOK' BY <1>1, <1>2, <2>3, <2>5 DEF NInv, TypeOK, Becomes, Caches, IsState
  <2> QED BY <1>1, <2>3, <2>5, <2>6 DEF NInv, Meant
<1> QED BY <1>3, <1>4 DEF StorePhase

------------------------------------------------------------------------------
(* Taking a namespace down.                                                *)

(* The deleter reads an object that is being deleted.                      *)
LEMMA GetDoomedKeeps == ASSUME NInv, NEW n \in Namespaces, GetDoomed(n) PROVE NInv'
<1> DEFINE s == [nsSync[n] EXCEPT !.pc = "uncount", !.obj = namespaces[n]]
<1>1. /\ UNCHANGED <<projects, namespaces, onCluster, nsListed, nsSeen, nsDirty, nsCached,
                     health, loops, requests, edits, faults>>
      /\ nsSync[n].pc = "get"
  BY DEF GetDoomed, listerUnchanged, storeUnchanged, healthVars, userVars
<1>2. CASE Done(n) BY <1>1, <1>2, Types, Ends
<1>3. CASE namespaces[n].phase = "Terminating" /\ Becomes(n, s)
  <2>1. IsSync(s) /\ s.pc = "uncount" /\ s.write = nsSync[n].write BY Holds DEF IsSync
  <2>2. nsSync[n].write.kind = "none" BY <1>1, Holds DEF Fits, Shape
  <2> HIDE DEF s
  <2>3. Fits(n, s)
    BY <1>3, <2>1, <2>2 DEF Fits, Shape, Writes, TakingDown, Creating, Succeeding, Settled
  <2> QED BY <1>1, <1>3, <2>1, <2>3, Types, Moves
<1> QED BY <1>2, <1>3 DEF GetDoomed

(* From the ledger the deleter goes on to the cluster, whatever happened.  *)
LEMMA ToUnprovision ==
    ASSUME NInv, NEW n \in Namespaces, TakingDown(nsSync[n]), NEW s, IsSync(s),
           s.pc = "unprovision", s.write.kind = "none"
    PROVE  Fits(n, s)
<1>1. ~Settled(n) BY Holds DEF Fits
<1> QED BY <1>1 DEF Fits, Shape, Writes, TakingDown, Creating, Succeeding

(* The write that takes the namespace out of the ledger is submitted.      *)
LEMMA UncountNamespaceKeeps ==
    ASSUME NInv, NEW n \in Namespaces, UncountNamespace(n) PROVE NInv'
<1> DEFINE project == projects[ProjectOf[n]]
           new == Uncounted(n, project)
<1>1. /\ UNCHANGED <<projects, namespaces, onCluster, nsListed, nsSeen, nsDirty, nsCached,
                     health, loops, requests, edits, faults>>
      /\ nsSync[n].pc = "uncount" /\ TakingDown(nsSync[n])
  BY DEF UncountNamespace, listerUnchanged, storeUnchanged, healthVars, userVars, TakingDown
<1>2. CASE /\ Present(project) /\ Admits(ProjectOf[n], new, project)
           /\ Submit(n, "uncount", new)
  <2>1. /\ IsProject(new) /\ new.nss = project.nss \ {n} /\ Posting(project, new)
        /\ project.uid # 0
    BY <1>2, LedgerTypes, SubmitsPosting
  <2> HIDE DEF new
  <2>2. PICK s : /\ IsSync(s) /\ Becomes(n, s) /\ s.pc = "commit" /\ s.write.kind = "uncount"
                 /\ s.write.base = project /\ s.write.new = new
    BY <1>2, <2>1, Submitted
  <2>3. ~Settled(n) BY <1>1, Holds DEF Fits
  <2>4. Fits(n, s)
    BY <2>1, <2>2, <2>3 DEF Fits, Shape, Writes, TakingDown, Creating, Succeeding
  <2> QED BY <1>1, <2>2, <2>4, Types, Moves
<1>3. CASE Step(n, "unprovision")
  <2> DEFINE s == [nsSync[n] EXCEPT !.pc = "unprovision"]
  <2>1. Becomes(n, s) BY <1>3 DEF Step
  <2>2. IsSync(s) /\ s.pc = "unprovision" /\ s.write = nsSync[n].write BY Holds DEF IsSync
  <2>3. nsSync[n].write.kind = "none" BY <1>1, Holds DEF Fits, Shape
  <2> HIDE DEF s
  <2>4. Fits(n, s) BY <1>1, <2>2, <2>3, ToUnprovision
  <2> QED BY <1>1, <2>1, <2>2, <2>4, Types, Moves
<1> QED BY <1>2, <1>3 DEF UncountNamespace

(* The namespace is removed from the cluster: whoever relies on its label  *)
(* is the same namespace, as a project has one name for it.                *)
LEMMA UnprovisionKeeps == ASSUME NInv, NEW n \in Namespaces, Unprovision(n) PROVE NInv'
<1> DEFINE t == TargetOf[n]
<1>0. PICK s : s = [nsSync[n] EXCEPT !.pc = "finalize"] OBVIOUS
<1>1. /\ UNCHANGED <<projects, namespaces, nsListed, nsSeen, nsDirty, nsCached, health, loops,
                     requests, edits, faults>>
      /\ nsSync[n].pc = "unprovision" /\ TakingDown(nsSync[n]) /\ Becomes(n, s)
  BY <1>0 DEF Unprovision, listerUnchanged, storeUnchanged, healthVars, userVars, TakingDown, Step
<1>2. IsSync(s) /\ s.pc = "finalize" /\ s.write = nsSync[n].write BY <1>0, Holds DEF IsSync
<1>3. nsSync[n].write.kind = "none" BY <1>1, Holds DEF Fits, Shape
<1>4. Fits(n, s)'
  BY <1>2, <1>3 DEF Fits, Shape, Writes, TakingDown, Creating, Succeeding
<1>5. IsOnCluster(Missing) BY DEF IsOnCluster, Missing
<1>6. DOMAIN onCluster' = Targets /\ \A d \in Targets : IsOnCluster(onCluster'[d])
  BY <1>5 DEF NInv, TypeOK, Unprovision
<1>7. ASSUME NEW m \in Namespaces, Labelled(m) PROVE Labelled(m)' \/ m = n
  <2>1. CASE TargetOf[m] = t /\ ProjectOf[m] = ProjectOf[n] BY <2>1, NamespaceAssumption
  <2>2. CASE TargetOf[m] = t /\ ProjectOf[m] # ProjectOf[n]
    <3>1. UNCHANGED onCluster BY <1>7, <2>2 DEF Unprovision, Labelled
    <3> QED BY <1>7, <3>1 DEF Labelled
  <2>3. CASE TargetOf[m] # t
    <3>1. onCluster'[TargetOf[m]] = onCluster[TargetOf[m]]
      BY <2>3, Holds DEF NInv, TypeOK, Unprovision
    <3> QED BY <1>7, <3>1 DEF Labelled
  <2> QED BY <2>1, <2>2, <2>3
<1> QED BY <1>1, <1>2, <1>4, <1>6, <1>7, Types, MovesOnCluster

(* The sync ends with an error.                                            *)
LEMMA FinalizeNamespaceKeeps ==
    ASSUME NInv, NEW n \in Namespaces, FinalizeNamespace(n) PROVE NInv'
<1>1. /\ UNCHANGED <<projects, namespaces, onCluster, nsListed, nsSeen, nsCached, health, loops,
                     requests, edits, faults>>
      /\ Done(n) /\ nsDirty' \subseteq Namespaces
  BY Types DEF FinalizeNamespace, listerUnchanged, storeUnchanged, healthVars, userVars, Requeue
<1> QED BY <1>1, Types, Ends

------------------------------------------------------------------------------
(* Steps that store a ledger.                                              *)

(* The write of n changes nothing about the ledger entries of others.      *)
LEMMA LedgerStored ==
    ASSUME NInv, NEW n \in Namespaces, nsSync[n].pc = "commit", Unchanged(n), Store(n)
    PROVE  /\ DOMAIN projects' = Projects
           /\ \A p \in Projects :
                  /\ IsProject(projects'[p]) /\ projects'[p].uid = projects[p].uid
                  /\ Present(projects'[p]) => projects'[p].uid # 0
           /\ \A m \in Namespaces : m # n => (InLedger(m)' <=> InLedger(m))
           /\ nsSync[n].write.kind # "uncount" => InLedger(n)'
<1> DEFINE w == nsSync[n].write
           q == ProjectOf[n]
<1>1. /\ IsSync(nsSync[n]) /\ Shape(n, nsSync[n]) /\ q \in Projects
  BY Holds DEF Fits
<1>2. /\ IsProject(w.new) /\ IsProject(w.base) /\ Posting(w.base, w.new)
      /\ w.kind \in {"count", "adjust", "uncount"}
  BY <1>1 DEF IsSync, IsWrite, Shape
<1>3. projects[q] = w.base /\ projects' = [projects EXCEPT ![q] = w.new]
  BY DEF Unchanged, Store
<1>4. w.kind = "count" => w.new.nss = w.base.nss \cup {n}
  BY <1>1 DEF Shape, Writes
<1>5. w.kind = "uncount" => w.new.nss = w.base.nss \ {n}
  BY <1>1 DEF Shape, Writes
<1>11. w.kind = "adjust" => w.new.nss = w.base.nss /\ ~Unmistaken(q)
  BY <1>1 DEF Shape, Writes
<1> HIDE DEF w, q
<1>6. \A p \in Projects : projects'[p] = IF p = q THEN w.new ELSE projects[p]
  BY <1>3 DEF NInv, TypeOK
<1>7. DOMAIN projects' = Projects BY <1>3 DEF NInv, TypeOK
<1>0. w.new.phase = w.base.phase /\ w.new.uid = w.base.uid BY <1>2 DEF Posting, IsProject
<1>8. ASSUME NEW p \in Projects
      PROVE  /\ IsProject(projects'[p]) /\ projects'[p].uid = projects[p].uid
             /\ Present(projects'[p]) => projects'[p].uid # 0
  BY <1>0, <1>2, <1>3, <1>6 DEF NInv, TypeOK, Present
<1>9. ASSUME NEW m \in Namespaces, m # n PROVE InLedger(m)' <=> InLedger(m)
  <2>1. ProjectOf[m] \in Projects BY TreeAssumption
  <2>2. m \in w.new.nss <=> m \in w.base.nss BY <1>2, <1>4, <1>5, <1>9, <1>11
  <2> QED BY <1>0, <1>3, <1>6, <2>1, <2>2 DEF InLedger, Standing
<1>10. w.kind # "uncount" => InLedger(n)'
  <2>1. nsSync[n].pc = "commit" => projects[q].uid # 0 BY Holds DEF Fits, q
  <2> QED BY <1>0, <1>1, <1>2, <1>3, <1>4, <1>6, <1>11, <2>1 DEF InLedger, q
<1> QED BY <1>7, <1>8, <1>9, <1>10 DEF w

(* So a step that stores it keeps what is said of every namespace, given   *)
(* what the worker of n relies on from then on.                            *)
LEMMA LedgerMoves ==
    ASSUME NInv, NEW n \in Namespaces, nsSync[n].pc = "commit", Unchanged(n), Store(n),
           NEW s, IsSync(s), Fits(n, s)', DOMAIN nsSync' = Namespaces,
           \A m \in Namespaces : nsSync'[m] = IF m = n THEN s ELSE nsSync[m],
           UNCHANGED <<namespaces, onCluster, nsListed, nsSeen, nsCached, healthVars, userVars>>,
           nsDirty' \subseteq Namespaces, faults' \in Nat
    PROVE  NInv'
<1>1. /\ DOMAIN projects' = Projects
      /\ \A p \in Projects :
             /\ IsProject(projects'[p]) /\ projects'[p].uid = projects[p].uid
             /\ Present(projects'[p]) => projects'[p].uid # 0
      /\ \A m \in Namespaces : m # n => (InLedger(m)' <=> InLedger(m))
      /\ nsSync[n].write.kind # "uncount" => InLedger(n)'
  BY LedgerStored
<1>3. \A m \in Namespaces : IsSync(nsSync[m])'
  BY DEF NInv, TypeOK, IsSync, IsWrite
<1>4. TypeOK' BY <1>1, <1>3 DEF NInv, TypeOK, healthVars, userVars
<1>5. ASSUME NEW m \in Namespaces PROVE Kept(m)'
  <2>1. CASE m = n
    <3>1. Settled(n) => ~TakingDown(nsSync[n]) BY Holds DEF Fits
    <3>2. nsSync[n].write.kind \in {"count", "adjust", "uncount"} BY Holds DEF Fits, Shape
    <3>3. Settled(n) => InLedger(n)' BY <1>1, <3>1, <3>2 DEF TakingDown, Writes
    <3> QED BY <2>1, <3>3, Holds DEF Kept, Settled, Labelled
  <2>2. CASE m # n BY <1>1, <2>2, Holds DEF Kept, Settled, Labelled
  <2> QED BY <2>1, <2>2
<1>6. ASSUME NEW m \in Namespaces PROVE Fits(m, nsSync[m])'
  <2>1. CASE m = n BY <2>1
  <2>2. CASE m # n
    <3>1. PICK r : r = nsSync[m] OBVIOUS
    <3>2. Fits(m, r) BY <3>1, Holds
    <3>3. projects'[ProjectOf[m]].uid = projects[ProjectOf[m]].uid BY <1>1, Holds
    <3>4. Shape(m, r) /\ (TakingDown(r) => ~Settled(m)') BY <3>2 DEF Fits, Settled
    <3>5. Creating(r) => InLedger(m)' BY <1>1, <2>2, <3>2 DEF Fits
    <3>6. "removed" \notin FaultKinds /\ Succeeding(r) => Labelled(m)'
      BY <3>2 DEF Fits, Labelled
    <3>7. r.pc = "commit" => projects'[ProjectOf[m]].uid # 0 BY <3>2, <3>3 DEF Fits
    <3>8. Fits(m, r)' BY <3>4, <3>5, <3>6, <3>7 DEF Fits, Shape
    <3> QED BY <2>2, <3>1, <3>8
  <2> QED BY <2>1, <2>2
<1> QED BY <1>1, <1>4, <1>5, <1>6 DEF NInv, Meant, userVars

(* The write is stored or refused, and the worker goes on or starts over.  *)
LEMMA CommitKeeps == ASSUME NInv, NEW n \in Namespaces, Commit(n) PROVE NInv'
<1>1. /\ UNCHANGED <<namespaces, onCluster, nsListed, nsSeen, nsCached, healthVars, userVars,
                     health, loops, requests, edits, faults>>
      /\ nsSync[n].pc = "commit" /\ faults' \in Nat
  BY Types DEF Commit, listerUnchanged, healthVars, userVars
<1>2. IsSync(nsSync[n]) /\ Fits(n, nsSync[n]) BY Holds
<1>3. PICK on, un : /\ on = [nsSync[n] EXCEPT !.pc = "provision", !.write = NoWrite]
                    /\ un = [nsSync[n] EXCEPT !.pc = "unprovision", !.write = NoWrite]
  OBVIOUS
<1>4. /\ IsSync(on) /\ on.pc = "provision" /\ on.write.kind = "none"
      /\ IsSync(un) /\ un.pc = "unprovision" /\ un.write.kind = "none"
  BY <1>2, <1>3, NoWriteType DEF IsSync
<1>5. CASE nsSync[n].write.kind = "uncount" /\ Proceed(n, "unprovision") /\ UNCHANGED nsDirty
  <2>1. TakingDown(nsSync[n]) BY <1>1, <1>5 DEF TakingDown, Writes
  <2>2. Becomes(n, un) BY <1>3, <1>5 DEF Proceed
  <2>3. Fits(n, un) BY <1>4, <2>1, ToUnprovision
  <2>4. CASE Unchanged(n) /\ Store(n)
    <3>1. Fits(n, un)'
      BY <1>1, <1>4, <2>3 DEF Fits, Shape, Writes, TakingDown, Creating, Succeeding, Settled
    <3>2. /\ DOMAIN nsSync' = Namespaces
          /\ \A m \in Namespaces : nsSync'[m] = IF m = n THEN un ELSE nsSync[m]
      BY <2>2 DEF Becomes, NInv, TypeOK
    <3> QED BY <1>1, <1>4, <1>5, <2>4, <3>1, <3>2, Types, LedgerMoves
  <2>5. CASE UNCHANGED projects BY <1>1, <1>4, <1>5, <2>2, <2>3, <2>5, Types, Moves
  <2> QED BY <2>4, <2>5 DEF Commit
<1>6. CASE /\ nsSync[n].write.kind \in {"count", "adjust"}
           /\ Unchanged(n) \/ ~Present(projects[ProjectOf[n]])
           /\ Proceed(n, "provision") /\ UNCHANGED nsDirty
  <2>1. Becomes(n, on) BY <1>3, <1>6 DEF Proceed
  <2>2. CASE Unchanged(n)
    <3>1. Store(n) BY <1>1, <2>2 DEF Commit
    <3>2. InLedger(n)' BY <1>1, <1>6, <2>2, <3>1, LedgerStored
    <3>3. Fits(n, on)'
      BY <1>4, <3>2 DEF Fits, Shape, Writes, TakingDown, Creating, Succeeding, InLedger
    <3>4. /\ DOMAIN nsSync' = Namespaces
          /\ \A m \in Namespaces : nsSync'[m] = IF m = n THEN on ELSE nsSync[m]
      BY <2>1 DEF Becomes, NInv, TypeOK
    <3> QED BY <1>1, <1>4, <1>6, <2>2, <3>1, <3>3, <3>4, Types, LedgerMoves
  <2>3. CASE ~Unchanged(n)
    <3>1. UNCHANGED projects /\ ~Present(projects[ProjectOf[n]])
      BY <1>1, <1>6, <2>3 DEF Commit
    <3>2. InLedger(n) BY <1>1, <1>2, <3>1 DEF InLedger, Standing, Present, Fits
    <3>3. Fits(n, on)
      BY <1>4, <3>2 DEF Fits, Shape, Writes, TakingDown, Creating, Succeeding
    <3> QED BY <1>1, <1>4, <1>6, <2>1, <3>1, <3>3, Types, Moves
  <2> QED BY <2>2, <2>3
<1>7. CASE /\ nsSync[n].write.kind \in {"count", "adjust"}
           /\ ~Unchanged(n) /\ Present(projects[ProjectOf[n]])
           /\ Requeue(n)
  <2>1. Done(n) /\ nsDirty' \subseteq Namespaces /\ UNCHANGED projects
    BY <1>7, Types DEF Requeue, Commit
  <2> QED BY <1>1, <2>1, Types, Ends
<1> QED BY <1>5, <1>6, <1>7 DEF Commit

------------------------------------------------------------------------------
(* The health loops.                                                       *)

(* A step that only moves a loop.                                          *)
LEMMA LoopMoves ==
    ASSUME NInv, NEW n \in Namespaces, NEW i \in Slots, NEW l, IsLoop(l),
           loops' = [loops EXCEPT ![n][i] = l], health' \subseteq Namespaces,
           UNCHANGED <<projects, namespaces, onCluster, workerVars, userVars, faults>>
    PROVE  NInv'
<1>1. /\ DOMAIN loops' = Namespaces
      /\ \A m \in Namespaces :
             DOMAIN loops'[m] = Slots /\ \A j \in Slots : IsLoop(loops'[m][j])
  BY LoopType
<1>2. TypeOK' BY <1>1 DEF NInv, TypeOK, workerVars, userVars, IsLoop
<1> QED BY <1>2 DEF NInv, Kept, Fits, Shape, Settled, InLedger, Labelled, Meant, workerVars,
                    userVars

(* A loop reads the namespace, or ends.                                    *)
LEMMA TickKeeps ==
    ASSUME NInv, NEW n \in Namespaces, NEW i \in Slots, Tick(n, i) PROVE NInv'
<1>1. IsLoop([pc |-> "act", obj |-> namespaces[n]])
  <2>1. PICK o : o = namespaces[n] /\ IsNamespace(o) BY Holds
  <2>2. PICK l : l = [pc |-> "act", obj |-> o] OBVIOUS
  <2>3. IsNamespace(l.obj) /\ l \in [pc : {"off", "wait", "act"}, obj : {l.obj}]
    BY <2>1, <2>2
  <2> QED BY <2>1, <2>2, <2>3 DEF IsLoop
<1>2. PICK l : IsLoop(l) /\ loops' = [loops EXCEPT ![n][i] = l]
  BY <1>1, OffType DEF Tick
<1>3. /\ UNCHANGED <<projects, namespaces, onCluster, workerVars, userVars, faults>>
      /\ health' \subseteq Namespaces
  BY Types DEF Tick, storeUnchanged
<1> QED BY <1>2, <1>3, LoopMoves

(* What a loop makes of a namespace differs in phase and usage only.       *)
LEMMA JudgedTypes ==
    ASSUME NEW n \in Namespaces, NEW obj, IsNamespace(obj), NEW new \in Judged(n, obj)
    PROVE  /\ IsNamespace(new) /\ new.uid = obj.uid /\ new.hard = obj.hard
           /\ new.phase = IF SoundOnCluster(n) THEN "Available" ELSE "Failed"
<1>1. CASE SoundOnCluster(n)
  <2>1. PICK used \in Usages : new = [obj EXCEPT !.phase = "Available", !.used = used]
    BY <1>1 DEF Judged
  <2>2. IsLedger(used) BY NamespaceAssumption
  <2> QED BY <1>1, <2>1, <2>2 DEF IsNamespace
<1>2. CASE ~SoundOnCluster(n)
  <2>1. new = [obj EXCEPT !.phase = "Failed"] BY <1>2 DEF Judged
  <2> QED BY <1>2, <2>1 DEF IsNamespace
<1> QED BY <1>1, <1>2

(* A loop stores what it found on the cluster: the object it read was      *)
(* settled and, being what is stored still, is counted.                    *)
LEMMA CheckHealthKeeps ==
    ASSUME NInv, NEW n \in Namespaces, NEW i \in Slots, CheckHealth(n, i) PROVE NInv'
<1> DEFINE obj == loops[n][i].obj
<1>1. /\ UNCHANGED <<projects, onCluster, workerVars, userVars, faults>>
      /\ health' \subseteq Namespaces
  BY Types DEF CheckHealth
<1>2. PICK l : IsLoop(l) /\ loops' = [loops EXCEPT ![n][i] = l]
  BY OffType DEF CheckHealth
<1>3. CASE UNCHANGED namespaces BY <1>1, <1>2, <1>3, LoopMoves
<1>4. ASSUME NEW new \in Judged(n, obj), obj.phase \in {"Available", "Failed"}, Fresh(n, obj),
             namespaces' = [namespaces EXCEPT ![n] = new]
      PROVE  NInv'
  <2>1. Settled(n) /\ IsNamespace(obj) BY <1>4, Holds DEF Fresh, Settled
  <2> HIDE DEF obj
  <2>2. /\ IsNamespace(new)
        /\ new.phase = IF SoundOnCluster(n) THEN "Available" ELSE "Failed"
    BY <1>4, <2>1, JudgedTypes
  <2>3. Earned(n, new)
    BY <2>1, <2>2, Holds DEF Earned, Kept, SoundOnCluster, Labelled
  <2>4. ~TakingDown(nsSync[n]) BY <2>1, Holds DEF Fits
  <2>5. /\ DOMAIN loops' = Namespaces
        /\ \A m \in Namespaces :
               DOMAIN loops'[m] = Slots /\ \A j \in Slots : IsLoop(loops'[m][j])
    BY <1>2, LoopType
  <2>6. requests' \subseteq requests /\ edits' \in Nat /\ faults' \in Nat
    BY <1>1, Types DEF userVars
  <2> QED BY <1>1, <1>4, <2>2, <2>3, <2>4, <2>5, <2>6, StoredBeside
<1> QED BY <1>3, <1>4 DEF CheckHealth

------------------------------------------------------------------------------
(* Faults.                                                                 *)

(* A call fails: the sync starts over or, in the deleter, goes on.         *)
LEMMA CallFailsKeeps == ASSUME NInv, NEW n \in Namespaces, CallFails(n) PROVE NInv'
<1>1. /\ UNCHANGED <<projects, namespaces, onCluster, nsListed, nsSeen, nsCached, health, loops,
                     requests, edits>>
      /\ faults' \in Nat
  BY Types DEF CallFails, Fault, listerUnchanged, healthVars, userVars
<1>2. CASE Requeue(n)
  <2>1. Done(n) /\ nsDirty' \subseteq Namespaces BY <1>2, Types DEF Requeue
  <2> QED BY <1>1, <2>1, Types, Ends
<1>3. CASE /\ nsSync[n].pc = "uncount" \/ nsSync[n].write.kind = "uncount"
           /\ Proceed(n, "unprovision") /\ UNCHANGED nsDirty
  <2>1. PICK s : s = [nsSync[n] EXCEPT !.pc = "unprovision", !.write = NoWrite] OBVIOUS
  <2>2. IsSync(nsSync[n]) /\ Fits(n, nsSync[n]) BY Holds
  <2>3. IsSync(s) /\ s.pc = "unprovision" /\ s.write.kind = "none"
    BY <2>1, <2>2, NoWriteType DEF IsSync
  <2>4. TakingDown(nsSync[n])
    BY <1>3, <2>2 DEF TakingDown, Writes, Fits, Shape
  <2>5. Fits(n, s) BY <2>3, <2>4, ToUnprovision
  <2>6. Becomes(n, s) BY <1>3, <2>1 DEF Proceed
  <2> QED BY <1>1, <1>3, <2>3, <2>5, <2>6, Types, Moves
<1> QED BY <1>2, <1>3 DEF CallFails

(* A write is stored and the worker still waits for the answer.            *)
LEMMA CommitLostKeeps == ASSUME NInv, NEW n \in Namespaces, CommitLost(n) PROVE NInv'
<1>1. /\ UNCHANGED <<onCluster, workerVars, healthVars, userVars>> /\ faults' \in Nat
  BY Types DEF CommitLost, Fault
<1>2. CASE nsSync[n].pc = "commit" /\ Unchanged(n) /\ Store(n) /\ UNCHANGED namespaces
  <2>1. PICK s : s = nsSync[n] OBVIOUS
  <2>2. IsSync(s) /\ Fits(n, s) /\ s.pc = "commit" BY <1>2, <2>1, Holds
  <2>3. Fits(n, s)'
    <3>1. projects'[ProjectOf[n]].uid = projects[ProjectOf[n]].uid
      BY <1>2, <2>1, <2>2, LedgerStored, Holds
    <3>2. projects'[ProjectOf[n]].uid # 0 BY <2>2, <3>1 DEF Fits
    <3> QED BY <1>1, <1>2, <2>2, <3>2 DEF Fits, Shape, Settled, Creating, Succeeding
  <2>4. /\ DOMAIN nsSync' = Namespaces
        /\ \A m \in Namespaces : nsSync'[m] = IF m = n THEN s ELSE nsSync[m]
    BY <1>1, <2>1 DEF workerVars, NInv, TypeOK
  <2>5. UNCHANGED <<nsListed, nsSeen, nsCached>> /\ nsDirty' \subseteq Namespaces
    BY <1>1, Types DEF workerVars
  <2> QED BY <1>1, <1>2, <2>2, <2>3, <2>4, <2>5, LedgerMoves
<1>3. CASE /\ nsSync[n].pc = "store" /\ Fresh(n, nsSync[n].obj)
           /\ namespaces' = [namespaces EXCEPT ![n] = Reported(n)] /\ UNCHANGED projects
  <2>1. PICK obj : obj = Reported(n) OBVIOUS
  <2>2. IsNamespace(obj) /\ Earned(n, obj) BY <1>3, <2>1, ReportEarned
  <2>3. ~TakingDown(nsSync[n]) BY <1>3 DEF TakingDown, Writes
  <2>4. /\ health' \subseteq Namespaces /\ DOMAIN loops' = Namespaces
        /\ \A m \in Namespaces :
               DOMAIN loops'[m] = Slots /\ \A j \in Slots : IsLoop(loops'[m][j])
    BY <1>1 DEF NInv, TypeOK, healthVars
  <2>5. requests' \subseteq requests /\ edits' \in Nat BY <1>1, Types DEF userVars
  <2> QED BY <1>1, <1>3, <2>1, <2>2, <2>3, <2>4, <2>5, StoredBeside
<1> QED BY <1>2, <1>3 DEF CommitLost

(* A call to the business cluster fails.                                   *)
LEMMA ClusterFailsKeeps == ASSUME NInv, NEW n \in Namespaces, ClusterFails(n) PROVE NInv'
<1>1. /\ UNCHANGED <<projects, namespaces, onCluster, nsListed, nsSeen, nsDirty, nsCached,
                     health, loops, requests, edits>>
      /\ faults' \in Nat
  BY Types DEF ClusterFails, Fault, listerUnchanged, healthVars, userVars
<1>2. nsSync[n].pc # "commit" => nsSync[n].write.kind = "none"
  BY Holds DEF Fits, Shape
<1>3. CASE /\ nsSync[n].pc \in {"provision", "quota"}
           /\ Becomes(n, [nsSync[n] EXCEPT !.pc = "report", !.next = "Failed"])
  <2> DEFINE s == [nsSync[n] EXCEPT !.pc = "report", !.next = "Failed"]
  <2>1. IsSync(s) /\ s.pc = "report" /\ s.next = "Failed" /\ s.write = nsSync[n].write
    BY Holds DEF IsSync
  <2>2. Becomes(n, s) BY <1>3
  <2> HIDE DEF s
  <2>3. Fits(n, s) BY <1>3, <2>1, CreatingOn DEF Creating, Succeeding
  <2> QED BY <1>1, <2>1, <2>2, <2>3, Types, Moves
<1>4. CASE nsSync[n].pc = "unprovision" /\ Step(n, "finalize")
  <2> DEFINE s == [nsSync[n] EXCEPT !.pc = "finalize"]
  <2>1. IsSync(s) /\ s.pc = "finalize" /\ s.write = nsSync[n].write BY Holds DEF IsSync
  <2>2. Becomes(n, s) BY <1>4 DEF Step
  <2> HIDE DEF s
  <2>3. Fits(n, s)
    BY <1>2, <1>4, <2>1 DEF Fits, Shape, Writes, TakingDown, Creating, Succeeding
  <2> QED BY <1>1, <2>1, <2>2, <2>3, Types, Moves
<1> QED BY <1>3, <1>4 DEF ClusterFails

(* Others remove a namespace of a cluster; nothing is said of the labels   *)
(* then.                                                                   *)
LEMMA RemovedKeeps == ASSUME NInv, NEW t \in Targets, Removed(t) PROVE NInv'
<1>1. /\ UNCHANGED <<projects, namespaces, workerVars, healthVars, userVars>>
      /\ faults' \in Nat /\ "removed" \in FaultKinds
      /\ onCluster' = [onCluster EXCEPT ![t] = Missing]
  BY Types DEF Removed, Fault
<1>2. IsOnCluster(Missing) BY DEF IsOnCluster, Missing
<1>3. DOMAIN onCluster' = Targets /\ \A d \in Targets : IsOnCluster(onCluster'[d])
  BY <1>1, <1>2 DEF NInv, TypeOK
<1>4. TypeOK'
  BY <1>1, <1>3 DEF NInv, TypeOK, workerVars, healthVars, userVars, IsOnCluster
<1> QED BY <1>1, <1>4
        DEF NInv, Kept, Fits, Shape, Settled, InLedger, Meant, workerVars, userVars

(* The namespaces of a project are taken out of the store.                 *)
LEMMA PurgedKeeps == ASSUME NInv, NEW p \in Projects, Purged(p) PROVE NInv'
<1>1. /\ UNCHANGED <<projects, onCluster, workerVars, healthVars, userVars>> /\ faults' \in Nat
  BY Types DEF Purged, Fault
<1>2. /\ DOMAIN namespaces' = Namespaces
      /\ \A n \in Namespaces :
             namespaces'[n] = IF ProjectOf[n] = p THEN NoNamespace(namespaces[n].uid)
                                                  ELSE namespaces[n]
  BY DEF Purged
<1>3. ASSUME NEW n \in Namespaces
      PROVE  /\ IsNamespace(namespaces'[n])
             /\ Settled(n)' => Settled(n)
             /\ namespaces'[n].phase = "Available" => namespaces[n].phase = "Available"
  <2>1. IsNamespace(NoNamespace(namespaces[n].uid)) BY Holds, NoObjects DEF IsNamespace
  <2>2. NoNamespace(namespaces[n].uid).phase = "Absent" BY DEF NoNamespace
  <2> QED BY <1>2, <2>1, <2>2, Holds DEF Settled
<1>4. TypeOK'
  BY <1>1, <1>2, <1>3 DEF NInv, TypeOK, workerVars, healthVars, userVars, IsNamespace
<1>5. ASSUME NEW n \in Namespaces PROVE Kept(n)' /\ Fits(n, nsSync[n])'
  <2>1. Kept(n)' BY <1>1, <1>3, Holds DEF Kept, InLedger, Labelled
  <2>2. PICK r : r = nsSync[n] OBVIOUS
  <2>3. Fits(n, r) BY <2>2, Holds
  <2>4. Fits(n, r)' BY <1>1, <1>3, <2>3 DEF Fits, Shape, InLedger, Labelled
  <2>5. nsSync'[n] = r BY <1>1, <2>2 DEF workerVars
  <2> QED BY <2>1, <2>4, <2>5
<1> QED BY <1>1, <1>4, <1>5 DEF NInv, Meant, userVars

(* The controller stops and its successor starts with what is stored.      *)
LEMMA RestartKeeps == ASSUME NInv, Restart PROVE NInv'
<1>1. /\ UNCHANGED <<projects, namespaces, onCluster, userVars>> /\ faults' \in Nat
  BY Types DEF Restart, Fault
<1>2. DOMAIN nsListed' = Namespaces /\ \A n \in Namespaces : IsNamespace(nsListed'[n])
  BY DEF Restart, NInv, TypeOK
<1>3. nsSeen' \in [Namespaces -> Phases] BY Holds DEF Restart, IsNamespace, Phases
<1>4. /\ nsDirty' \subseteq Namespaces /\ Caches(nsCached')
      /\ health' \subseteq Namespaces
  BY NoStateType DEF Restart, Caches
<1>5. ASSUME NEW n \in Namespaces PROVE IsSync(nsSync[n])' /\ Fits(n, nsSync[n])'
  <2>1. PICK r : r = Idle OBVIOUS
  <2>2. IsSync(r) /\ Fits(n, r) BY <2>1, IdleFits
  <2>3. Fits(n, r)' BY <1>1, <2>2 DEF Fits, Shape, Settled, InLedger, Labelled
  <2>4. nsSync'[n] = r BY <2>1 DEF Restart
  <2> QED BY <2>2, <2>3, <2>4 DEF IsSync, IsWrite
<1>6. /\ DOMAIN loops' = Namespaces
      /\ \A n \in Namespaces :
             DOMAIN loops'[n] = Slots /\ \A i \in Slots : IsLoop(loops'[n][i])
  BY OffType DEF Restart
<1>7. DOMAIN nsSync' = Namespaces BY DEF Restart
<1>8. TypeOK'
  BY <1>1, <1>2, <1>3, <1>4, <1>5, <1>6, <1>7
  DEF NInv, TypeOK, userVars, IsLoop, IsNamespace, Caches, IsState
<1> QED BY <1>1, <1>5, <1>8 DEF NInv, Kept, Settled, InLedger, Labelled, Meant, userVars

------------------------------------------------------------------------------
(* Users.                                                                  *)

(* A user has a write admitted.                                            *)
LEMMA Admitted ==
    ASSUME NInv, NEW r, IsRequest(r), Meant(r), requests' = requests \cup {r}, edits' \in Nat,
           UNCHANGED <<projects, namespaces, onCluster, workerVars, healthVars, faults>>
    PROVE  NInv'
<1>1. \A q \in requests' : IsRequest(q) /\ Meant(q) BY DEF NInv, TypeOK
<1>2. TypeOK' BY <1>1 DEF NInv, TypeOK, workerVars, healthVars, IsRequest
<1> QED BY <1>1, <1>2
        DEF NInv, Kept, Fits, Shape, Settled, InLedger, Labelled, Meant, workerVars

(* A user's request is one if what it carries are namespaces.              *)
LEMMA RequestType ==
    ASSUME NEW u \in Users, NEW n \in Namespaces, NEW base, NEW new,
           IsNamespace(base), IsNamespace(new)
    PROVE  LET r == [user |-> u, target |-> n, base |-> base, new |-> new]
           IN  IsRequest(r) /\ r.base = base /\ r.new = new
BY DEF IsRequest

(* A create is admitted.                                                   *)
LEMMA NsCreateKeeps ==
    ASSUME NInv, NEW u \in Users, NEW n \in Namespaces, NsCreate(u, n) PROVE NInv'
<1>1. /\ UNCHANGED <<projects, namespaces, onCluster, workerVars, healthVars, faults>>
      /\ edits' \in Nat
  BY Types DEF NsCreate
<1>2. PICK hard \in NsQuotas :
          requests' = requests \cup {[user |-> u, target |-> n, base |-> namespaces[n],
                                      new |-> NewNamespace(n, hard)]}
  BY DEF NsCreate
<1>3. PICK base, new : base = namespaces[n] /\ new = NewNamespace(n, hard) OBVIOUS
<1>4. IsNamespace(base) /\ IsLedger(hard) /\ IsLedger(Nothing)
  BY <1>3, Holds, NamespaceAssumption DEF IsLedger, Nothing
<1>5. IsNamespace(new) /\ new.phase = "Pending"
  BY <1>3, <1>4 DEF NewNamespace, IsNamespace
<1>6. PICK r : r = [user |-> u, target |-> n, base |-> base, new |-> new] OBVIOUS
<1>7. IsRequest(r) /\ r.new = new BY <1>4, <1>5, <1>6, RequestType
<1>8. Meant(r) BY <1>5, <1>7 DEF Meant
<1> QED BY <1>1, <1>2, <1>3, <1>6, <1>7, <1>8, Admitted

(* An update of the quota is admitted.                                     *)
LEMMA NsUpdateKeeps ==
    ASSUME NInv, NEW u \in Users, NEW n \in Namespaces, NsUpdate(u, n) PROVE NInv'
<1>1. /\ UNCHANGED <<projects, namespaces, onCluster, workerVars, healthVars, faults>>
      /\ edits' \in Nat
  BY Types DEF NsUpdate
<1>2. PICK hard \in NsQuotas :
          requests' = requests \cup {[user |-> u, target |-> n, base |-> namespaces[n],
                                      new |-> [namespaces[n] EXCEPT !.hard = hard]]}
  BY DEF NsUpdate
<1>3. PICK base, new : base = namespaces[n] /\ new = [base EXCEPT !.hard = hard] OBVIOUS
<1>4. IsNamespace(base) /\ IsLedger(hard) BY <1>3, Holds, NamespaceAssumption
<1>5. IsNamespace(new) /\ new.phase = base.phase BY <1>3, <1>4 DEF IsNamespace
<1>6. PICK r : r = [user |-> u, target |-> n, base |-> base, new |-> new] OBVIOUS
<1>7. IsRequest(r) /\ r.new = new /\ r.base = base BY <1>4, <1>5, <1>6, RequestType
<1>8. Meant(r) BY <1>5, <1>7 DEF Meant
<1> QED BY <1>1, <1>2, <1>3, <1>6, <1>7, <1>8, Admitted

(* A user's write is stored unless the namespace has changed: it keeps the *)
(* phase that is stored, or starts a new life.                             *)
LEMMA NsCommitKeeps == ASSUME NInv, NEW u \in Users, NsCommit(u) PROVE NInv'
<1>1. PICK r \in requests :
          /\ requests' = requests \ {r}
          /\ namespaces' = IF Fresh(r.target, r.base)
                           THEN [namespaces EXCEPT ![r.target] = r.new] ELSE namespaces
  BY DEF NsCommit
<1>2. UNCHANGED <<projects, onCluster, workerVars, healthVars, edits, faults>>
  BY DEF NsCommit
<1>3. IsRequest(r) /\ Meant(r) BY DEF NInv, TypeOK
<1>4. r.target \in Namespaces /\ IsNamespace(r.new) BY <1>3 DEF IsRequest
<1>5. CASE UNCHANGED namespaces
  <2>1. TypeOK' BY <1>1, <1>2, <1>5 DEF NInv, TypeOK, workerVars, healthVars
  <2> QED BY <1>1, <1>2, <1>5, <2>1
          DEF NInv, Kept, Fits, Shape, Settled, InLedger, Labelled, Meant, workerVars
<1>6. CASE /\ Fresh(r.target, r.base)
           /\ namespaces' = [namespaces EXCEPT ![r.target] = r.new]
  <2>1. PICK n, obj : n = r.target /\ obj = r.new OBVIOUS
  <2>2. n \in Namespaces /\ IsNamespace(obj) BY <1>4, <2>1
  <2>3. obj.phase = namespaces[n].phase \/ obj.phase = "Pending"
    BY <1>3, <1>6, <2>1 DEF Meant, Fresh
  <2>4. Earned(n, obj) BY <2>2, <2>3, Holds DEF Earned, Kept, Settled
  <2>5. TakingDown(nsSync[n]) => obj.phase \notin {"Available", "Failed"}
    BY <2>2, <2>3, Holds DEF Fits, Settled
  <2>6. /\ health' \subseteq Namespaces /\ DOMAIN loops' = Namespaces
        /\ \A m \in Namespaces :
               DOMAIN loops'[m] = Slots /\ \A j \in Slots : IsLoop(loops'[m][j])
    BY <1>2 DEF NInv, TypeOK, healthVars
  <2>7. requests' \subseteq requests /\ edits' \in Nat /\ faults' \in Nat
    BY <1>1, <1>2, Types
  <2> QED BY <1>2, <1>6, <2>1, <2>2, <2>4, <2>5, <2>6, <2>7, StoredBeside
<1> QED BY <1>1, <1>5, <1>6

(* A namespace is deleted.                                                 *)
LEMMA NsDeleteKeeps == ASSUME NInv, NEW n \in Namespaces, NsDelete(n) PROVE NInv'
<1>1. PICK obj : obj = [namespaces[n] EXCEPT !.phase = "Terminating"] OBVIOUS
<1>2. IsNamespace(obj) /\ obj.phase = "Terminating" BY <1>1, Holds DEF IsNamespace
<1>3. namespaces' = [namespaces EXCEPT ![n] = obj]
  BY <1>1, Holds DEF NsDelete, NInv, TypeOK
<1>4. UNCHANGED <<projects, onCluster, workerVars, healthVars, userVars, faults>>
  BY DEF NsDelete
<1>5. Earned(n, obj) BY <1>2 DEF Earned
<1>6. /\ health' \subseteq Namespaces /\ DOMAIN loops' = Namespaces
      /\ \A m \in Namespaces :
             DOMAIN loops'[m] = Slots /\ \A j \in Slots : IsLoop(loops'[m][j])
  BY <1>4 DEF NInv, TypeOK, healthVars
<1>7. requests' \subseteq requests /\ edits' \in Nat /\ faults' \in Nat
  BY <1>4, Types DEF userVars
<1> QED BY <1>2, <1>3, <1>4, <1>5, <1>6, <1>7, StoredBeside

------------------------------------------------------------------------------
(* The invariant.                                                          *)

(* It holds at the start, whatever well-formed projects there are.         *)
LEMMA StartKeeps ==
    ASSUME StartsEmpty, DOMAIN projects = Projects,
           \A p \in Projects :
               IsProject(projects[p]) /\ (Present(projects[p]) => projects[p].uid # 0)
    PROVE  NInv
<1>1. \A n \in Namespaces : IsNamespace(NoNamespace(0)) /\ NoNamespace(0).phase = "Absent"
  BY NoObjects DEF NoNamespace
<1>2. /\ DOMAIN namespaces = Namespaces /\ DOMAIN nsListed = Namespaces
      /\ \A n \in Namespaces : /\ IsNamespace(namespaces[n]) /\ IsNamespace(nsListed[n])
                               /\ namespaces[n].phase = "Absent"
  BY <1>1 DEF StartsEmpty
<1>3. DOMAIN onCluster = Targets /\ \A t \in Targets : IsOnCluster(onCluster[t])
  <2>1. IsOnCluster(Missing) /\ IsOnCluster(Unlabelled)
    BY DEF IsOnCluster, Missing, Unlabelled
  <2> QED BY <2>1 DEF StartsEmpty
<1>4. /\ DOMAIN nsSync = Namespaces
      /\ \A n \in Namespaces : IsSync(nsSync[n]) /\ Fits(n, nsSync[n])
  BY IdleFits DEF StartsEmpty
<1>5. /\ DOMAIN loops = Namespaces
      /\ \A n \in Namespaces :
             DOMAIN loops[n] = Slots /\ \A i \in Slots : IsLoop(loops[n][i])
  BY OffType DEF StartsEmpty
<1>6. /\ nsSeen \in [Namespaces -> Phases] /\ nsDirty = {} /\ health = {} /\ requests = {}
      /\ Caches(nsCached) /\ edits = 0 /\ faults = 0
  BY NoStateType DEF StartsEmpty, Phases, Caches
<1>7. TypeOK BY <1>2, <1>3, <1>4, <1>5, <1>6 DEF TypeOK, Caches
<1>8. \A n \in Namespaces : Kept(n) BY <1>2 DEF Kept, Settled
<1> QED BY <1>4, <1>6, <1>7, <1>8 DEF NInv

(* The projects of Init are such projects, and have handed out nothing.    *)
LEMMA InitProjects ==
    ASSUME Init
    PROVE  /\ StartsEmpty /\ DOMAIN projects = Projects
           /\ \A p \in Projects :
                 /\ IsProject(projects[p]) /\ projects[p].phase = "Active"
                 /\ projects[p].uid = 1
                 /\ projects[p].nss = {} /\ projects[p].used = Nothing
<1>1. StartsEmpty /\ DOMAIN projects = Projects BY DEF Init
<1>2. ASSUME NEW p \in Projects
      PROVE  /\ IsProject(projects[p]) /\ projects[p].phase = "Active" /\ projects[p].uid = 1
             /\ projects[p].nss = {} /\ projects[p].used = Nothing
  <2>1. PICK q \in ProjectQuotas :
            projects[p] = [NoObject(1) EXCEPT !.phase = "Active", !.fin = TRUE,
                                              !.bound = Clusters, !.hard = q]
    BY DEF Init
  <2>2. IsLedger(q) BY NamespaceAssumption
  <2>3. projects[p] = [phase |-> "Active", uid |-> 1, fin |-> TRUE, locked |-> FALSE,
                       bound |-> Clusters, hard |-> q, used |-> Nothing, kids |-> {},
                       nss |-> {}]
    BY <2>1 DEF NoObject
  <2>4. PICK obj : obj = projects[p] OBVIOUS
  <2>5. /\ obj.phase = "Active" /\ obj.uid = 1 /\ obj.hard = q /\ obj.used = Nothing
        /\ obj.nss = {}
        /\ obj \in [phase : {"Absent", "Active", "Terminating"}, uid : Nat, fin : BOOLEAN,
                    locked : BOOLEAN, bound : SUBSET Clusters, hard : {obj.hard},
                    used : {obj.used}, kids : SUBSET Projects, nss : SUBSET Namespaces]
    BY <2>3, <2>4
  <2>6. IsLedger(Nothing) BY DEF IsLedger, Nothing
  <2> QED BY <2>2, <2>4, <2>5, <2>6 DEF IsProject
<1> QED BY <1>1, <1>2

LEMMA InitKeeps == Init => NInv
BY InitProjects, StartKeeps

(* Every step keeps it.                                                    *)
LEMMA NextKeeps == NInv /\ [Next]_vars => NInv'
<1> SUFFICES ASSUME NInv, [Next]_vars PROVE NInv' OBVIOUS
<1>1. ASSUME NEW n \in Namespaces, Deliver(n) PROVE NInv' BY <1>1, DeliverKeeps
<1>2. ASSUME NEW n \in Namespaces, Work(n) PROVE NInv'
  <2>1. CASE SyncGone(n) BY <2>1, SyncGoneKeeps
  <2>2. CASE SyncTerminating(n) BY <2>2, SyncTerminatingKeeps
  <2>3. CASE SyncPending(n) BY <2>3, SyncPendingKeeps
  <2>4. CASE SyncSettled(n) BY <2>4, SyncSettledKeeps
  <2>5. CASE CountNamespace(n) BY <2>5, CountNamespaceKeeps
  <2>6. CASE Commit(n) BY <2>6, CommitKeeps
  <2>7. CASE Provision(n) BY <2>7, ProvisionKeeps
  <2>8. CASE PushQuota(n) BY <2>8, PushQuotaKeeps
  <2>9. CASE ReportPhase(n) BY <2>9, ReportPhaseKeeps
  <2>10. CASE StorePhase(n) BY <2>10, StorePhaseKeeps
  <2>11. CASE GetDoomed(n) BY <2>11, GetDoomedKeeps
  <2>12. CASE UncountNamespace(n) BY <2>12, UncountNamespaceKeeps
  <2>13. CASE Unprovision(n) BY <2>13, UnprovisionKeeps
  <2>14. CASE FinalizeNamespace(n) BY <2>14, FinalizeNamespaceKeeps
  <2> QED BY <1>2, <2>1, <2>2, <2>3, <2>4, <2>5, <2>6, <2>7, <2>8, <2>9, <2>10, <2>11,
             <2>12, <2>13, <2>14 DEF Work
<1>3. ASSUME NEW n \in Namespaces, Watch(n) PROVE NInv'
  BY <1>3, TickKeeps, CheckHealthKeeps DEF Watch
<1>4. ASSUME NEW u \in Users, NsCommit(u) PROVE NInv' BY <1>4, NsCommitKeeps
<1>5. CASE Failure
  <2>1. CASE Restart BY <2>1, RestartKeeps
  <2>2. ASSUME NEW n \in Namespaces, CallFails(n) PROVE NInv' BY <2>2, CallFailsKeeps
  <2>3. ASSUME NEW n \in Namespaces, CommitLost(n) PROVE NInv' BY <2>3, CommitLostKeeps
  <2>4. ASSUME NEW n \in Namespaces, ClusterFails(n) PROVE NInv' BY <2>4, ClusterFailsKeeps
  <2>5. ASSUME NEW t \in Targets, Removed(t) PROVE NInv' BY <2>5, RemovedKeeps
  <2>6. ASSUME NEW p \in Projects, Purged(p) PROVE NInv' BY <2>6, PurgedKeeps
  <2> QED BY <1>5, <2>1, <2>2, <2>3, <2>4, <2>5, <2>6 DEF Failure
<1>6. CASE Environment
  <2>1. ASSUME NEW n \in Namespaces, NsDelete(n) PROVE NInv' BY <2>1, NsDeleteKeeps
  <2>2. ASSUME NEW n \in Namespaces, NEW u \in Users, NsCreate(u, n) PROVE NInv'
    BY <2>2, NsCreateKeeps
  <2>3. ASSUME NEW n \in Namespaces, NEW u \in Users, NsUpdate(u, n) PROVE NInv'
    BY <2>3, NsUpdateKeeps
  <2> QED BY <1>6, <2>1, <2>2, <2>3 DEF Environment
<1>7. CASE UNCHANGED vars
  <2>1. UNCHANGED <<projects, namespaces, onCluster, workerVars, healthVars, userVars, faults>>
    BY <1>7 DEF vars
  <2>2. TypeOK' BY <2>1 DEF NInv, TypeOK, workerVars, healthVars, userVars
  <2> QED BY <2>1, <2>2
          DEF NInv, Kept, Fits, Shape, Settled, InLedger, Labelled, Meant, workerVars, userVars
<1> QED BY <1>1, <1>2, <1>3, <1>4, <1>5, <1>6, <1>7 DEF Next

(* The invariant holds always.                                             *)
THEOREM Invariant == Spec => []NInv
BY InitKeeps, NextKeeps, PTL DEF Spec

(* The variables have their types.                                         *)
THEOREM TypeCorrect == Spec => []TypeOK
<1>1. NInv => TypeOK BY DEF NInv
<1> QED BY <1>1, Invariant, PTL

(* The worker of n has its write of the ledger stored.                     *)
Posts(n) == nsSync[n].pc = "commit" /\ Unchanged(n) /\ Store(n)

(* The controller and its users write projects in no other way.            *)
LEMMA OnlyPosts ==
    ASSUME [Next]_vars PROVE UNCHANGED projects \/ \E n \in Namespaces : Posts(n)
<1>1. ASSUME NEW n \in Namespaces, Work(n)
      PROVE  UNCHANGED projects \/ \E m \in Namespaces : Posts(m)
  <2>1. CASE Commit(n) BY <2>1 DEF Commit, Posts
  <2>2. CASE SyncGone(n) \/ SyncTerminating(n) \/ SyncPending(n) \/ SyncSettled(n)
    BY <2>2 DEF SyncGone, SyncTerminating, SyncPending, SyncSettled, Take, storeUnchanged
  <2>3. CASE CountNamespace(n) \/ UncountNamespace(n) \/ GetDoomed(n) \/ FinalizeNamespace(n)
    BY <2>3 DEF CountNamespace, UncountNamespace, GetDoomed, FinalizeNamespace, storeUnchanged
  <2>4. CASE Provision(n) \/ PushQuota(n) \/ ReportPhase(n) \/ StorePhase(n) \/ Unprovision(n)
    BY <2>4 DEF Provision, PushQuota, ReportPhase, StorePhase, Unprovision, storeUnchanged
  <2> QED BY <1>1, <2>1, <2>2, <2>3, <2>4 DEF Work
<1>2. ASSUME NEW n \in Namespaces, Deliver(n) \/ Watch(n) PROVE UNCHANGED projects
  BY <1>2 DEF Deliver, Watch, Tick, CheckHealth, storeUnchanged
<1>3. CASE Failure
  BY <1>3 DEF Failure, Restart, CallFails, CommitLost, Posts, ClusterFails, Removed, Purged
<1>4. ASSUME NEW u \in Users, NsCommit(u) PROVE UNCHANGED projects BY <1>4 DEF NsCommit
<1>5. CASE Environment BY <1>5 DEF Environment, NsDelete, NsCreate, NsUpdate
<1>6. CASE UNCHANGED vars BY <1>6 DEF vars
<1> QED BY <1>1, <1>2, <1>3, <1>4, <1>5, <1>6 DEF Next

(* What such a write stores.                                               *)
LEMMA PostsTo ==
    ASSUME NInv, NEW n \in Namespaces, Posts(n)
    PROVE  LET q == ProjectOf[n]
           IN  /\ q \in Projects /\ DOMAIN projects' = Projects
               /\ IsProject(projects'[q]) /\ Posting(projects[q], projects'[q])
               /\ \A p \in Projects : p # q => projects'[p] = projects[p]
<1> DEFINE w == nsSync[n].write
           q == ProjectOf[n]
<1>1. /\ IsSync(nsSync[n]) /\ Shape(n, nsSync[n]) /\ q \in Projects
  BY Holds DEF Fits
<1>2. IsProject(w.new) /\ Posting(w.base, w.new)
  BY <1>1 DEF IsSync, IsWrite, Shape, Posts
<1>3. projects[q] = w.base /\ projects' = [projects EXCEPT ![q] = w.new]
  BY DEF Posts, Unchanged, Store
<1> HIDE DEF w, q
<1>4. DOMAIN projects' = Projects
      /\ \A p \in Projects : projects'[p] = IF p = q THEN w.new ELSE projects[p]
  BY <1>3 DEF NInv, TypeOK
<1> QED BY <1>1, <1>2, <1>3, <1>4 DEF q

(* A posting leaves the life of the project alone.                         *)
LEMMA PostingLife ==
    ASSUME NEW base, NEW new, IsProject(base), Posting(base, new)
    PROVE  /\ new.phase = base.phase /\ new.uid = base.uid /\ new.fin = base.fin
           /\ new.locked = base.locked /\ new.bound = base.bound /\ new.hard = base.hard
           /\ new.kids = base.kids
BY DEF Posting, IsProject

(* As nobody else writes projects here, they all stay.                     *)
Lasting == \A p \in Projects : Standing(projects[p])

(* No step ends that.                                                      *)
LEMMA LastingKept == NInv /\ Lasting /\ [Next]_vars => Lasting'
<1> SUFFICES ASSUME NInv, Lasting, [Next]_vars PROVE Lasting' OBVIOUS
<1>1. ASSUME NEW n \in Namespaces, Posts(n), NEW p \in Projects PROVE Standing(projects'[p])
  <2>1. PICK q, base, new : q = ProjectOf[n] /\ base = projects[q] /\ new = projects'[q]
    OBVIOUS
  <2>2. q \in Projects /\ Posting(base, new) /\ (p # q => projects'[p] = projects[p])
    BY <1>1, <2>1, PostsTo
  <2>3. IsProject(base) BY <2>1, <2>2 DEF NInv, TypeOK
  <2>4. new.phase = base.phase /\ new.uid = base.uid BY <2>2, <2>3, PostingLife
  <2> QED BY <2>1, <2>2, <2>4 DEF Lasting, Standing
<1>2. CASE UNCHANGED projects BY <1>2 DEF Lasting
<1> QED BY <1>1, <1>2, OnlyPosts DEF Lasting

(* A namespace that was provisioned is in its project's ledger, whatever   *)
(* the workers, the health loops, the users and the faults do, if no       *)
(* namespace of the project has the project's name.                        *)
THEOREM ProvisionedAreCounted == Spec => []ProvisionedIsCounted
<1>1. NInv /\ Lasting => ProvisionedIsCounted
  BY TreeAssumption DEF NInv, Kept, Settled, InLedger, Lasting, ProvisionedIsCounted
<1>2. ASSUME Init, NEW p \in Projects PROVE Standing(projects[p])
  <2>1. PICK q \in ProjectQuotas :
            projects[p] = [NoObject(1) EXCEPT !.phase = "Active", !.fin = TRUE,
                                              !.bound = Clusters, !.hard = q]
    BY <1>2 DEF Init
  <2>2. projects[p].phase = "Active" /\ projects[p].uid = 1 BY <2>1 DEF NoObject
  <2> QED BY <2>2 DEF Standing
<1>3. Init => Lasting BY <1>2 DEF Lasting
<1>4. Spec => []Lasting BY <1>3, LastingKept, Invariant, PTL DEF Spec
<1> QED BY <1>1, <1>4, Invariant, PTL

(* Two available namespaces on one namespace of a cluster are of the same  *)
(* project: the label there is that of both.                               *)
THEOREM OneProjectEach == Spec => []OneProjectPerTarget
<1>1. NInv => OneProjectPerTarget
  BY DEF NInv, Kept, Labelled, OneProjectPerTarget
<1> QED BY <1>1, Invariant, PTL

------------------------------------------------------------------------------
(* The quota on the cluster.  ProvisionedAsAsked is about one step, the    *)
(* one that stores "Available"; what makes it true happens up to three     *)
(* steps earlier.  From the push of the quota on, as long as the label is  *)
(* the project's, the quota there is the one of the worker's copy, and the *)
(* copy is what is stored.                                                 *)

AsPushed(n, s) ==
    Undisturbed(n) /\ s.pc \in {"report", "store"} /\ s.next = "Available" /\ SoundOnCluster(n)
        => onCluster[TargetOf[n]].quota = {s.obj.hard}

QInv == \A n \in Namespaces : AsPushed(n, nsSync[n])

(* Workers and clusters stand still.                                       *)
LEMMA QuotaStays == ASSUME QInv, UNCHANGED <<onCluster, nsSync>> PROVE QInv'
BY DEF QInv, AsPushed, SoundOnCluster

(* One worker moves, the clusters stand still.                             *)
LEMMA QuotaMoves ==
    ASSUME NInv, QInv, NEW n \in Namespaces, NEW s, AsPushed(n, s), Becomes(n, s),
           UNCHANGED onCluster
    PROVE  QInv'
<1>1. \A m \in Namespaces : nsSync'[m] = IF m = n THEN s ELSE nsSync[m]
  BY DEF NInv, TypeOK, Becomes
<1>2. ASSUME NEW m \in Namespaces PROVE AsPushed(m, nsSync[m])'
  <2>1. PICK r : r = IF m = n THEN s ELSE nsSync[m] OBVIOUS
  <2>2. AsPushed(m, r) BY <2>1 DEF QInv
  <2>3. AsPushed(m, r)' BY <2>2 DEF AsPushed, SoundOnCluster
  <2> QED BY <1>1, <2>1, <2>3
<1> QED BY <1>2 DEF QInv

(* A worker that is not about to report success has nothing to keep.       *)
LEMMA QuotaLeft ==
    ASSUME NInv, QInv, NEW n \in Namespaces, NEW s, IsSync(nsSync[n]),
           s.pc \notin {"report", "store"} \/ s.next # "Available", Becomes(n, s),
           UNCHANGED onCluster
    PROVE  QInv'
<1>1. AsPushed(n, s) BY DEF AsPushed
<1> QED BY <1>1, QuotaMoves

(* One worker moves and one namespace of the cluster changes; those that   *)
(* rely on its quota are the worker's own, or lose the label.              *)
LEMMA QuotaChanges ==
    ASSUME NInv, QInv, NEW n \in Namespaces, NEW s, AsPushed(n, s)', Becomes(n, s),
           \A m \in Namespaces :
               m # n => \/ onCluster'[TargetOf[m]] = onCluster[TargetOf[m]]
                        \/ ~SoundOnCluster(m)'
                        \/ ~Undisturbed(m)
                        \/ SoundOnCluster(m) /\ onCluster'[TargetOf[m]].quota
                                                    = onCluster[TargetOf[m]].quota
    PROVE  QInv'
<1>1. \A m \in Namespaces : nsSync'[m] = IF m = n THEN s ELSE nsSync[m]
  BY DEF NInv, TypeOK, Becomes
<1>2. ASSUME NEW m \in Namespaces, m # n PROVE AsPushed(m, nsSync[m])'
  <2>1. PICK r : r = nsSync[m] OBVIOUS
  <2>2. AsPushed(m, r) BY <2>1 DEF QInv
  <2>3. AsPushed(m, r)' BY <1>2, <2>2 DEF AsPushed, SoundOnCluster, Undisturbed
  <2> QED BY <1>1, <1>2, <2>1, <2>3
<1> QED BY <1>1, <1>2 DEF QInv

(* A namespace that is labelled for one project is not sound for another.  *)
LEMMA ProvisionQuota == ASSUME NInv, QInv, NEW n \in Namespaces, Provision(n) PROVE QInv'
<1>1. CASE Taken(n)
  <2> DEFINE s == [nsSync[n] EXCEPT !.pc = "report", !.next = "Failed"]
  <2>1. Becomes(n, s) /\ UNCHANGED onCluster BY <1>1 DEF Provision
  <2>2. IsSync(nsSync[n]) /\ s.next = "Failed" BY Holds DEF IsSync
  <2> HIDE DEF s
  <2> QED BY <2>1, <2>2, QuotaLeft
<1>2. CASE ~Taken(n)
  <2> DEFINE t == TargetOf[n]
             mine == [onCluster[t] EXCEPT !.exists = TRUE, !.owner = ProjectOf[n]]
  <2>1. PICK s : s = [nsSync[n] EXCEPT !.pc = "quota"] OBVIOUS
  <2>2. Becomes(n, s) BY <1>2, <2>1 DEF Provision, Step
  <2>3. onCluster' = [onCluster EXCEPT ![t] = mine]
    BY <1>2, Holds DEF Provision, NInv, TypeOK, IsOnCluster
  <2>4. s.pc = "quota" BY <2>1, Holds DEF IsSync
  <2>5. mine.owner = ProjectOf[n] BY Holds DEF IsOnCluster
  <2> HIDE DEF mine
  <2>6. \A d \in Targets : onCluster'[d] = IF d = t THEN mine ELSE onCluster[d]
    BY <2>3 DEF NInv, TypeOK
  <2>7. ASSUME NEW m \in Namespaces, m # n
        PROVE  onCluster'[TargetOf[m]] = onCluster[TargetOf[m]] \/ ~SoundOnCluster(m)'
    <3>1. CASE TargetOf[m] = t
      <4>1. ProjectOf[m] # ProjectOf[n] BY <2>7, <3>1, NamespaceAssumption
      <4> QED BY <2>5, <2>6, <3>1, <4>1, Holds DEF SoundOnCluster
    <3>2. CASE TargetOf[m] # t BY <2>6, <3>2, Holds
    <3> QED BY <3>1, <3>2
  <2>8. AsPushed(n, s)' BY <2>4 DEF AsPushed
  <2> QED BY <2>2, <2>7, <2>8, QuotaChanges
<1> QED BY <1>1, <1>2

(* The quota is pushed by whoever has labelled the namespace, if nobody    *)
(* else disturbs.                                                          *)
LEMMA PushQuotaQuota == ASSUME NInv, QInv, NEW n \in Namespaces, PushQuota(n) PROVE QInv'
<1>1. CASE ~onCluster[TargetOf[n]].exists
  <2> DEFINE s == [nsSync[n] EXCEPT !.pc = "report", !.next = "Failed"]
  <2>1. Becomes(n, s) /\ UNCHANGED onCluster BY <1>1 DEF PushQuota
  <2>2. IsSync(nsSync[n]) /\ s.next = "Failed" BY Holds DEF IsSync
  <2> HIDE DEF s
  <2> QED BY <2>1, <2>2, QuotaLeft
<1>2. CASE onCluster[TargetOf[n]].exists
  <2> DEFINE t == TargetOf[n]
             limited == [onCluster[t] EXCEPT !.quota = Pushed(n)]
  <2>1. PICK s : s = [nsSync[n] EXCEPT !.pc = "report", !.next = "Available"] OBVIOUS
  <2>2. Becomes(n, s) BY <1>2, <2>1 DEF PushQuota
  <2>3. onCluster' = [onCluster EXCEPT ![t] = limited]
    BY <1>2, Holds DEF PushQuota, NInv, TypeOK
  <2>4. s.obj = nsSync[n].obj BY <2>1, Holds DEF IsSync
  <2>5. limited.quota = {nsSync[n].obj.hard} /\ limited.owner = onCluster[t].owner
    BY Holds DEF IsOnCluster, Pushed
  <2> HIDE DEF limited
  <2>6. \A d \in Targets : onCluster'[d] = IF d = t THEN limited ELSE onCluster[d]
    BY <2>3 DEF NInv, TypeOK
  <2>7. "removed" \notin FaultKinds => Labelled(n)
    BY Holds DEF Fits, Succeeding, PushQuota
  <2>8. ASSUME NEW m \in Namespaces, m # n
        PROVE  \/ onCluster'[TargetOf[m]] = onCluster[TargetOf[m]] \/ ~SoundOnCluster(m)'
               \/ ~Undisturbed(m)
    <3>1. CASE TargetOf[m] = t /\ "removed" \notin FaultKinds
      <4>1. ProjectOf[m] # ProjectOf[n] BY <2>8, <3>1, NamespaceAssumption
      <4>2. limited.owner = ProjectOf[n] BY <2>5, <2>7, <3>1 DEF Labelled
      <4> QED BY <2>6, <3>1, <4>1, <4>2, Holds DEF SoundOnCluster
    <3>2. CASE TargetOf[m] = t /\ "removed" \in FaultKinds
      BY <2>8, <3>2 DEF Undisturbed
    <3>3. CASE TargetOf[m] # t BY <2>6, <3>3, Holds
    <3> QED BY <3>1, <3>2, <3>3
  <2>9. AsPushed(n, s)' BY <2>4, <2>5, <2>6, Holds DEF AsPushed
  <2> QED BY <2>2, <2>8, <2>9, QuotaChanges
<1> QED BY <1>1, <1>2

(* A namespace that is taken off the cluster is not sound.                 *)
LEMMA UnprovisionQuota == ASSUME NInv, QInv, NEW n \in Namespaces, Unprovision(n) PROVE QInv'
<1>1. PICK s : s = [nsSync[n] EXCEPT !.pc = "finalize"] OBVIOUS
<1>2. Becomes(n, s) BY <1>1 DEF Unprovision, Step
<1>3. s.pc = "finalize" BY <1>1, Holds DEF IsSync
<1>4. ASSUME NEW m \in Namespaces
      PROVE  onCluster'[TargetOf[m]] = onCluster[TargetOf[m]] \/ ~SoundOnCluster(m)'
  <2>1. \A d \in Targets : onCluster'[d] = Missing \/ onCluster'[d] = onCluster[d]
    BY DEF Unprovision, NInv, TypeOK
  <2> QED BY <2>1, Holds DEF SoundOnCluster, Missing
<1>5. AsPushed(n, s)' BY <1>3 DEF AsPushed
<1> QED BY <1>2, <1>4, <1>5, QuotaChanges

(* The same if others remove it.                                           *)
LEMMA RemovedQuota == ASSUME NInv, QInv, NEW t \in Targets, Removed(t) PROVE QInv'
<1>1. \A d \in Targets : onCluster'[d] = Missing \/ onCluster'[d] = onCluster[d]
  BY DEF Removed, NInv, TypeOK
<1>2. UNCHANGED nsSync BY DEF Removed, workerVars
<1>3. ASSUME NEW m \in Namespaces PROVE AsPushed(m, nsSync[m])'
  BY <1>1, <1>2, <1>3, Holds DEF QInv, AsPushed, SoundOnCluster, Missing
<1> QED BY <1>3 DEF QInv

(* Every step of a worker keeps it.                                        *)
LEMMA WorkQuota == ASSUME NInv, QInv, NEW n \in Namespaces, Work(n) PROVE QInv'
<1>1. IsSync(nsSync[n]) BY Holds
<1>2. ASSUME Done(n), UNCHANGED onCluster PROVE QInv'
  <2>1. Idle.pc = "idle" BY DEF Idle
  <2> QED BY <1>1, <1>2, <2>1, QuotaLeft DEF Done
<1>3. ASSUME NEW pc, pc \notin {"report", "store"}, Step(n, pc), UNCHANGED onCluster PROVE QInv'
  <2>1. PICK s : s = [nsSync[n] EXCEPT !.pc = pc] OBVIOUS
  <2>2. s.pc = pc BY <1>1, <2>1 DEF IsSync
  <2> QED BY <1>1, <1>3, <2>1, <2>2, QuotaLeft DEF Step
<1>4. CASE SyncGone(n)
  BY <1>4, QuotaStays DEF SyncGone, Take
<1>5. CASE SyncTerminating(n)
  <2>1. Step(n, "get") /\ UNCHANGED onCluster BY <1>5 DEF SyncTerminating, Take, Step
  <2> QED BY <1>3, <2>1
<1>6. CASE SyncPending(n)
  <2>1. PICK s : s = [nsSync[n] EXCEPT !.pc = "count", !.obj = nsListed[n],
                                         !.state = nsCached[n]]
    OBVIOUS
  <2>2. s.pc = "count" BY <1>1, <2>1 DEF IsSync
  <2> QED BY <1>1, <1>6, <2>1, <2>2, QuotaLeft DEF SyncPending, Take
<1>7. CASE SyncSettled(n)
  BY <1>7, QuotaStays DEF SyncSettled, Take
<1>8. ASSUME NEW kind, NEW new, Submit(n, kind, new), UNCHANGED onCluster PROVE QInv'
  <2>1. PICK w : w = [kind |-> kind, base |-> projects[ProjectOf[n]], new |-> new] OBVIOUS
  <2>2. PICK s : s = [nsSync[n] EXCEPT !.pc = "commit", !.write = w] OBVIOUS
  <2>3. s.pc = "commit" BY <1>1, <2>2 DEF IsSync
  <2> QED BY <1>1, <1>8, <2>1, <2>2, <2>3, QuotaLeft DEF Submit
<1>9. CASE CountNamespace(n)
  <2>1. UNCHANGED onCluster BY <1>9 DEF CountNamespace
  <2> QED BY <1>2, <1>3, <1>8, <1>9, <2>1 DEF CountNamespace, SubmitIfAdmitted, Requeue
<1>10. CASE Commit(n)
  <2>1. UNCHANGED onCluster BY <1>10 DEF Commit
  <2>2. CASE Requeue(n) BY <1>2, <2>1, <2>2 DEF Requeue
  <2>3. ASSUME NEW pc \in {"provision", "unprovision"}, Proceed(n, pc) PROVE QInv'
    <3>1. PICK s : s = [nsSync[n] EXCEPT !.pc = pc, !.write = NoWrite] OBVIOUS
    <3>2. s.pc = pc BY <1>1, <3>1 DEF IsSync
    <3> QED BY <1>1, <2>1, <2>3, <3>1, <3>2, QuotaLeft DEF Proceed
  <2> QED BY <1>10, <2>2, <2>3 DEF Commit
<1>11. CASE Provision(n) BY <1>11, ProvisionQuota
<1>12. CASE PushQuota(n) BY <1>12, PushQuotaQuota
<1>13. CASE ReportPhase(n)
  <2>1. nsSync[n].pc = "report" /\ UNCHANGED onCluster BY <1>13 DEF ReportPhase
  <2>2. CASE Requeue(n) BY <1>2, <2>1, <2>2 DEF Requeue
  <2>3. CASE Step(n, "store")
    <3>1. PICK s : s = [nsSync[n] EXCEPT !.pc = "store"] OBVIOUS
    <3>2. s.next = nsSync[n].next /\ s.obj = nsSync[n].obj BY <1>1, <3>1 DEF IsSync
    <3>3. AsPushed(n, nsSync[n]) BY DEF QInv
    <3>4. AsPushed(n, s) BY <2>1, <3>2, <3>3 DEF AsPushed
    <3> QED BY <2>1, <2>3, <3>1, <3>4, QuotaMoves DEF Step
  <2> QED BY <1>13, <2>2, <2>3 DEF ReportPhase
<1>14. CASE StorePhase(n) BY <1>2, <1>14 DEF StorePhase, Requeue
<1>15. CASE GetDoomed(n)
  <2>1. UNCHANGED onCluster BY <1>15 DEF GetDoomed
  <2>2. PICK s : s = [nsSync[n] EXCEPT !.pc = "uncount", !.obj = namespaces[n]] OBVIOUS
  <2>3. s.pc = "uncount" BY <1>1, <2>2 DEF IsSync
  <2> QED BY <1>1, <1>2, <1>15, <2>1, <2>2, <2>3, QuotaLeft DEF GetDoomed
<1>16. CASE UncountNamespace(n)
  <2>1. UNCHANGED onCluster BY <1>16 DEF UncountNamespace
  <2> QED BY <1>3, <1>8, <1>16, <2>1 DEF UncountNamespace
<1>17. CASE Unprovision(n) BY <1>17, UnprovisionQuota
<1>18. CASE FinalizeNamespace(n) BY <1>2, <1>18 DEF FinalizeNamespace, Requeue
<1> QED BY <1>4, <1>5, <1>6, <1>7, <1>9, <1>10, <1>11, <1>12, <1>13, <1>14, <1>15, <1>16,
           <1>17, <1>18 DEF Work

(* Every fault keeps it.                                                   *)
LEMMA FailureQuota == ASSUME NInv, QInv, Failure PROVE QInv'
<1>1. CASE Restart
  <2>1. \A n \in Namespaces : nsSync'[n].pc = "idle" BY <1>1 DEF Restart, Idle
  <2> QED BY <2>1 DEF QInv, AsPushed
<1>2. ASSUME NEW n \in Namespaces, CallFails(n) PROVE QInv'
  <2>1. UNCHANGED onCluster /\ IsSync(nsSync[n]) BY <1>2, Holds DEF CallFails
  <2>2. CASE Requeue(n)
    <3>1. Idle.pc = "idle" BY DEF Idle
    <3> QED BY <2>1, <2>2, <3>1, QuotaLeft DEF Requeue, Done
  <2>3. CASE Proceed(n, "unprovision")
    <3>1. PICK s : s = [nsSync[n] EXCEPT !.pc = "unprovision", !.write = NoWrite] OBVIOUS
    <3>2. s.pc = "unprovision" BY <2>1, <3>1 DEF IsSync
    <3> QED BY <2>1, <2>3, <3>1, <3>2, QuotaLeft DEF Proceed
  <2> QED BY <1>2, <2>2, <2>3 DEF CallFails
<1>3. ASSUME NEW n \in Namespaces, CommitLost(n) PROVE QInv'
  BY <1>3, QuotaStays DEF CommitLost, workerVars
<1>4. ASSUME NEW n \in Namespaces, ClusterFails(n) PROVE QInv'
  <2>1. UNCHANGED onCluster /\ IsSync(nsSync[n]) BY <1>4, Holds DEF ClusterFails
  <2>2. PICK r, s : /\ r = [nsSync[n] EXCEPT !.pc = "report", !.next = "Failed"]
                    /\ s = [nsSync[n] EXCEPT !.pc = "finalize"]
    OBVIOUS
  <2>3. r.next = "Failed" /\ s.pc = "finalize" BY <2>1, <2>2 DEF IsSync
  <2>4. Becomes(n, r) \/ Becomes(n, s) BY <1>4, <2>2 DEF ClusterFails, Step
  <2> QED BY <2>1, <2>3, <2>4, QuotaLeft
<1>5. ASSUME NEW t \in Targets, Removed(t) PROVE QInv' BY <1>5, RemovedQuota
<1>6. ASSUME NEW p \in Projects, Purged(p) PROVE QInv'
  BY <1>6, QuotaStays DEF Purged, workerVars
<1> QED BY <1>1, <1>2, <1>3, <1>4, <1>5, <1>6 DEF Failure

(* Every step keeps it.                                                    *)
LEMMA NextQuota == NInv /\ QInv /\ [Next]_vars => QInv'
<1> SUFFICES ASSUME NInv, QInv, [Next]_vars PROVE QInv' OBVIOUS
<1>1. ASSUME NEW n \in Namespaces, Deliver(n) PROVE QInv' BY <1>1, QuotaStays DEF Deliver
<1>2. ASSUME NEW n \in Namespaces, Work(n) PROVE QInv' BY <1>2, WorkQuota
<1>3. ASSUME NEW n \in Namespaces, Watch(n) PROVE QInv'
  BY <1>3, QuotaStays DEF Watch, Tick, CheckHealth, workerVars
<1>4. ASSUME NEW u \in Users, NsCommit(u) PROVE QInv'
  BY <1>4, QuotaStays DEF NsCommit, workerVars
<1>5. CASE Failure BY <1>5, FailureQuota
<1>6. CASE Environment
  BY <1>6, QuotaStays DEF Environment, NsDelete, NsCreate, NsUpdate, workerVars
<1>7. CASE UNCHANGED vars BY <1>7, QuotaStays DEF vars, workerVars
<1> QED BY <1>1, <1>2, <1>3, <1>4, <1>5, <1>6, <1>7 DEF Next

(* The worker that stores "Available" stores the quota it has pushed.      *)
LEMMA StoredAsPushed ==
    ASSUME NInv, QInv, NEW n \in Namespaces, nsSync[n].pc = "store", Undisturbed(n),
           SoundOnCluster(n), Reported(n).phase = "Available"
    PROVE  onCluster[TargetOf[n]].quota = {Reported(n).hard}
<1>1. IsSync(nsSync[n]) /\ AsPushed(n, nsSync[n]) BY Holds DEF QInv
<1>2. Reported(n).phase = nsSync[n].next /\ Reported(n).hard = nsSync[n].obj.hard
  BY <1>1 DEF Reported, IsSync, IsNamespace
<1> QED BY <1>1, <1>2 DEF AsPushed

(* A pending namespace that becomes available was reported so by its       *)
(* worker: a health loop writes only over a settled one, a user's write    *)
(* leaves the phase.                                                       *)
LEMMA OnlyReported ==
    ASSUME NInv, [Next]_vars, NEW n \in Namespaces, namespaces[n].phase = "Pending",
           namespaces'[n].phase = "Available"
    PROVE  nsSync[n].pc = "store" /\ namespaces'[n] = Reported(n)
<1> DEFINE Goal == nsSync[n].pc = "store" /\ namespaces'[n] = Reported(n)
<1>0. DOMAIN namespaces = Namespaces BY DEF NInv, TypeOK
<1>1. ASSUME UNCHANGED namespaces PROVE Goal BY <1>1
<1>2. ASSUME NEW m \in Namespaces, StorePhase(m) PROVE Goal BY <1>0, <1>2 DEF StorePhase
<1>3. ASSUME NEW m \in Namespaces, CommitLost(m) PROVE Goal BY <1>0, <1>3 DEF CommitLost
<1>4. ASSUME NEW m \in Namespaces, NEW i \in Slots, CheckHealth(m, i) PROVE Goal
  <2> DEFINE obj == loops[m][i].obj
  <2>1. PICK new : UNCHANGED namespaces \/ /\ obj.phase \in {"Available", "Failed"}
                                           /\ Fresh(m, obj)
                                           /\ namespaces' = [namespaces EXCEPT ![m] = new]
    BY <1>4 DEF CheckHealth
  <2> QED BY <1>0, <2>1 DEF Fresh
<1>5. ASSUME NEW u \in Users, NsCommit(u) PROVE Goal
  <2>1. PICK r \in requests :
            namespaces' = IF Fresh(r.target, r.base)
                          THEN [namespaces EXCEPT ![r.target] = r.new] ELSE namespaces
    BY <1>5 DEF NsCommit
  <2>2. Meant(r) BY DEF NInv
  <2> QED BY <1>0, <2>1, <2>2 DEF Fresh, Meant
<1>6. ASSUME NEW m \in Namespaces, NsDelete(m) PROVE Goal
  <2>1. PICK obj : obj = [namespaces[m] EXCEPT !.phase = "Terminating"] OBVIOUS
  <2>2. obj.phase = "Terminating" BY <2>1, Holds DEF IsNamespace
  <2>3. namespaces' = [namespaces EXCEPT ![m] = obj] BY <1>0, <1>6, <2>1 DEF NsDelete
  <2> QED BY <1>0, <2>2, <2>3
<1>7. ASSUME NEW p \in Projects, Purged(p) PROVE Goal BY <1>7 DEF Purged, NoNamespace
<1>8. ASSUME NEW m \in Namespaces, Work(m), ~StorePhase(m) PROVE UNCHANGED namespaces
  BY <1>8 DEF Work, SyncGone, SyncTerminating, SyncPending, SyncSettled, Take, CountNamespace,
              Commit, Provision, PushQuota, ReportPhase, GetDoomed, UncountNamespace,
              Unprovision, FinalizeNamespace, storeUnchanged
<1>9. ASSUME NEW m \in Namespaces,
             \/ Deliver(m) \/ CallFails(m) \/ ClusterFails(m)
             \/ \E i \in Slots : Tick(m, i)
             \/ \E u \in Users : NsCreate(u, m) \/ NsUpdate(u, m)
      PROVE  UNCHANGED namespaces
  BY <1>9 DEF Deliver, CallFails, ClusterFails, Tick, NsCreate, NsUpdate, storeUnchanged
<1>10. ASSUME NEW t \in Targets, Removed(t) PROVE UNCHANGED namespaces BY <1>10 DEF Removed
<1>11. Restart => UNCHANGED namespaces BY DEF Restart
<1>12. UNCHANGED vars => UNCHANGED namespaces BY DEF vars
<1> HIDE DEF Goal
<1>13. Goal
  BY <1>1, <1>2, <1>3, <1>4, <1>5, <1>6, <1>7, <1>8, <1>9, <1>10, <1>11, <1>12
  DEF Next, Watch, Failure, Environment
<1> QED BY <1>13 DEF Goal

(* A namespace becomes available with the quota it has at that moment, for *)
(* every number of edits, restarts and failures on the way, unless another *)
(* project's worker can have come between.                                 *)
THEOREM AvailableAsAsked == Spec => ProvisionedAsAsked
<1>1. Init => QInv
  <2>1. Init => \A n \in Namespaces : nsSync[n] = Idle BY DEF Init, StartsEmpty
  <2> QED BY <2>1 DEF QInv, AsPushed, Idle
<1>2. NInv /\ QInv /\ [Next]_vars =>
          [\A n \in Namespaces :
              /\ Undisturbed(n)
              /\ namespaces[n].phase = "Pending"
              /\ namespaces'[n].phase = "Available"
              /\ SoundOnCluster(n)
              => onCluster[TargetOf[n]].quota = {namespaces'[n].hard}]_vars
  BY OnlyReported, StoredAsPushed
<1> QED BY <1>1, <1>2, NextQuota, Invariant, PTL DEF Spec, ProvisionedAsAsked

------------------------------------------------------------------------------
(* What holders of quotas hold together.  Total counts units, so that a    *)
(* holder more or less is a matter of cardinalities: the sum over a set as *)
(* a fold or a recursive function would need induction.                    *)

(* A quota that is never negative.                                         *)
Limits(h) == \A c \in DOMAIN h : h[c] >= 0

(* What a quota gives on a cluster is a number of units.                   *)
LEMMA AtNat ==
    ASSUME NEW h, IsLedger(h), Limits(h), NEW c
    PROVE  At(h, c) \in Nat
BY DEF IsLedger, Limits, At

(* Finitely many objects hold finitely many units.                         *)
LEMMA UnitsFinite ==
    ASSUME NEW S, IsFiniteSet(S), NEW quota, NEW c,
           \A x \in S : At(quota[x].hard, c) \in Nat
    PROVE  IsFiniteSet(Units(S, quota, c)) /\ Total(S, quota, c) \in Nat
<1> DEFINE f == [x \in S |-> {x} \X (1..At(quota[x].hard, c))]
           T == {{x} \X (1..At(quota[x].hard, c)) : x \in S}
<1>1. f \in Surjection(S, T) BY DEF Surjection
<1>2. IsFiniteSet(T) BY <1>1, FS_Surjection
<1>3. ASSUME NEW x \in S PROVE IsFiniteSet({x} \X (1..At(quota[x].hard, c)))
  <2>1. At(quota[x].hard, c) \in Int OBVIOUS
  <2>2. IsFiniteSet(1..At(quota[x].hard, c)) BY <2>1, FS_Interval
  <2>3. IsFiniteSet({x}) BY FS_Singleton
  <2> QED BY <2>2, <2>3, FS_Product
<1>4. IsFiniteSet(UNION T) BY <1>2, <1>3, FS_UNION
<1> QED BY <1>4, FS_CardinalityType DEF Units, Total

(* Nobody holds nothing.                                                   *)
LEMMA TotalOfNone == ASSUME NEW quota, NEW c PROVE Total({}, quota, c) = 0
BY FS_EmptySet DEF Total, Units

(* One more object holds its quota more.                                   *)
LEMMA TotalWithOneMore ==
    ASSUME NEW S, IsFiniteSet(S), NEW k, k \notin S, NEW quota, NEW c,
           \A x \in S \cup {k} : At(quota[x].hard, c) \in Nat
    PROVE  Total(S \cup {k}, quota, c) = Total(S, quota, c) + At(quota[k].hard, c)
<1> DEFINE U == Units(S, quota, c)
           V == {k} \X (1..At(quota[k].hard, c))
<1>1. Units(S \cup {k}, quota, c) = U \cup V BY DEF Units
<1>2. IsFiniteSet(U) /\ Cardinality(U) \in Nat BY UnitsFinite DEF Total
<1>3. IsFiniteSet(V) /\ Cardinality(V) = At(quota[k].hard, c)
  <2> DEFINE h == At(quota[k].hard, c)
             I == 1..h
             K == {k}
  <2>1. h \in Nat OBVIOUS
  <2>2. IsFiniteSet(I) /\ Cardinality(I) = h
    <3> HIDE DEF h
    <3> QED BY <2>1, FS_Interval
  <2>3. IsFiniteSet(K) /\ Cardinality(K) = 1 BY FS_Singleton
  <2> HIDE DEF I, K
  <2>4. IsFiniteSet(K \X I) /\ Cardinality(K \X I) = Cardinality(K) * Cardinality(I)
    BY <2>2, <2>3, FS_Product
  <2> HIDE DEF h
  <2>5. Cardinality(K \X I) = h BY <2>1, <2>2, <2>3, <2>4
  <2> QED BY <2>4, <2>5 DEF K, I, h
<1>4. U \cap V = {} BY DEF Units
<1>5. Cardinality(U \cup V) = Cardinality(U) + Cardinality(V) - Cardinality(U \cap V)
  BY <1>2, <1>3, FS_Union
<1>6. Cardinality(U \cap V) = 0 BY <1>4, FS_EmptySet
<1> HIDE DEF U, V
<1>7. Cardinality(U \cup V) = Cardinality(U) + At(quota[k].hard, c)
  BY <1>2, <1>3, <1>5, <1>6
<1> QED BY <1>1, <1>7 DEF Total, U

(* One object less holds its quota less.                                   *)
LEMMA TotalWithoutOne ==
    ASSUME NEW S, IsFiniteSet(S), NEW k \in S, NEW quota, NEW c,
           \A x \in S : At(quota[x].hard, c) \in Nat
    PROVE  /\ Total(S \ {k}, quota, c) \in Nat
           /\ Total(S, quota, c) = Total(S \ {k}, quota, c) + At(quota[k].hard, c)
<1>1. IsFiniteSet(S \ {k}) BY FS_RemoveElement
<1>2. (S \ {k}) \cup {k} = S OBVIOUS
<1> DEFINE R == S \ {k}
<1>3. \A x \in R \cup {k} : At(quota[x].hard, c) \in Nat OBVIOUS
<1>4. k \notin R OBVIOUS
<1> HIDE DEF R
<1>5. Total(R \cup {k}, quota, c) = Total(R, quota, c) + At(quota[k].hard, c)
  BY <1>1, <1>3, <1>4, TotalWithOneMore DEF R
<1>6. Total(R, quota, c) \in Nat BY <1>1, <1>3, UnitsFinite DEF R
<1> QED BY <1>2, <1>5, <1>6 DEF R

(* Fewer objects hold no more.                                             *)
LEMMA TotalOfFewer ==
    ASSUME NEW T, IsFiniteSet(T), NEW S \in SUBSET T, NEW quota, NEW c,
           \A x \in T : At(quota[x].hard, c) \in Nat
    PROVE  Total(S, quota, c) \in Nat /\ Total(S, quota, c) <= Total(T, quota, c)
<1>1. IsFiniteSet(Units(T, quota, c)) BY UnitsFinite
<1>2. Units(S, quota, c) \subseteq Units(T, quota, c) BY DEF Units
<1> QED BY <1>1, <1>2, FS_Subset, FS_CardinalityType DEF Total

(* Smaller quotas add up to no more.                                       *)
LEMMA TotalAtMost ==
    ASSUME NEW S, IsFiniteSet(S), NEW quota, NEW given, NEW c,
           \A x \in S : /\ At(quota[x].hard, c) \in Nat
                        /\ At(given[x].hard, c) \in Nat
                        /\ At(given[x].hard, c) <= At(quota[x].hard, c)
    PROVE  Total(S, given, c) <= Total(S, quota, c)
<1>1. \A x \in S : At(quota[x].hard, c) \in Nat OBVIOUS
<1>2. IsFiniteSet(Units(S, quota, c)) BY <1>1, UnitsFinite
<1>3. ASSUME NEW x \in S, NEW i \in 1..At(given[x].hard, c)
      PROVE  i \in 1..At(quota[x].hard, c)
  OBVIOUS
<1>4. Units(S, given, c) \subseteq Units(S, quota, c) BY <1>3 DEF Units
<1> QED BY <1>2, <1>4, FS_Subset DEF Total

------------------------------------------------------------------------------
(***************************************************************************)
(* What the ledgers count.                                                 *)
(*                                                                         *)
(* A worker adds the quota of the copy it got from the lister and gives    *)
(* back that of the object it got from the server, not what is stored when *)
(* its write is.  Accounts says why that is the same quota while nobody    *)
(* edits one: all copies of a namespace are of its present life and as     *)
(* large, or of an earlier one.  LedgerCovers is not inductive even so: a  *)
(* namespace that is purged while its deleter is at work holds nothing     *)
(* any more, yet its quota is still to be given back.  Covers counts it    *)
(* until then.                                                             *)
(*                                                                         *)
(* A step is judged by what it does to the margin of a ledger, what it     *)
(* says beyond what the namespaces hold: Carries.  That makes no use of    *)
(* who else is in the ledger.                                              *)
(***************************************************************************)

Counting(s) == s.pc = "count" \/ Writes(s, "count") \/ Writes(s, "adjust")

GivingBack(s) == s.pc = "uncount" \/ Writes(s, "uncount")

(* An object o is a copy of namespace n: it is no younger than what is     *)
(* stored and, while nobody edits a quota, has the same quota if it is of  *)
(* the same namespace.                                                     *)
Copy(n, o) ==
    Present(o) =>
        /\ o.uid \in 1..namespaces[n].uid
        /\ edits = 0 /\ o.uid = namespaces[n].uid /\ Present(namespaces[n])
              => o.hard = namespaces[n].hard

Good(n, o) == Limits(o.hard) /\ (~Present(o) => o.hard = Nothing) /\ Copy(n, o)

(* What the write a worker waits for does to the ledger.                   *)
Amounts(n, s) ==
    LET w == s.write
    IN  /\ Counting(s) \/ Creating(s) \/ GivingBack(s) => Present(s.obj)
        /\ Writes(s, "count") => w.new.used = AddClusterHardToUsed(w.base.used, s.obj.hard)
        /\ Writes(s, "adjust") => ~Unmistaken(ProjectOf[n])
        /\ Writes(s, "uncount") =>
              /\ n \in w.base.nss
              /\ w.new.used = SubClusterHardFromUsed(w.base.used, s.obj.hard)

(* What the write of a user does to the quota.                             *)
Asked(r) ==
    /\ Limits(r.new.hard) /\ Present(r.new)
    /\ \/ ~Present(r.base) /\ r.new.uid = r.base.uid + 1
       \/ edits # 0 /\ Present(r.base) /\ r.new.uid = r.base.uid

(* A ledger names finitely many namespaces, of its own project, that were  *)
(* there once.                                                             *)
Lists(p) ==
    /\ IsFiniteSet(projects[p].nss)
    /\ \A n \in projects[p].nss : ProjectOf[n] = p /\ namespaces[n].uid # 0

Accounts ==
    /\ \A n \in Namespaces :
          /\ Good(n, namespaces[n]) /\ Good(n, nsListed[n]) /\ Good(n, nsSync[n].obj)
          /\ nsSeen[n] = "Pending" => Present(nsListed[n])
          /\ Amounts(n, nsSync[n])
    /\ \A r \in requests : Asked(r)
    /\ \A p \in Projects : Lists(p)

(* What namespace n will give back when it is taken down.                  *)
Holding(n) ==
    IF Present(namespaces[n]) THEN namespaces[n].hard
    ELSE IF GivingBack(nsSync[n]) THEN nsSync[n].obj.hard ELSE Nothing

Held == [n \in Namespaces |-> [hard |-> Holding(n)]]

(* What the ledger of p says of cluster c beyond what is held there.       *)
Margin(p, c) == At(projects[p].used, c) - Total(projects[p].nss, Held, c)

Covers ==
    edits = 0 => \A p \in Projects : NamedOnce(p) => \A c \in Clusters : Margin(p, c) >= 0

BInv == NInv /\ Accounts

(* A step that spoils no ledger: a margin that is not negative grows or    *)
(* stays.                                                                  *)
Carries ==
    \A p \in Projects : edits' = 0 /\ NamedOnce(p)' =>
        /\ edits = 0 /\ NamedOnce(p)
        /\ \A c \in Clusters : Margin(p, c) >= 0 => Margin(p, c)' >= Margin(p, c)

Booked == Accounts' /\ Carries

------------------------------------------------------------------------------
(* How copies stay copies.                                                 *)

(* A new version of a namespace: a later one, and with the same quota if   *)
(* it is of the same namespace and nobody edits quotas.                    *)
Continues(new, old) ==
    /\ Limits(new.hard) /\ (~Present(new) => new.hard = Nothing)
    /\ new.uid >= old.uid
    /\ new.uid = old.uid /\ Present(new) =>
          Present(old) /\ (edits = 0 => new.hard = old.hard)

(* No quota at all is a ledger that is not negative.                       *)
LEMMA NothingLimits == ASSUME NEW c PROVE IsLedger(Nothing) /\ Limits(Nothing) /\ At(Nothing, c) = 0
BY DEF IsLedger, Limits, Nothing, At

(* What is stored continues itself.                                        *)
LEMMA Itself == ASSUME NInv, Accounts, NEW n \in Namespaces
                PROVE  Continues(namespaces[n], namespaces[n])
BY Holds DEF Continues, Accounts, Good, IsNamespace

(* A copy stays one.                                                       *)
LEMMA CopyStays ==
    ASSUME NInv, NInv', NEW n \in Namespaces, NEW o, Good(n, o), edits' = 0 => edits = 0,
           IsNamespace(o), Continues(namespaces'[n], namespaces[n])
    PROVE  Good(n, o)'
<1>1. namespaces[n].uid \in Nat /\ namespaces'[n].uid \in Nat /\ o.uid \in Nat
  BY DEF NInv, TypeOK, IsNamespace
<1> QED BY <1>1 DEF Good, Copy, Continues

(* What is stored is a copy of itself.                                     *)
LEMMA StoredIsCopy ==
    ASSUME NInv, NInv', NEW n \in Namespaces, Good(n, namespaces[n]),
           Continues(namespaces'[n], namespaces[n])
    PROVE  Good(n, namespaces[n])'
<1>1. namespaces[n].uid \in Nat /\ namespaces'[n].uid \in Nat
  BY DEF NInv, TypeOK, IsNamespace
<1> QED BY <1>1 DEF Good, Copy, Continues

(* What a worker in state s has in hand, and what it means to give back.   *)
InHand(n, s) ==
    /\ IsSync(s) /\ Good(n, s.obj) /\ Amounts(n, s)
    /\ GivingBack(s) => \/ GivingBack(nsSync[n]) /\ s.obj = nsSync[n].obj
                        \/ Present(namespaces[n]) /\ s.obj = namespaces[n]

(* The accounts survive a step that only continues what is stored.         *)
LEMMA AccountsKept ==
    ASSUME NInv, NInv', Accounts, edits' = 0 => edits = 0,
           \A n \in Namespaces :
               /\ Continues(namespaces'[n], namespaces[n])
               /\ nsListed'[n] \in {nsListed[n], namespaces[n]}
               /\ nsSeen'[n] = "Pending" => Present(nsListed'[n])
               /\ InHand(n, nsSync'[n]),
           \A r \in requests' : r \in requests \/ Asked(r)',
           \A p \in Projects :
               /\ IsFiniteSet(projects'[p].nss)
               /\ \A n \in projects'[p].nss : ProjectOf[n] = p /\ namespaces[n].uid # 0
    PROVE  Accounts'
<1>1. ASSUME NEW n \in Namespaces
      PROVE  /\ Good(n, namespaces[n])' /\ Good(n, nsListed[n])' /\ Good(n, nsSync[n].obj)'
             /\ Amounts(n, nsSync[n])'
  <2>1. PICK l, s : l = nsListed'[n] /\ s = nsSync'[n] OBVIOUS
  <2>2. Good(n, l) /\ IsNamespace(l) BY <2>1, Holds DEF Accounts
  <2>3. Good(n, s.obj) /\ IsNamespace(s.obj) /\ Amounts(n, s) BY <2>1 DEF InHand, IsSync
  <2>4. Good(n, l)' /\ Good(n, s.obj)' BY <2>2, <2>3, CopyStays
  <2>5. Good(n, namespaces[n])' BY StoredIsCopy DEF Accounts
  <2>6. Amounts(n, s)' BY <2>3 DEF Amounts
  <2> QED BY <2>1, <2>4, <2>5, <2>6
<1>2. \A r \in requests' : Asked(r)' BY DEF Accounts, Asked
<1>3. ASSUME NEW p \in Projects PROVE Lists(p)'
  <2>1. \A n \in projects'[p].nss : n \in Namespaces BY DEF NInv, TypeOK, IsProject
  <2>2. \A n \in Namespaces : namespaces[n].uid \in Nat /\ namespaces'[n].uid \in Nat
    BY DEF NInv, TypeOK, IsNamespace
  <2>3. \A n \in projects'[p].nss : namespaces[n].uid # 0 => namespaces'[n].uid # 0
    BY <2>1, <2>2 DEF Continues
  <2> QED BY <2>3 DEF Lists
<1> QED BY <1>1, <1>2, <1>3 DEF Accounts

------------------------------------------------------------------------------
(* How the ledgers stay right.                                             *)

(* What a namespace gives back is a quota.                                 *)
LEMMA HoldsQuota ==
    ASSUME NInv, Accounts, NEW n \in Namespaces, NEW c
    PROVE  /\ Held[n].hard = Holding(n) /\ IsLedger(Holding(n))
           /\ At(Holding(n), c) \in Nat
<1>1. IsLedger(namespaces[n].hard) /\ IsLedger(nsSync[n].obj.hard)
  BY Holds DEF IsNamespace, IsSync
<1>2. Limits(namespaces[n].hard) /\ Limits(nsSync[n].obj.hard) BY DEF Accounts, Good
<1>3. IsLedger(Holding(n)) /\ Limits(Holding(n))
  BY <1>1, <1>2, NothingLimits DEF Holding
<1> QED BY <1>3, AtNat DEF Held

(* A namespace in a ledger whose name was given once holds no more after a *)
(* step that only continues what is stored.                                *)
LEMMA HoldsNoMore ==
    ASSUME NInv, NInv', Accounts, edits = 0, NEW n \in Namespaces, NEW c,
           namespaces[n].uid # 0, namespaces'[n].uid <= 1,
           Continues(namespaces'[n], namespaces[n]), InHand(n, nsSync'[n])
    PROVE  At(Holding(n)', c) <= At(Holding(n), c)
<1>1. namespaces[n].uid \in Nat /\ namespaces'[n].uid \in Nat
  BY DEF NInv, TypeOK, IsNamespace
<1>2. namespaces[n].uid = 1 /\ namespaces'[n].uid = 1 BY <1>1 DEF Continues
<1>3. At(Holding(n), c) \in Nat BY HoldsQuota
<1>4. CASE Present(namespaces'[n])
  <2>1. Holding(n)' = Holding(n) BY <1>2, <1>4 DEF Continues, Holding
  <2> QED BY <1>3, <2>1
<1>5. CASE ~Present(namespaces'[n]) /\ GivingBack(nsSync'[n])
  <2>1. Holding(n)' = nsSync'[n].obj.hard BY <1>5 DEF Holding
  <2>2. CASE Present(namespaces[n]) /\ nsSync'[n].obj = namespaces[n]
    <3>1. Holding(n)' = Holding(n) BY <2>1, <2>2 DEF Holding
    <3> QED BY <1>3, <3>1
  <2>3. CASE GivingBack(nsSync[n]) /\ nsSync'[n].obj = nsSync[n].obj
    <3>1. CASE Present(namespaces[n])
      <4>1. Present(nsSync[n].obj) /\ Copy(n, nsSync[n].obj)
        BY <2>3 DEF Accounts, Amounts, Good
      <4>2. nsSync[n].obj.uid = 1 BY <1>2, <4>1 DEF Copy
      <4>3. nsSync[n].obj.hard = namespaces[n].hard BY <1>2, <3>1, <4>1, <4>2 DEF Copy
      <4>4. Holding(n)' = Holding(n) BY <2>1, <2>3, <3>1, <4>3 DEF Holding
      <4> QED BY <1>3, <4>4
    <3>2. CASE ~Present(namespaces[n])
      <4>1. Holding(n)' = Holding(n) BY <2>1, <2>3, <3>2 DEF Holding
      <4> QED BY <1>3, <4>1
    <3> QED BY <3>1, <3>2
  <2> QED BY <1>5, <2>2, <2>3 DEF InHand
<1>6. CASE ~Present(namespaces'[n]) /\ ~GivingBack(nsSync'[n])
  <2>1. Holding(n)' = Nothing BY <1>6 DEF Holding
  <2> QED BY <1>3, <2>1, NothingLimits
<1> QED BY <1>4, <1>5, <1>6

(* Names that were given once had been given once before.                  *)
LEMMA NamedOnceBefore ==
    ASSUME NInv, NInv', NEW p \in Projects, NamedOnce(p)',
           \A n \in Namespaces : Continues(namespaces'[n], namespaces[n])
    PROVE  /\ NamedOnce(p)
           /\ \A n \in Namespaces : ProjectOf[n] = p => namespaces'[n].uid <= 1
<1>1. \A n \in Namespaces : namespaces[n].uid \in Nat /\ namespaces'[n].uid \in Nat
  BY DEF NInv, TypeOK, IsNamespace
<1>2. \A n \in Namespaces : ProjectOf[n] = p => namespaces'[n].uid <= 1 BY DEF NamedOnce
<1> QED BY <1>1, <1>2 DEF NamedOnce, Continues

(* What a ledger says and what the namespaces in it hold are numbers.      *)
LEMMA Numbers ==
    ASSUME NInv, Accounts, NEW p \in Projects, NEW c
    PROVE  /\ At(projects[p].used, c) \in Int /\ Total(projects[p].nss, Held, c) \in Nat
           /\ IsFiniteSet(projects[p].nss) /\ projects[p].nss \subseteq Namespaces
           /\ \A n \in projects[p].nss : /\ ProjectOf[n] = p /\ namespaces[n].uid # 0
                                         /\ At(Held[n].hard, c) \in Nat
<1>1. IsLedger(projects[p].used) /\ projects[p].nss \subseteq Namespaces
  BY DEF NInv, TypeOK, IsProject
<1>2. PICK S, held : S = projects[p].nss /\ held = Held OBVIOUS
<1>3. IsFiniteSet(S) /\ \A n \in S : ProjectOf[n] = p /\ namespaces[n].uid # 0
  BY <1>2 DEF Accounts, Lists
<1>4. \A n \in S : At(held[n].hard, c) \in Nat BY <1>1, <1>2, HoldsQuota
<1>5. Total(S, held, c) \in Nat BY <1>3, <1>4, UnitsFinite
<1> QED BY <1>1, <1>2, <1>3, <1>4, <1>5 DEF IsLedger, At

(* The namespaces of a ledger that nobody has written hold no more.        *)
LEMMA MarginKept ==
    ASSUME NInv, NInv', Accounts, edits' = 0 => edits = 0,
           \A n \in Namespaces :
               Continues(namespaces'[n], namespaces[n]) /\ InHand(n, nsSync'[n]),
           NEW p \in Projects, projects'[p] = projects[p], edits' = 0, NamedOnce(p)',
           NEW c \in Clusters
    PROVE  Margin(p, c)' >= Margin(p, c)
<1>1. NamedOnce(p) /\ \A n \in Namespaces : ProjectOf[n] = p => namespaces'[n].uid <= 1
  BY NamedOnceBefore
<1>2. PICK S, before, after : S = projects[p].nss /\ before = Held /\ after = Held' OBVIOUS
<1>3. /\ IsFiniteSet(S) /\ S \subseteq Namespaces
      /\ \A n \in S : ProjectOf[n] = p /\ namespaces[n].uid # 0
  BY <1>2, Numbers
<1>4. ASSUME NEW n \in S
      PROVE  /\ At(before[n].hard, c) \in Nat /\ At(after[n].hard, c) \in Nat
             /\ At(after[n].hard, c) <= At(before[n].hard, c)
  <2>1. n \in Namespaces /\ namespaces'[n].uid <= 1 /\ namespaces[n].uid # 0
    BY <1>1, <1>3
  <2>2. before[n].hard = Holding(n) /\ At(Holding(n), c) \in Nat BY <1>2, <2>1, HoldsQuota
  <2>3. At(Holding(n)', c) \in Nat
    <3>1. IsLedger(namespaces'[n].hard) /\ IsLedger(nsSync'[n].obj.hard)
      BY <2>1 DEF NInv, TypeOK, IsNamespace, InHand, IsSync
    <3>2. Limits(namespaces'[n].hard) /\ Limits(nsSync'[n].obj.hard)
      BY <2>1 DEF Continues, InHand, Good
    <3>3. IsLedger(Holding(n)') /\ Limits(Holding(n)')
      BY <3>1, <3>2, NothingLimits DEF Holding
    <3> QED BY <3>3, AtNat
  <2>4. after[n].hard = Holding(n)' BY <1>2, <2>1 DEF Held
  <2>5. At(Holding(n)', c) <= At(Holding(n), c) BY <2>1, HoldsNoMore
  <2> QED BY <2>2, <2>3, <2>4, <2>5
<1>5. Total(S, after, c) <= Total(S, before, c) BY <1>3, <1>4, TotalAtMost
<1>6. At(projects[p].used, c) \in Int BY Numbers
<1>7. Total(S, after, c) \in Nat /\ Total(S, before, c) \in Nat BY <1>3, <1>4, UnitsFinite
<1>8. projects'[p].used = projects[p].used /\ projects'[p].nss = S BY <1>2
<1>9. Margin(p, c) = At(projects[p].used, c) - Total(S, before, c) BY <1>2 DEF Margin
<1>10. Margin(p, c)' = At(projects[p].used, c) - Total(S, after, c)
  BY <1>2, <1>8 DEF Margin
<1> QED BY <1>5, <1>6, <1>7, <1>9, <1>10

(* A step that writes no ledger.                                           *)
LEMMA BooksKept ==
    ASSUME BInv, NInv', edits' = 0 => edits = 0, UNCHANGED projects,
           \A n \in Namespaces :
               /\ Continues(namespaces'[n], namespaces[n])
               /\ nsListed'[n] \in {nsListed[n], namespaces[n]}
               /\ nsSeen'[n] = "Pending" => Present(nsListed'[n])
               /\ InHand(n, nsSync'[n]),
           \A r \in requests' : r \in requests \/ Asked(r)'
    PROVE  Booked
<1>1. \A p \in Projects :
          /\ IsFiniteSet(projects'[p].nss)
          /\ \A n \in projects'[p].nss : ProjectOf[n] = p /\ namespaces[n].uid # 0
  BY DEF BInv, Accounts, Lists
<1>2. Accounts' BY <1>1, AccountsKept DEF BInv
<1>3. ASSUME NEW p \in Projects, edits' = 0, NamedOnce(p)'
      PROVE  NamedOnce(p) /\ \A c \in Clusters : Margin(p, c)' >= Margin(p, c)
  BY <1>3, NamedOnceBefore, MarginKept DEF BInv
<1>4. Carries BY <1>3 DEF Carries
<1> QED BY <1>2, <1>4 DEF Booked

(* A worker that does not move has in hand what it had.                    *)
LEMMA HandStays ==
    ASSUME BInv, NEW n \in Namespaces
    PROVE  /\ InHand(n, nsSync[n]) /\ Continues(namespaces[n], namespaces[n])
           /\ nsSeen[n] = "Pending" => Present(nsListed[n])
<1>1. InHand(n, nsSync[n]) BY Holds DEF BInv, InHand, Accounts
<1> QED BY <1>1, Itself DEF BInv, Accounts

(* Counting a namespace adds at least what it holds to the ledger.         *)
LEMMA CountedMargin ==
    ASSUME NEW S, IsFiniteSet(S), NEW n, NEW quota, NEW given, NEW c, NEW h,
           NEW u, IsLedger(u), IsLedger(h),
           At(h, c) \in Nat, At(given[n].hard, c) \in Nat, At(given[n].hard, c) <= At(h, c),
           \A x \in S : /\ At(quota[x].hard, c) \in Nat
                        /\ At(given[x].hard, c) \in Nat
                        /\ x # n => At(given[x].hard, c) <= At(quota[x].hard, c)
    PROVE  At(AddClusterHardToUsed(u, h), c) - Total(S \cup {n}, given, c)
               >= At(u, c) - Total(S, quota, c)
<1> DEFINE R == S \ {n}
<1>1. IsFiniteSet(R) BY FS_RemoveElement
<1>2. At(AddClusterHardToUsed(u, h), c) = At(u, c) + At(h, c)
  BY DEF AddClusterHardToUsed, IsLedger, At
<1>3. At(u, c) \in Int BY DEF IsLedger, At
<1>4. /\ Total(R, quota, c) \in Nat /\ Total(S, quota, c) \in Nat
      /\ Total(R, quota, c) <= Total(S, quota, c)
  <2>1. \A x \in S : At(quota[x].hard, c) \in Nat OBVIOUS
  <2>2. Total(S, quota, c) \in Nat BY <2>1, UnitsFinite
  <2>3. CASE n \in S
    <3>1. At(quota[n].hard, c) \in Nat BY <2>3
    <3>2. /\ Total(R, quota, c) \in Nat
          /\ Total(S, quota, c) = Total(R, quota, c) + At(quota[n].hard, c)
      BY <2>1, <2>3, TotalWithoutOne
    <3> QED BY <2>2, <3>1, <3>2
  <2>4. CASE n \notin S
    <3>1. R = S BY <2>4
    <3> QED BY <2>2, <3>1
  <2> QED BY <2>3, <2>4
<1>5. Total(R, given, c) <= Total(R, quota, c) /\ Total(R, given, c) \in Nat
  BY <1>1, TotalAtMost, UnitsFinite
<1>6. n \notin R /\ S \cup {n} = R \cup {n} OBVIOUS
<1>7. \A x \in R \cup {n} : At(given[x].hard, c) \in Nat OBVIOUS
<1> HIDE DEF R
<1>8. Total(R \cup {n}, given, c) = Total(R, given, c) + At(given[n].hard, c)
  BY <1>1, <1>6, <1>7, TotalWithOneMore
<1>9. Total(S \cup {n}, given, c) = Total(R, given, c) + At(given[n].hard, c) BY <1>6, <1>8
<1> QED BY <1>2, <1>3, <1>4, <1>5, <1>9

(* Giving back what a namespace holds leaves what the others hold.         *)
LEMMA UncountedMargin ==
    ASSUME NEW S, IsFiniteSet(S), NEW n \in S, NEW quota, NEW given, NEW c, NEW h,
           NEW u, IsLedger(u), IsLedger(h), At(u, c) - Total(S, quota, c) >= 0,
           At(h, c) = At(quota[n].hard, c),
           \A x \in S : /\ At(quota[x].hard, c) \in Nat
                        /\ x # n => /\ At(given[x].hard, c) \in Nat
                                    /\ At(given[x].hard, c) <= At(quota[x].hard, c)
    PROVE  At(SubClusterHardFromUsed(u, h), c) - Total(S \ {n}, given, c)
               >= At(u, c) - Total(S, quota, c)
<1> DEFINE R == S \ {n}
<1>1. IsFiniteSet(R) BY FS_RemoveElement
<1>2. At(SubClusterHardFromUsed(u, h), c) = IF c \in DOMAIN u THEN At(u, c) - At(h, c) ELSE 0
  BY DEF SubClusterHardFromUsed, At
<1>3. At(u, c) \in Int /\ (c \notin DOMAIN u => At(u, c) = 0) BY DEF IsLedger, At
<1>4. \A x \in S : At(quota[x].hard, c) \in Nat OBVIOUS
<1>5. /\ Total(R, quota, c) \in Nat
      /\ Total(S, quota, c) = Total(R, quota, c) + At(quota[n].hard, c)
  BY <1>4, TotalWithoutOne
<1>6. Total(R, given, c) <= Total(R, quota, c) /\ Total(R, given, c) \in Nat
  BY <1>1, TotalAtMost, UnitsFinite
<1>7. At(quota[n].hard, c) \in Nat BY <1>4
<1> HIDE DEF R
<1>8. At(SubClusterHardFromUsed(u, h), c) - Total(R, given, c) >= At(u, c) - Total(S, quota, c)
  BY <1>2, <1>3, <1>5, <1>6, <1>7
<1> QED BY <1>8 DEF R

(* A worker's write of the ledger is stored: it was computed from the      *)
(* ledger that is there, and adds or takes what the worker has in hand.    *)
LEMMA StoreBooks ==
    ASSUME BInv, NInv', NEW n \in Namespaces, nsSync[n].pc = "commit", Unchanged(n), Store(n),
           UNCHANGED <<namespaces, nsListed, nsSeen, requests, edits>>,
           NEW s, InHand(n, s), s = nsSync[n] \/ ~GivingBack(s),
           \A m \in Namespaces : nsSync'[m] = IF m = n THEN s ELSE nsSync[m]
    PROVE  Booked
<1>1. PICK q, w, obj : q = ProjectOf[n] /\ w = nsSync[n].write /\ obj = nsSync[n].obj OBVIOUS
<1>2. /\ q \in Projects /\ IsProject(projects[q]) /\ IsSync(nsSync[n]) /\ Shape(n, nsSync[n])
      /\ Amounts(n, nsSync[n]) /\ Good(n, obj)
  BY <1>1, Holds DEF BInv, Fits, Accounts
<1>3. projects[q] = w.base /\ projects' = [projects EXCEPT ![q] = w.new]
  BY <1>1 DEF Unchanged, Store
<1>4. w.kind \in {"count", "adjust", "uncount"} BY <1>1, <1>2 DEF Shape
<1>5. w.kind = "count" =>
          /\ w.new.nss = w.base.nss \cup {n} /\ ~GivingBack(s)
          /\ w.new.used = AddClusterHardToUsed(w.base.used, obj.hard)
  BY <1>1, <1>2 DEF Shape, Amounts, Writes, GivingBack
<1>6. w.kind = "uncount" =>
          /\ w.new.nss = w.base.nss \ {n} /\ n \in w.base.nss
          /\ w.new.used = SubClusterHardFromUsed(w.base.used, obj.hard)
  BY <1>1, <1>2 DEF Shape, Amounts, Writes
<1>18. w.kind = "adjust" => w.new.nss = w.base.nss /\ ~Unmistaken(q)
  BY <1>1, <1>2 DEF Shape, Writes
<1>7. Present(obj) BY <1>1, <1>2, <1>4 DEF Amounts, Counting, GivingBack, Writes
<1>8. IsNamespace(obj) /\ IsNamespace(namespaces[n]) BY <1>1, <1>2, Holds DEF BInv, IsSync
<1>9. namespaces[n].uid # 0
  <2>1. obj.uid \in 1..namespaces[n].uid BY <1>2, <1>7 DEF Good, Copy
  <2> QED BY <1>8, <2>1 DEF IsNamespace
<1>10. DOMAIN projects = Projects BY DEF BInv, NInv, TypeOK
<1>11. \A p \in Projects : projects'[p] = IF p = q THEN w.new ELSE projects[p]
  BY <1>3, <1>10
<1>12. ASSUME NEW m \in Namespaces
       PROVE  /\ InHand(m, nsSync'[m]) /\ Continues(namespaces'[m], namespaces[m])
              /\ nsListed'[m] \in {nsListed[m], namespaces[m]}
              /\ nsSeen'[m] = "Pending" => Present(nsListed'[m])
  BY HandStays
<1>13. \A p \in Projects :
          /\ IsFiniteSet(projects'[p].nss)
          /\ \A m \in projects'[p].nss : ProjectOf[m] = p /\ namespaces[m].uid # 0
  <2>1. \A p \in Projects : Lists(p) BY DEF BInv, Accounts
  <2>2. IsFiniteSet(w.base.nss) /\ \A m \in w.base.nss : ProjectOf[m] = q /\ namespaces[m].uid # 0
    BY <1>2, <1>3, <2>1 DEF Lists
  <2>3. IsFiniteSet(w.new.nss)
    <3>1. IsFiniteSet(w.base.nss \cup {n}) /\ IsFiniteSet(w.base.nss \ {n})
      BY <2>2, FS_AddElement, FS_RemoveElement
    <3> QED BY <1>4, <1>5, <1>6, <1>18, <2>2, <3>1
  <2>4. \A m \in w.new.nss : ProjectOf[m] = q /\ namespaces[m].uid # 0
    BY <1>1, <1>4, <1>5, <1>6, <1>9, <1>18, <2>2
  <2> QED BY <1>11, <2>1, <2>3, <2>4 DEF Lists
<1>14. Accounts' BY <1>12, <1>13, AccountsKept DEF BInv
<1>15. ASSUME NEW p \in Projects, edits' = 0, NamedOnce(p)', NEW c \in Clusters,
              Margin(p, c) >= 0
       PROVE  Margin(p, c)' >= Margin(p, c)
  <2>1. CASE p # q
    <3>1. projects'[p] = projects[p] BY <1>11, <2>1
    <3> QED BY <1>12, <1>15, <3>1, MarginKept DEF BInv
  <2>2. CASE p = q
    <3>1. PICK S, u, before, after :
              S = w.base.nss /\ u = w.base.used /\ before = Held /\ after = Held'
      OBVIOUS
    <3>2. /\ IsFiniteSet(S) /\ S \subseteq Namespaces /\ IsLedger(u) /\ IsLedger(obj.hard)
          /\ \A m \in S : ProjectOf[m] = p /\ namespaces[m].uid # 0
      BY <1>2, <1>3, <1>8, <2>2, <3>1 DEF BInv, Accounts, Lists, IsProject, IsNamespace
    <3>3. NamedOnce(p) /\ \A m \in Namespaces : ProjectOf[m] = p => namespaces'[m].uid <= 1
      BY <1>12, <1>15, NamedOnceBefore DEF BInv
    <3>4. Margin(p, c) = At(u, c) - Total(S, before, c) BY <1>3, <2>2, <3>1 DEF Margin
    <3>5. ASSUME NEW m \in Namespaces
          PROVE  /\ before[m].hard = Holding(m) /\ At(before[m].hard, c) \in Nat
                 /\ after[m].hard = Holding(m)' /\ At(after[m].hard, c) \in Nat
      <4>1. before[m].hard = Holding(m) /\ At(Holding(m), c) \in Nat
        BY <3>1, HoldsQuota DEF BInv
      <4>2. after[m].hard = Holding(m)' BY <3>1 DEF Held
      <4>3. IsLedger(namespaces[m].hard) /\ IsLedger(nsSync'[m].obj.hard)
        BY <1>12, Holds DEF BInv, IsNamespace, InHand, IsSync
      <4>4. Limits(namespaces[m].hard) /\ Limits(nsSync'[m].obj.hard)
        BY <1>12 DEF BInv, Accounts, InHand, Good
      <4>5. IsLedger(Holding(m)') /\ Limits(Holding(m)')
        BY <4>3, <4>4, NothingLimits DEF Holding
      <4> QED BY <4>1, <4>2, <4>5, AtNat
    <3>6. ASSUME NEW m \in S PROVE At(after[m].hard, c) <= At(before[m].hard, c)
      <4>1. m \in Namespaces /\ namespaces'[m].uid <= 1 /\ namespaces[m].uid # 0
        BY <3>2, <3>3
      <4>2. At(Holding(m)', c) <= At(Holding(m), c)
        BY <1>12, <1>15, <4>1, HoldsNoMore DEF BInv
      <4> QED BY <3>5, <4>1, <4>2
    <3>7. namespaces[n].uid = 1
      <4>1. namespaces[n].uid <= 1 BY <1>1, <2>2, <3>3
      <4> QED BY <1>8, <1>9, <4>1 DEF IsNamespace
    <3>8. obj.uid = 1 BY <1>2, <1>7, <3>7 DEF Good, Copy
    <3>9. Present(namespaces[n]) => obj.hard = namespaces[n].hard
      BY <1>2, <1>7, <1>15, <3>7, <3>8 DEF Good, Copy
    <3>10. Limits(obj.hard) /\ At(obj.hard, c) \in Nat BY <1>2, <3>2, AtNat DEF Good
    <3>11. Margin(p, c)' = At(w.new.used, c) - Total(w.new.nss, after, c)
      BY <1>11, <2>2, <3>1 DEF Margin
    <3>12. CASE w.kind = "count"
      <4>1. At(after[n].hard, c) <= At(obj.hard, c)
        <5>1. after[n].hard = IF Present(namespaces[n]) THEN namespaces[n].hard ELSE Nothing
          BY <1>5, <3>5, <3>12 DEF Holding
        <5> QED BY <3>9, <3>10, <5>1, NothingLimits
      <4>2. At(AddClusterHardToUsed(u, obj.hard), c) - Total(S \cup {n}, after, c)
                >= At(u, c) - Total(S, before, c)
        BY <3>2, <3>5, <3>6, <3>10, <4>1, CountedMargin
      <4> QED BY <1>5, <3>1, <3>4, <3>11, <3>12, <4>2
    <3>13. CASE w.kind = "uncount"
      <4>1. n \in S BY <1>6, <3>1, <3>13
      <4>2. At(obj.hard, c) = At(before[n].hard, c)
        <5>1. GivingBack(nsSync[n]) BY <1>1, <3>13 DEF GivingBack, Writes
        <5>2. before[n].hard = obj.hard BY <1>1, <3>5, <3>9, <5>1 DEF Holding
        <5> QED BY <5>2
      <4>3. At(SubClusterHardFromUsed(u, obj.hard), c) - Total(S \ {n}, after, c)
                >= At(u, c) - Total(S, before, c)
        BY <1>15, <3>2, <3>4, <3>5, <3>6, <4>1, <4>2, UncountedMargin
      <4> QED BY <1>6, <3>1, <3>4, <3>11, <3>13, <4>3
    <3>14. w.kind # "adjust" BY <1>18, <2>2, <3>3 DEF NamedOnce
    <3> QED BY <1>4, <3>12, <3>13, <3>14
  <2> QED BY <2>1, <2>2
<1>16. \A p \in Projects : NamedOnce(p)' => NamedOnce(p)
  BY <1>12, NamedOnceBefore DEF BInv
<1>17. Carries BY <1>15, <1>16 DEF Carries
<1> QED BY <1>14, <1>17 DEF Booked

------------------------------------------------------------------------------
(* The steps.                                                              *)

(* A worker that keeps its object and has nothing to write.                *)
LEMMA SameInHand ==
    ASSUME BInv, NEW n \in Namespaces, NEW s, IsSync(s), s.obj = nsSync[n].obj,
           s.pc \notin {"commit", "count", "uncount"}, Creating(s) => Creating(nsSync[n])
    PROVE  InHand(n, s)
<1>1. Good(n, s.obj) /\ Amounts(n, nsSync[n]) BY DEF BInv, Accounts
<1>2. Creating(s) => Present(s.obj) BY <1>1 DEF Amounts
<1> QED BY <1>1, <1>2 DEF InHand, Amounts, Counting, GivingBack, Writes

(* An idle worker.                                                         *)
LEMMA IdleInHand == ASSUME NEW n PROVE InHand(n, Idle)
<1>1. IsSync(Idle) BY IdleFits
<1>2. Idle.pc = "idle" /\ Idle.obj = NoNamespace(0) BY DEF Idle
<1> HIDE DEF Idle
<1>3. Good(n, Idle.obj)
  BY <1>2, NothingLimits DEF Good, Copy, NoNamespace, Present
<1> QED BY <1>1, <1>2, <1>3 DEF InHand, Amounts, Counting, Creating, GivingBack, Writes

(* A worker moves and nothing else does.                                   *)
LEMMA WorkerBooks ==
    ASSUME BInv, NInv', NEW n \in Namespaces, NEW s, InHand(n, s), Becomes(n, s),
           UNCHANGED <<projects, namespaces, nsListed, requests, edits>>,
           \A m \in Namespaces : nsSeen'[m] \in {nsSeen[m], "Available", "Failed"}
    PROVE  Booked
<1>1. \A m \in Namespaces : nsSync'[m] = IF m = n THEN s ELSE nsSync[m]
  BY DEF BInv, NInv, TypeOK, Becomes
<1>2. ASSUME NEW m \in Namespaces
      PROVE  /\ Continues(namespaces'[m], namespaces[m])
             /\ nsListed'[m] \in {nsListed[m], namespaces[m]}
             /\ nsSeen'[m] = "Pending" => Present(nsListed'[m])
             /\ InHand(m, nsSync'[m])
  BY <1>1, HandStays
<1> QED BY <1>2, BooksKept

(* A sync ends.                                                            *)
LEMMA DoneBooks ==
    ASSUME BInv, NInv', NEW n \in Namespaces, Done(n),
           UNCHANGED <<projects, namespaces, nsListed, requests, edits>>,
           \A m \in Namespaces : nsSeen'[m] \in {nsSeen[m], "Available", "Failed"}
    PROVE  Booked
<1>1. PICK s : s = Idle OBVIOUS
<1>2. InHand(n, s) /\ Becomes(n, s) BY <1>1, IdleInHand DEF Done
<1> QED BY <1>2, WorkerBooks

(* Somebody stores a namespace beside the workers.                         *)
LEMMA BesideBooks ==
    ASSUME BInv, NInv', edits' = 0 => edits = 0, UNCHANGED <<projects, workerVars>>,
           \A n \in Namespaces : Continues(namespaces'[n], namespaces[n]),
           \A r \in requests' : r \in requests \/ Asked(r)'
    PROVE  Booked
<1>1. ASSUME NEW m \in Namespaces
      PROVE  /\ nsListed'[m] \in {nsListed[m], namespaces[m]}
             /\ nsSeen'[m] = "Pending" => Present(nsListed'[m])
             /\ InHand(m, nsSync'[m])
  BY HandStays DEF workerVars
<1> QED BY <1>1, BooksKept

(* The informer, and the syncs that take up or forget a key.               *)
LEMMA DeliverBooks ==
    ASSUME BInv, NInv', NEW n \in Namespaces, Deliver(n) PROVE Booked
<1>1. UNCHANGED <<projects, namespaces, nsSync, requests, edits>>
  BY DEF Deliver, storeUnchanged, userVars
<1>2. \A m \in Namespaces :
          /\ nsListed'[m] = IF m = n THEN namespaces[n] ELSE nsListed[m]
          /\ nsSeen'[m] = IF m = n THEN namespaces[n].phase ELSE nsSeen[m]
  BY DEF Deliver, BInv, NInv, TypeOK
<1>3. ASSUME NEW m \in Namespaces
      PROVE  /\ Continues(namespaces'[m], namespaces[m])
             /\ nsListed'[m] \in {nsListed[m], namespaces[m]}
             /\ nsSeen'[m] = "Pending" => Present(nsListed'[m])
             /\ InHand(m, nsSync'[m])
  BY <1>1, <1>2, HandStays DEF Present
<1> QED BY <1>1, <1>3, BooksKept

LEMMA TakeBooks ==
    ASSUME BInv, NInv', NEW n \in Namespaces,
           SyncGone(n) \/ SyncTerminating(n) \/ SyncPending(n) \/ SyncSettled(n)
    PROVE  Booked
<1>1. UNCHANGED <<projects, namespaces, nsListed, nsSeen, requests, edits>>
  BY DEF SyncGone, SyncTerminating, SyncPending, SyncSettled, Take, listerUnchanged,
         storeUnchanged, userVars
<1>2. CASE UNCHANGED nsSync
  <2>1. ASSUME NEW m \in Namespaces
        PROVE  /\ Continues(namespaces'[m], namespaces[m])
               /\ nsListed'[m] \in {nsListed[m], namespaces[m]}
               /\ nsSeen'[m] = "Pending" => Present(nsListed'[m])
               /\ InHand(m, nsSync'[m])
    BY <1>1, <1>2, HandStays
  <2> QED BY <1>1, <2>1, BooksKept
<1>3. CASE SyncTerminating(n)
  <2>1. PICK s : s = [nsSync[n] EXCEPT !.pc = "get"] OBVIOUS
  <2>2. IsSync(s) /\ s.pc = "get" /\ s.obj = nsSync[n].obj
    BY <2>1, Holds DEF BInv, IsSync
  <2>3. InHand(n, s) BY <2>2, SameInHand DEF Creating
  <2>4. Becomes(n, s) BY <1>3, <2>1 DEF SyncTerminating
  <2> QED BY <1>1, <2>3, <2>4, WorkerBooks
<1>4. CASE SyncPending(n)
  <2>1. PICK s : s = [nsSync[n] EXCEPT !.pc = "count", !.obj = nsListed[n],
                                         !.state = nsCached[n]]
    OBVIOUS
  <2>2. IsSync(s) /\ s.pc = "count" /\ s.obj = nsListed[n]
    BY <2>1, Holds, Types DEF BInv, IsSync, Caches
  <2>3. Present(nsListed[n]) BY <1>4 DEF SyncPending, Take, BInv, Accounts
  <2>4. InHand(n, s)
    BY <2>2, <2>3 DEF BInv, Accounts, InHand, Amounts, Counting, GivingBack, Writes
  <2>5. Becomes(n, s) BY <1>4, <2>1 DEF SyncPending
  <2> QED BY <1>1, <2>4, <2>5, WorkerBooks
<1> QED BY <1>2, <1>3, <1>4 DEF SyncGone, SyncSettled

(* A write of the ledger is submitted.                                     *)
LEMMA SubmitInHand ==
    ASSUME BInv, NEW n \in Namespaces, NEW kind \in {"count", "adjust", "uncount"},
           NEW new, IsProject(new), Submit(n, kind, new), Present(nsSync[n].obj),
           kind = "adjust" => ~Unmistaken(ProjectOf[n]),
           kind = "count" =>
               new.used = AddClusterHardToUsed(projects[ProjectOf[n]].used, nsSync[n].obj.hard),
           kind = "uncount" =>
               /\ nsSync[n].pc = "uncount" /\ n \in projects[ProjectOf[n]].nss
               /\ new.used = SubClusterHardFromUsed(projects[ProjectOf[n]].used, nsSync[n].obj.hard)
    PROVE  \E s : InHand(n, s) /\ Becomes(n, s)
<1> DEFINE w == [kind |-> kind, base |-> projects[ProjectOf[n]], new |-> new]
           s == [nsSync[n] EXCEPT !.pc = "commit", !.write = w]
<1>1. w.kind = kind /\ w.base = projects[ProjectOf[n]] /\ w.new = new OBVIOUS
<1>2. IsWrite(w) BY Holds DEF BInv, IsWrite
<1>3. Becomes(n, s) BY DEF Submit
<1> HIDE DEF w
<1>4. IsSync(s) /\ s.pc = "commit" /\ s.write = w /\ s.obj = nsSync[n].obj
  BY <1>2, Holds DEF BInv, IsSync
<1> HIDE DEF s
<1>5. Amounts(n, s)
  BY <1>1, <1>4 DEF Amounts, Creating, Counting, GivingBack, Writes
<1>6. Good(n, s.obj) BY <1>4 DEF BInv, Accounts
<1>7. GivingBack(s) => GivingBack(nsSync[n]) BY <1>1, <1>4 DEF GivingBack, Writes
<1> QED BY <1>3, <1>4, <1>5, <1>6, <1>7 DEF InHand

(* Counting, and giving back.                                              *)
LEMMA CountNamespaceBooks ==
    ASSUME BInv, NInv', NEW n \in Namespaces, CountNamespace(n) PROVE Booked
<1>1. UNCHANGED <<projects, namespaces, nsListed, nsSeen, requests, edits>>
  BY DEF CountNamespace, listerUnchanged, storeUnchanged, userVars
<1>2. PICK project, new, over : /\ project = projects[ProjectOf[n]]
                               /\ new = Counted(n, project) /\ over = Adjusted(n, project)
  OBVIOUS
<1>3. Present(nsSync[n].obj) /\ nsSync[n].pc = "count"
  BY DEF CountNamespace, BInv, Accounts, Amounts, Counting
<1>4. CASE Submit(n, "count", new)
  <2>1. IsProject(new) BY <1>2, LedgerTypes DEF BInv
  <2>2. new.used = AddClusterHardToUsed(project.used, nsSync[n].obj.hard)
    BY <1>2, Holds DEF BInv, Counted, IsProject
  <2>3. \E s : InHand(n, s) /\ Becomes(n, s) BY <1>2, <1>3, <1>4, <2>1, <2>2, SubmitInHand
  <2> QED BY <1>1, <2>3, WorkerBooks
<1>5. CASE Misled(n) /\ Submit(n, "adjust", over)
  <2>1. IsProject(over) BY <1>2, LedgerTypes DEF BInv
  <2>2. ~Unmistaken(ProjectOf[n]) BY <1>5 DEF Misled, Unmistaken
  <2>3. \E s : InHand(n, s) /\ Becomes(n, s) BY <1>3, <1>5, <2>1, <2>2, SubmitInHand
  <2> QED BY <1>1, <2>3, WorkerBooks
<1>6. CASE Step(n, "provision")
  <2>1. PICK s : s = [nsSync[n] EXCEPT !.pc = "provision"] OBVIOUS
  <2>2. IsSync(s) /\ s.pc = "provision" /\ s.obj = nsSync[n].obj
    BY <2>1, Holds DEF BInv, IsSync
  <2>3. Good(n, s.obj) BY <2>2 DEF BInv, Accounts
  <2>4. InHand(n, s)
    BY <1>3, <2>2, <2>3 DEF InHand, Amounts, Counting, Creating, GivingBack, Writes
  <2> QED BY <1>1, <1>6, <2>1, <2>4, WorkerBooks DEF Step
<1>7. CASE Done(n) BY <1>1, <1>7, DoneBooks
<1> QED BY <1>2, <1>4, <1>5, <1>6, <1>7 DEF CountNamespace, SubmitIfAdmitted, Requeue

LEMMA UncountNamespaceBooks ==
    ASSUME BInv, NInv', NEW n \in Namespaces, UncountNamespace(n) PROVE Booked
<1>1. UNCHANGED <<projects, namespaces, nsListed, nsSeen, requests, edits>>
  BY DEF UncountNamespace, listerUnchanged, storeUnchanged, userVars
<1>2. PICK project, new : project = projects[ProjectOf[n]] /\ new = Uncounted(n, project)
  OBVIOUS
<1>3. CASE n \in project.nss /\ Submit(n, "uncount", new)
  <2>1. IsProject(new) BY <1>2, LedgerTypes DEF BInv
  <2>2. new.used = SubClusterHardFromUsed(project.used, nsSync[n].obj.hard)
    BY <1>2, Holds DEF BInv, Uncounted, IsProject
  <2>3. Present(nsSync[n].obj) /\ nsSync[n].pc = "uncount"
    BY DEF UncountNamespace, BInv, Accounts, Amounts, GivingBack
  <2>4. \E s : InHand(n, s) /\ Becomes(n, s) BY <1>2, <1>3, <2>1, <2>2, <2>3, SubmitInHand
  <2> QED BY <1>1, <2>4, WorkerBooks
<1>4. CASE Step(n, "unprovision")
  <2>1. PICK s : s = [nsSync[n] EXCEPT !.pc = "unprovision"] OBVIOUS
  <2>2. IsSync(s) /\ s.pc = "unprovision" /\ s.obj = nsSync[n].obj
    BY <2>1, Holds DEF BInv, IsSync
  <2>3. InHand(n, s) BY <2>2, SameInHand DEF Creating
  <2> QED BY <1>1, <1>4, <2>1, <2>3, WorkerBooks DEF Step
<1> QED BY <1>2, <1>3, <1>4 DEF UncountNamespace

(* The steps on the cluster, and those that end a sync.                    *)
LEMMA ClusterBooks ==
    ASSUME BInv, NInv', NEW n \in Namespaces,
           Provision(n) \/ PushQuota(n) \/ Unprovision(n) \/ FinalizeNamespace(n) \/ ClusterFails(n)
    PROVE  Booked
<1>1. UNCHANGED <<projects, namespaces, nsListed, nsSeen, requests, edits>>
  BY DEF Provision, PushQuota, Unprovision, FinalizeNamespace, ClusterFails, listerUnchanged,
         storeUnchanged, userVars
<1>2. PICK failed, given, quota, over :
          /\ failed = [nsSync[n] EXCEPT !.pc = "report", !.next = "Failed"]
          /\ given = [nsSync[n] EXCEPT !.pc = "report", !.next = "Available"]
          /\ quota = [nsSync[n] EXCEPT !.pc = "quota"]
          /\ over = [nsSync[n] EXCEPT !.pc = "finalize"]
  OBVIOUS
<1>3. /\ IsSync(failed) /\ failed.pc = "report" /\ failed.obj = nsSync[n].obj
      /\ IsSync(given) /\ given.pc = "report" /\ given.obj = nsSync[n].obj
      /\ IsSync(quota) /\ quota.pc = "quota" /\ quota.obj = nsSync[n].obj
      /\ IsSync(over) /\ over.pc = "finalize" /\ over.obj = nsSync[n].obj
  BY <1>2, Holds DEF BInv, IsSync
<1>4. InHand(n, over) BY <1>3, SameInHand DEF Creating
<1>5. nsSync[n].pc \in {"provision", "quota"} =>
          InHand(n, failed) /\ InHand(n, given) /\ InHand(n, quota)
  BY <1>3, SameInHand DEF Creating
<1>6. \/ Done(n)
      \/ Becomes(n, over)
      \/ /\ nsSync[n].pc \in {"provision", "quota"}
         /\ Becomes(n, failed) \/ Becomes(n, given) \/ Becomes(n, quota)
  BY <1>2 DEF Provision, PushQuota, Unprovision, FinalizeNamespace, ClusterFails, Requeue, Step
<1>7. CASE Done(n) BY <1>1, <1>7, DoneBooks
<1>8. CASE Becomes(n, over) BY <1>1, <1>4, <1>8, WorkerBooks
<1>9. CASE /\ nsSync[n].pc \in {"provision", "quota"}
           /\ Becomes(n, failed) \/ Becomes(n, given) \/ Becomes(n, quota)
  BY <1>1, <1>5, <1>9, WorkerBooks
<1> QED BY <1>6, <1>7, <1>8, <1>9

(* The report of a phase is admitted, or not.                              *)
LEMMA ReportPhaseBooks ==
    ASSUME BInv, NInv', NEW n \in Namespaces, ReportPhase(n) PROVE Booked
<1>1. UNCHANGED <<projects, namespaces, nsListed, requests, edits>>
  BY DEF ReportPhase, storeUnchanged, userVars
<1>2. nsSync[n].next \in {"Available", "Failed"} BY Holds DEF BInv, IsSync
<1>3. \A m \in Namespaces : nsSeen'[m] \in {nsSeen[m], "Available", "Failed"}
  BY <1>2 DEF ReportPhase, BInv, NInv, TypeOK
<1>4. CASE Done(n) BY <1>1, <1>3, <1>4, DoneBooks
<1>5. CASE Step(n, "store")
  <2>1. PICK s : s = [nsSync[n] EXCEPT !.pc = "store"] OBVIOUS
  <2>2. IsSync(s) /\ s.pc = "store" /\ s.obj = nsSync[n].obj
    BY <2>1, Holds DEF BInv, IsSync
  <2>3. nsSync[n].pc = "report" BY DEF ReportPhase
  <2>4. InHand(n, s) BY <2>2, <2>3, SameInHand DEF Creating
  <2> QED BY <1>1, <1>3, <1>5, <2>1, <2>4, WorkerBooks DEF Step
<1> QED BY <1>4, <1>5 DEF ReportPhase, Requeue

(* The deleter gets the namespace as it is stored.                         *)
LEMMA GetDoomedBooks ==
    ASSUME BInv, NInv', NEW n \in Namespaces, GetDoomed(n) PROVE Booked
<1>1. UNCHANGED <<projects, namespaces, nsListed, nsSeen, requests, edits>>
  BY DEF GetDoomed, listerUnchanged, storeUnchanged, userVars
<1>2. CASE Done(n) BY <1>1, <1>2, DoneBooks
<1>3. CASE namespaces[n].phase = "Terminating"
           /\ Becomes(n, [nsSync[n] EXCEPT !.pc = "uncount", !.obj = namespaces[n]])
  <2>1. PICK s : s = [nsSync[n] EXCEPT !.pc = "uncount", !.obj = namespaces[n]] OBVIOUS
  <2>2. IsSync(s) /\ s.pc = "uncount" /\ s.obj = namespaces[n]
    BY <2>1, Holds DEF BInv, IsSync
  <2>3. Good(n, s.obj) /\ Present(s.obj) BY <1>3, <2>2 DEF BInv, Accounts, Present
  <2>4. InHand(n, s)
    BY <2>2, <2>3 DEF InHand, Amounts, Counting, Creating, GivingBack, Writes
  <2> QED BY <1>1, <1>3, <2>1, <2>4, WorkerBooks
<1> QED BY <1>2, <1>3 DEF GetDoomed

(* A write of the ledger is stored or refused.                             *)
LEMMA CommitBooks == ASSUME BInv, NInv', NEW n \in Namespaces, Commit(n) PROVE Booked
<1>1. /\ UNCHANGED <<namespaces, nsListed, nsSeen, requests, edits>>
      /\ nsSync[n].pc = "commit" /\ IsSync(nsSync[n])
  BY Holds DEF Commit, listerUnchanged, userVars, BInv
<1>2. PICK on, un : /\ on = [nsSync[n] EXCEPT !.pc = "provision", !.write = NoWrite]
                    /\ un = [nsSync[n] EXCEPT !.pc = "unprovision", !.write = NoWrite]
  OBVIOUS
<1>3. /\ IsSync(on) /\ on.pc = "provision" /\ on.obj = nsSync[n].obj
      /\ IsSync(un) /\ un.pc = "unprovision" /\ un.obj = nsSync[n].obj
  BY <1>1, <1>2, NoWriteType DEF IsSync
<1>4. Good(n, nsSync[n].obj) /\ Amounts(n, nsSync[n]) BY DEF BInv, Accounts
<1>5. ~GivingBack(on) /\ ~GivingBack(un) BY <1>3 DEF GivingBack, Writes
<1>6. InHand(n, un) BY <1>3, SameInHand DEF Creating
<1>7. nsSync[n].write.kind \in {"count", "adjust"} => InHand(n, on)
  BY <1>1, <1>3, <1>4, <1>5 DEF InHand, Amounts, Counting, Creating, Writes
<1>8. PICK idle : idle = Idle OBVIOUS
<1>9. InHand(n, idle) BY <1>8, IdleInHand
<1>10. PICK s : Becomes(n, s) /\ InHand(n, s) /\ (s = idle \/ ~GivingBack(s))
  BY <1>2, <1>5, <1>6, <1>7, <1>8, <1>9 DEF Commit, Proceed, Requeue, Done
<1>11. ~GivingBack(s) BY <1>8, <1>10 DEF GivingBack, Writes, Idle
<1>12. \A m \in Namespaces : nsSync'[m] = IF m = n THEN s ELSE nsSync[m]
  BY <1>10 DEF BInv, NInv, TypeOK, Becomes
<1>13. CASE UNCHANGED projects BY <1>1, <1>10, <1>13, WorkerBooks
<1>14. CASE Unchanged(n) /\ Store(n) BY <1>1, <1>10, <1>11, <1>12, <1>14, StoreBooks
<1> QED BY <1>13, <1>14 DEF Commit

(* A phase is stored over the object it was computed from.                 *)
LEMMA ReportContinues ==
    ASSUME BInv, NEW n \in Namespaces, nsSync[n].pc = "store", Fresh(n, nsSync[n].obj),
           namespaces' = [namespaces EXCEPT ![n] = Reported(n)]
    PROVE  \A m \in Namespaces : Continues(namespaces'[m], namespaces[m])
<1>1. IsSync(nsSync[n]) /\ IsNamespace(nsSync[n].obj) BY Holds DEF BInv, IsSync
<1>2. /\ Reported(n).uid = nsSync[n].obj.uid /\ Reported(n).hard = nsSync[n].obj.hard
      /\ nsSync[n].obj.uid \in Nat
  BY <1>1 DEF Reported, IsNamespace
<1>3. Present(nsSync[n].obj) /\ Limits(nsSync[n].obj.hard) /\ Present(Reported(n))
  BY <1>1 DEF BInv, Accounts, Amounts, Creating, Good, Reported, IsNamespace, IsSync, Present
<1>4. Continues(Reported(n), namespaces[n]) BY <1>2, <1>3 DEF Fresh, Continues
<1>5. \A m \in Namespaces : namespaces'[m] = IF m = n THEN Reported(n) ELSE namespaces[m]
  BY DEF BInv, NInv, TypeOK
<1> QED BY <1>4, <1>5, HandStays

LEMMA StorePhaseBooks == ASSUME BInv, NInv', NEW n \in Namespaces, StorePhase(n) PROVE Booked
<1>1. /\ UNCHANGED <<projects, nsListed, nsSeen, requests, edits>>
      /\ nsSync[n].pc = "store" /\ Becomes(n, Idle)
  BY DEF StorePhase, listerUnchanged, userVars, Done, Requeue
<1>2. \A m \in Namespaces : Continues(namespaces'[m], namespaces[m])
  BY <1>1, ReportContinues, HandStays DEF StorePhase
<1>3. \A m \in Namespaces : nsSync'[m] = IF m = n THEN Idle ELSE nsSync[m]
  BY <1>1 DEF BInv, NInv, TypeOK, Becomes
<1>4. ASSUME NEW m \in Namespaces
      PROVE  /\ nsListed'[m] \in {nsListed[m], namespaces[m]}
             /\ nsSeen'[m] = "Pending" => Present(nsListed'[m])
             /\ InHand(m, nsSync'[m])
  BY <1>1, <1>3, HandStays, IdleInHand
<1> QED BY <1>1, <1>2, <1>4, BooksKept

(* A health loop.                                                          *)
LEMMA WatchBooks == ASSUME BInv, NInv', NEW n \in Namespaces, Watch(n) PROVE Booked
<1>1. PICK i \in Slots : Tick(n, i) \/ CheckHealth(n, i) BY DEF Watch
<1>2. UNCHANGED <<projects, workerVars, requests, edits>>
  BY <1>1 DEF Tick, CheckHealth, storeUnchanged, userVars
<1>3. PICK obj : obj = loops[n][i].obj OBVIOUS
<1>4. CASE UNCHANGED namespaces BY <1>2, <1>4, HandStays, BesideBooks
<1>5. ASSUME NEW new \in Judged(n, obj), obj.phase \in {"Available", "Failed"}, Fresh(n, obj),
             namespaces' = [namespaces EXCEPT ![n] = new]
      PROVE  Booked
  <2>1. obj = namespaces[n] /\ IsNamespace(obj) /\ Present(obj) /\ Limits(obj.hard)
    BY <1>5, Holds DEF Fresh, Present, BInv, Accounts, Good
  <2>2. new.uid = obj.uid /\ new.hard = obj.hard /\ obj.uid \in Nat /\ Present(new)
    BY <2>1, JudgedTypes DEF IsNamespace, Present
  <2>3. Continues(new, namespaces[n]) BY <2>1, <2>2 DEF Continues
  <2>4. \A m \in Namespaces : namespaces'[m] = IF m = n THEN new ELSE namespaces[m]
    BY <1>5 DEF BInv, NInv, TypeOK
  <2> QED BY <1>2, <2>3, <2>4, HandStays, BesideBooks
<1> QED BY <1>1, <1>3, <1>4, <1>5 DEF Tick, CheckHealth, storeUnchanged

(* Calls that fail and answers that are lost.                              *)
LEMMA CallFailsBooks == ASSUME BInv, NInv', NEW n \in Namespaces, CallFails(n) PROVE Booked
<1>1. UNCHANGED <<projects, namespaces, nsListed, nsSeen, requests, edits>>
  BY DEF CallFails, listerUnchanged, userVars
<1>2. CASE Done(n) BY <1>1, <1>2, DoneBooks
<1>3. CASE Proceed(n, "unprovision")
  <2>1. PICK s : s = [nsSync[n] EXCEPT !.pc = "unprovision", !.write = NoWrite] OBVIOUS
  <2>2. IsSync(s) /\ s.pc = "unprovision" /\ s.obj = nsSync[n].obj
    BY <2>1, Holds, NoWriteType DEF BInv, IsSync
  <2>3. InHand(n, s) BY <2>2, SameInHand DEF Creating
  <2> QED BY <1>1, <1>3, <2>1, <2>3, WorkerBooks DEF Proceed
<1> QED BY <1>2, <1>3 DEF CallFails, Requeue

LEMMA CommitLostBooks == ASSUME BInv, NInv', NEW n \in Namespaces, CommitLost(n) PROVE Booked
<1>1. UNCHANGED <<workerVars, nsListed, nsSeen, nsSync, requests, edits>>
  BY DEF CommitLost, userVars, workerVars
<1>2. CASE nsSync[n].pc = "commit" /\ Unchanged(n) /\ Store(n) /\ UNCHANGED namespaces
  <2>1. PICK s : s = nsSync[n] OBVIOUS
  <2>2. InHand(n, s) BY <2>1, HandStays
  <2>3. \A m \in Namespaces : nsSync'[m] = IF m = n THEN s ELSE nsSync[m] BY <1>1, <2>1
  <2> QED BY <1>1, <1>2, <2>1, <2>2, <2>3, StoreBooks
<1>3. CASE /\ nsSync[n].pc = "store" /\ Fresh(n, nsSync[n].obj)
           /\ namespaces' = [namespaces EXCEPT ![n] = Reported(n)] /\ UNCHANGED projects
  <2>1. \A m \in Namespaces : Continues(namespaces'[m], namespaces[m])
    BY <1>3, ReportContinues
  <2> QED BY <1>1, <1>3, <2>1, BesideBooks
<1> QED BY <1>2, <1>3 DEF CommitLost

(* What others do to the namespaces.                                       *)
LEMMA RemovedBooks == ASSUME BInv, NInv', NEW t \in Targets, Removed(t) PROVE Booked
<1>1. UNCHANGED <<projects, namespaces, workerVars, requests, edits>>
  BY DEF Removed, userVars
<1> QED BY <1>1, HandStays, BesideBooks

LEMMA PurgedBooks == ASSUME BInv, NInv', NEW p \in Projects, Purged(p) PROVE Booked
<1>1. UNCHANGED <<projects, workerVars, requests, edits>> BY DEF Purged, userVars
<1>2. ASSUME NEW n \in Namespaces PROVE Continues(namespaces'[n], namespaces[n])
  <2>1. CASE ProjectOf[n] = p
    <3>1. namespaces'[n] = NoNamespace(namespaces[n].uid) BY <2>1 DEF Purged
    <3>2. namespaces[n].uid \in Nat BY Holds DEF BInv, IsNamespace
    <3> QED BY <3>1, <3>2, NothingLimits DEF Continues, NoNamespace, Present
  <2>2. CASE ProjectOf[n] # p
    <3>1. namespaces'[n] = namespaces[n] BY <2>2 DEF Purged
    <3> QED BY <3>1, HandStays
  <2> QED BY <2>1, <2>2
<1> QED BY <1>1, <1>2, BesideBooks

LEMMA RestartBooks == ASSUME BInv, NInv', Restart PROVE Booked
<1>1. UNCHANGED <<projects, namespaces, requests, edits>> BY DEF Restart, userVars
<1>2. ASSUME NEW m \in Namespaces
      PROVE  /\ Continues(namespaces'[m], namespaces[m])
             /\ nsListed'[m] \in {nsListed[m], namespaces[m]}
             /\ nsSeen'[m] = "Pending" => Present(nsListed'[m])
             /\ InHand(m, nsSync'[m])
  BY <1>1, HandStays, IdleInHand DEF Restart, Present
<1> QED BY <1>1, <1>2, BooksKept

LEMMA NsDeleteBooks == ASSUME BInv, NInv', NEW n \in Namespaces, NsDelete(n) PROVE Booked
<1>1. UNCHANGED <<projects, workerVars, requests, edits>> BY DEF NsDelete, userVars
<1>2. PICK obj : obj = [namespaces[n] EXCEPT !.phase = "Terminating"] OBVIOUS
<1>3. /\ obj.uid = namespaces[n].uid /\ obj.hard = namespaces[n].hard
      /\ namespaces[n].uid \in Nat /\ Limits(namespaces[n].hard) /\ Present(obj)
  BY <1>2, Holds DEF BInv, IsNamespace, Accounts, Good, Present
<1>4. Present(namespaces[n]) BY DEF NsDelete, Present
<1>5. Continues(obj, namespaces[n]) BY <1>3, <1>4 DEF Continues
<1>6. \A m \in Namespaces : namespaces'[m] = IF m = n THEN obj ELSE namespaces[m]
  BY <1>2, Holds DEF NsDelete, BInv, NInv, TypeOK
<1> QED BY <1>1, <1>5, <1>6, HandStays, BesideBooks

(* The users.                                                              *)
LEMMA NsCreateBooks ==
    ASSUME BInv, NInv', NEW u \in Users, NEW n \in Namespaces, NsCreate(u, n) PROVE Booked
<1>1. UNCHANGED <<projects, namespaces, workerVars, edits>> BY DEF NsCreate
<1>2. PICK hard \in NsQuotas :
          /\ ValidateNamespace(n, NewNamespace(n, hard), namespaces[n])
          /\ requests' = requests \cup {[user |-> u, target |-> n, base |-> namespaces[n],
                                         new |-> NewNamespace(n, hard)]}
  BY DEF NsCreate
<1>3. PICK base, new : base = namespaces[n] /\ new = NewNamespace(n, hard) OBVIOUS
<1>4. ~Present(base) BY <1>3 DEF NsCreate
<1>5. /\ new.uid = base.uid + 1 /\ Present(new) /\ new.hard = hard
  BY <1>3 DEF NewNamespace, Present
<1>6. Limits(new.hard) BY <1>2, <1>3 DEF ValidateNamespace, Limits
<1>7. PICK r : r = [user |-> u, target |-> n, base |-> base, new |-> new] OBVIOUS
<1>8. r.base = base /\ r.new = new BY <1>7
<1>9. Asked(r)' BY <1>4, <1>5, <1>6, <1>8 DEF Asked
<1>10. \A q \in requests' : q \in requests \/ Asked(q)' BY <1>2, <1>3, <1>7, <1>9
<1> QED BY <1>1, <1>10, HandStays, BesideBooks

LEMMA NsUpdateBooks ==
    ASSUME BInv, NInv', NEW u \in Users, NEW n \in Namespaces, NsUpdate(u, n) PROVE Booked
<1>1. UNCHANGED <<projects, namespaces, workerVars>> BY DEF NsUpdate
<1>2. PICK hard \in NsQuotas :
          LET new == [namespaces[n] EXCEPT !.hard = hard]
          IN  /\ ValidateNamespace(n, new, namespaces[n])
              /\ requests' = requests \cup {[user |-> u, target |-> n, base |-> namespaces[n],
                                             new |-> new]}
  BY DEF NsUpdate
<1>3. PICK base, new : base = namespaces[n] /\ new = [base EXCEPT !.hard = hard] OBVIOUS
<1>4. Present(base) /\ IsNamespace(base) BY <1>3, Holds DEF NsUpdate, BInv
<1>5. new.uid = base.uid /\ Present(new) BY <1>3, <1>4 DEF IsNamespace, Present
<1>6. Limits(new.hard) BY <1>2, <1>3 DEF ValidateNamespace, Limits
<1>7. PICK r : r = [user |-> u, target |-> n, base |-> base, new |-> new] OBVIOUS
<1>8. r.base = base /\ r.new = new BY <1>7
<1>9. edits' # 0 BY DEF NsUpdate, BInv, NInv, TypeOK
<1>10. Asked(r)' BY <1>4, <1>5, <1>6, <1>8, <1>9 DEF Asked
<1>11. \A q \in requests' : q \in requests \/ Asked(q)' BY <1>2, <1>3, <1>7, <1>10
<1> QED BY <1>1, <1>9, <1>11, HandStays, BesideBooks

LEMMA NsCommitBooks == ASSUME BInv, NInv', NEW u \in Users, NsCommit(u) PROVE Booked
<1>1. PICK r \in requests :
          /\ requests' = requests \ {r}
          /\ namespaces' = IF Fresh(r.target, r.base)
                           THEN [namespaces EXCEPT ![r.target] = r.new] ELSE namespaces
  BY DEF NsCommit
<1>2. UNCHANGED <<projects, workerVars, edits>> BY DEF NsCommit
<1>3. PICK n, base, new : n = r.target /\ base = r.base /\ new = r.new OBVIOUS
<1>4. n \in Namespaces /\ IsNamespace(base) /\ IsNamespace(new)
  BY <1>3 DEF BInv, NInv, TypeOK, IsRequest
<1>5. /\ Limits(new.hard) /\ Present(new)
      /\ \/ ~Present(base) /\ new.uid = base.uid + 1
         \/ edits # 0 /\ Present(base) /\ new.uid = base.uid
  BY <1>3 DEF BInv, Accounts, Asked
<1>6. base.uid \in Nat BY <1>4 DEF IsNamespace
<1>7. Continues(new, base) BY <1>5, <1>6 DEF Continues
<1>8. \A m \in Namespaces :
          namespaces'[m] \in {namespaces[m]} \/ (namespaces[m] = base /\ namespaces'[m] = new)
  BY <1>1, <1>3, <1>4 DEF Fresh, BInv, NInv, TypeOK
<1>9. \A m \in Namespaces : Continues(namespaces'[m], namespaces[m])
  BY <1>7, <1>8, HandStays
<1> QED BY <1>1, <1>2, <1>9, BesideBooks

(* Every step.                                                             *)
LEMMA NextBooks == BInv /\ NInv' /\ [Next]_vars => Booked
<1> SUFFICES ASSUME BInv, NInv', [Next]_vars PROVE Booked OBVIOUS
<1>1. ASSUME NEW n \in Namespaces, Deliver(n) PROVE Booked BY <1>1, DeliverBooks
<1>2. ASSUME NEW n \in Namespaces, Work(n) PROVE Booked
  BY <1>2, TakeBooks, CountNamespaceBooks, UncountNamespaceBooks, CommitBooks, ClusterBooks,
     ReportPhaseBooks, StorePhaseBooks, GetDoomedBooks DEF Work
<1>3. ASSUME NEW n \in Namespaces, Watch(n) PROVE Booked BY <1>3, WatchBooks
<1>4. ASSUME NEW u \in Users, NsCommit(u) PROVE Booked BY <1>4, NsCommitBooks
<1>5. CASE Failure
  BY <1>5, RestartBooks, CallFailsBooks, CommitLostBooks, ClusterBooks, RemovedBooks, PurgedBooks
     DEF Failure
<1>6. CASE Environment
  BY <1>6, NsDeleteBooks, NsCreateBooks, NsUpdateBooks DEF Environment
<1>7. CASE UNCHANGED vars
  <2>1. UNCHANGED <<projects, namespaces, workerVars, requests, edits>>
    BY <1>7 DEF vars, userVars
  <2> QED BY <2>1, HandStays, BesideBooks
<1> QED BY <1>1, <1>2, <1>3, <1>4, <1>5, <1>6, <1>7 DEF Next

(* At the start there is nothing to account for.                           *)
LEMMA StartBooks ==
    ASSUME StartsEmpty, NInv, \A p \in Projects : projects[p].nss = {}
    PROVE  BInv
<1>1. PICK none : none = NoNamespace(0) OBVIOUS
<1>2. ~Present(none) /\ none.hard = Nothing BY <1>1 DEF NoNamespace, Present
<1>3. \A n \in Namespaces : Good(n, none) BY <1>2, NothingLimits DEF Good, Copy
<1>4. \A n \in Namespaces :
          namespaces[n] = none /\ nsListed[n] = none /\ nsSeen[n] = "Absent" /\ nsSync[n] = Idle
  BY <1>1 DEF StartsEmpty
<1>5. \A p \in Projects : Lists(p) BY FS_EmptySet DEF Lists
<1>6. \A n \in Namespaces : Good(n, Idle.obj) /\ Amounts(n, Idle)
  BY IdleInHand DEF InHand
<1>7. Accounts BY <1>3, <1>4, <1>5, <1>6 DEF Accounts, StartsEmpty
<1> QED BY <1>7 DEF BInv

(* No ledger is below what is held at the start.                           *)
LEMMA InitBooks == Init => BInv /\ Covers
<1> SUFFICES ASSUME Init PROVE BInv /\ Covers OBVIOUS
<1>1. BInv BY InitProjects, InitKeeps, StartBooks
<1>2. ASSUME NEW p \in Projects, NEW c \in Clusters PROVE Margin(p, c) >= 0
  <2>1. PICK held : held = Held OBVIOUS
  <2>2. Total({}, held, c) = 0 BY TotalOfNone
  <2>3. projects[p].nss = {} /\ projects[p].used = Nothing BY InitProjects
  <2>4. At(projects[p].used, c) = 0 BY <2>3, NothingLimits
  <2> QED BY <2>1, <2>2, <2>3, <2>4 DEF Margin
<1> QED BY <1>1, <1>2 DEF Covers

(* What a step leaves of a ledger and of what is held are numbers.         *)
LEMMA NumbersNext ==
    ASSUME BInv', NEW p \in Projects, NEW c
    PROVE  At(projects'[p].used, c) \in Int /\ Total(projects'[p].nss, Held', c) \in Nat
<1>1. PICK S, held, used : /\ S = projects'[p].nss /\ held = Held'
                           /\ used = projects'[p].used
  OBVIOUS
<1>2. IsLedger(used) BY <1>1 DEF BInv, NInv, TypeOK, IsProject
<1>3. At(used, c) \in Int BY <1>2 DEF IsLedger, At
<1>4. IsFiniteSet(S) /\ S \subseteq Namespaces
  BY <1>1 DEF BInv, Accounts, Lists, NInv, TypeOK, IsProject
<1>5. ASSUME NEW x \in S PROVE At(held[x].hard, c) \in Nat
  <2>1. /\ IsLedger(namespaces'[x].hard) /\ Limits(namespaces'[x].hard)
        /\ IsLedger(nsSync'[x].obj.hard) /\ Limits(nsSync'[x].obj.hard)
    BY <1>4 DEF BInv, NInv, TypeOK, IsNamespace, IsSync, Accounts, Good
  <2>2. IsLedger(Holding(x)') /\ Limits(Holding(x)')
    BY <2>1, NothingLimits DEF Holding
  <2>3. held[x].hard = Holding(x)' BY <1>1, <1>4 DEF Held
  <2> QED BY <2>2, <2>3, AtNat
<1>6. Total(S, held, c) \in Nat BY <1>4, <1>5, UnitsFinite
<1> QED BY <1>1, <1>3, <1>6

(* No step brings one below.                                               *)
LEMMA CoversNext == Covers /\ BInv /\ BInv' /\ Carries => Covers'
<1> SUFFICES ASSUME Covers, BInv, BInv', Carries,
                    NEW p \in Projects, edits' = 0, NamedOnce(p)', NEW c \in Clusters
             PROVE  Margin(p, c)' >= 0
  BY DEF Covers
<1>1. Margin(p, c) >= 0 /\ Margin(p, c)' >= Margin(p, c) BY DEF Covers, Carries
<1>2. PICK S, held, used : /\ S = projects[p].nss /\ held = Held /\ used = projects[p].used
  OBVIOUS
<1>3. At(used, c) \in Int /\ Total(S, held, c) \in Nat BY <1>2, Numbers DEF BInv
<1>4. Margin(p, c) = At(used, c) - Total(S, held, c) BY <1>2 DEF Margin
<1>5. Margin(p, c) \in Int BY <1>3, <1>4
<1>6. PICK m, n : m = Margin(p, c) /\ n = Margin(p, c)' OBVIOUS
<1>7. n \in Int
  <2>1. PICK S1, held1, used1 : /\ S1 = projects'[p].nss /\ held1 = Held'
                                /\ used1 = projects'[p].used
    OBVIOUS
  <2>2. At(used1, c) \in Int /\ Total(S1, held1, c) \in Nat BY <2>1, NumbersNext
  <2> QED BY <1>6, <2>1, <2>2 DEF Margin
<1> QED BY <1>1, <1>5, <1>6, <1>7

(* The invariant of the ledgers holds always.                              *)
THEOREM LedgerInvariant == Spec => [](BInv /\ Covers)
<1>1. BInv /\ Covers /\ NInv' /\ [Next]_vars => (BInv /\ Covers)'
  <2> SUFFICES ASSUME BInv, Covers, NInv', [Next]_vars PROVE BInv' /\ Covers' OBVIOUS
  <2>1. Accounts' /\ Carries BY NextBooks DEF Booked
  <2>2. BInv' BY <2>1 DEF BInv
  <2> QED BY <2>1, <2>2, CoversNext
<1> QED BY <1>1, InitBooks, Invariant, PTL DEF Spec

(* What the namespaces of a ledger have is no more than what they will     *)
(* give back.                                                              *)
LEMMA HeldIsMore ==
    ASSUME BInv, NEW p \in Projects, NEW c
    PROVE  /\ Total(projects[p].nss, namespaces, c) \in Nat
           /\ Total(projects[p].nss, Held, c) \in Nat
           /\ Total(projects[p].nss, namespaces, c) <= Total(projects[p].nss, Held, c)
<1>1. PICK S, held : S = projects[p].nss /\ held = Held OBVIOUS
<1>2. IsFiniteSet(S) /\ S \subseteq Namespaces
  BY <1>1 DEF BInv, Accounts, Lists, NInv, TypeOK, IsProject
<1>3. ASSUME NEW n \in S
      PROVE  /\ At(held[n].hard, c) \in Nat /\ At(namespaces[n].hard, c) \in Nat
             /\ At(namespaces[n].hard, c) <= At(held[n].hard, c)
  <2>1. n \in Namespaces BY <1>2
  <2>2. held[n].hard = Holding(n) /\ At(Holding(n), c) \in Nat
    BY <1>1, <2>1, HoldsQuota DEF BInv
  <2>3. IsLedger(namespaces[n].hard) /\ Limits(namespaces[n].hard)
    BY <2>1, Holds DEF BInv, IsNamespace, Accounts, Good
  <2>4. At(namespaces[n].hard, c) \in Nat BY <2>3, AtNat
  <2>5. Present(namespaces[n]) => Holding(n) = namespaces[n].hard BY DEF Holding
  <2>6. ~Present(namespaces[n]) => namespaces[n].hard = Nothing
    BY <2>1 DEF BInv, Accounts, Good
  <2> QED BY <2>2, <2>4, <2>5, <2>6, NothingLimits
<1>4. Total(S, namespaces, c) <= Total(S, held, c) BY <1>2, <1>3, TotalAtMost
<1>5. Total(S, namespaces, c) \in Nat /\ Total(S, held, c) \in Nat
  BY <1>2, <1>3, UnitsFinite
<1> QED BY <1>1, <1>4, <1>5

(* While no quota is edited, no ledger says less than what the namespaces  *)
(* of the project hold whose names were given once.                        *)
THEOREM LedgersCover == Spec => []LedgerCovers
<1>1. BInv /\ Covers => LedgerCovers
  <2> SUFFICES ASSUME BInv, Covers, edits = 0, NEW p \in Projects, NamedOnce(p),
                      NEW c \in Clusters
               PROVE  At(projects[p].used, c) >= Counts(p, c)
    BY DEF LedgerCovers
  <2>1. PICK S, held : S = projects[p].nss /\ held = Held OBVIOUS
  <2>2. At(projects[p].used, c) - Total(S, held, c) >= 0 BY <2>1 DEF Covers, Margin
  <2>3. /\ Total(S, namespaces, c) \in Nat /\ Total(S, held, c) \in Nat
        /\ Total(S, namespaces, c) <= Total(S, held, c)
    BY <2>1, HeldIsMore
  <2>4. At(projects[p].used, c) \in Int BY Numbers DEF BInv
  <2> QED BY <2>1, <2>2, <2>3, <2>4 DEF Counts
<1> QED BY <1>1, LedgerInvariant, PTL

------------------------------------------------------------------------------
(***************************************************************************)
(* What whoever else writes to the same store may rely on and must respect.*)
(***************************************************************************)

(* A worker that moves is where its step puts it.                          *)
LEMMA MovedTo ==
    ASSUME NInv, NEW n \in Namespaces, NEW s, Becomes(n, s), NEW m \in Namespaces
    PROVE  nsSync'[m] = IF m = n THEN s ELSE nsSync[m]
BY DEF NInv, TypeOK, Becomes

(* A worker comes to give back a quota in one way: it read a namespace     *)
(* that is being deleted.                                                  *)
LEMMA GivesBackDoomed ==
    ASSUME NInv, [Next]_vars, NEW m \in Namespaces, GivingBack(nsSync'[m])
    PROVE  \/ GivingBack(nsSync[m])
           \/ namespaces[m].phase = "Terminating" /\ UNCHANGED namespaces
<1> DEFINE Goal == \/ GivingBack(nsSync[m])
                   \/ namespaces[m].phase = "Terminating" /\ UNCHANGED namespaces
<1>1. ASSUME NEW n \in Namespaces, NEW s, Becomes(n, s), s.pc \notin {"uncount", "commit"}
      PROVE  Goal
  BY <1>1, MovedTo DEF GivingBack, Writes
<1>2. ASSUME NEW n \in Namespaces, NEW s, Becomes(n, s), GivingBack(nsSync[n]) PROVE Goal
  BY <1>2, MovedTo DEF GivingBack, Writes
<1>3. ASSUME NEW n \in Namespaces, Done(n) PROVE Goal
  <2>1. PICK s : s = Idle OBVIOUS
  <2>2. Becomes(n, s) /\ s.pc = "idle" BY <1>3, <2>1 DEF Done, Idle
  <2> QED BY <1>1, <2>2
<1>4. ASSUME NEW n \in Namespaces, NEW pc, Step(n, pc), pc \notin {"uncount", "commit"}
      PROVE  Goal
  <2>1. PICK s : s = [nsSync[n] EXCEPT !.pc = pc] OBVIOUS
  <2>2. Becomes(n, s) /\ s.pc = pc BY <1>4, <2>1, Holds DEF Step, IsSync
  <2> QED BY <1>1, <1>4, <2>2
<1>5. ASSUME NEW n \in Namespaces, NEW pc, Proceed(n, pc), pc \notin {"uncount", "commit"}
      PROVE  Goal
  <2>1. PICK s : s = [nsSync[n] EXCEPT !.pc = pc, !.write = NoWrite] OBVIOUS
  <2>2. Becomes(n, s) /\ s.pc = pc BY <1>5, <2>1, Holds DEF Proceed, IsSync
  <2> QED BY <1>1, <1>5, <2>2
<1>6. CASE UNCHANGED nsSync BY <1>6
<1>7. ASSUME NEW n \in Namespaces, Work(n) PROVE Goal
  <2>1. CASE SyncGone(n) BY <1>6, <2>1 DEF SyncGone
  <2>2. CASE SyncTerminating(n)
    <3>1. PICK s : s = [nsSync[n] EXCEPT !.pc = "get"] OBVIOUS
    <3>2. Becomes(n, s) /\ s.pc = "get" BY <2>2, <3>1, Holds DEF SyncTerminating, IsSync
    <3> QED BY <1>1, <3>2
  <2>3. CASE SyncPending(n)
    <3>1. PICK s : s = [nsSync[n] EXCEPT !.pc = "count", !.obj = nsListed[n],
                                         !.state = nsCached[n]]
    OBVIOUS
    <3>2. Becomes(n, s) /\ s.pc = "count" BY <2>3, <3>1, Holds DEF SyncPending, IsSync
    <3> QED BY <1>1, <3>2
  <2>4. CASE SyncSettled(n) BY <1>6, <2>4 DEF SyncSettled
  <2>5. CASE CountNamespace(n)
    <3>1. ASSUME NEW kind \in {"count", "adjust"}, NEW new, Submit(n, kind, new) PROVE Goal
      <4>1. PICK s : s = [nsSync[n] EXCEPT
                              !.pc = "commit",
                              !.write = [kind |-> kind, base |-> projects[ProjectOf[n]],
                                         new |-> new]]
        OBVIOUS
      <4>2. Becomes(n, s) /\ s.pc = "commit" /\ s.write.kind = kind
        BY <3>1, <4>1, Holds DEF Submit, IsSync
      <4>3. ~GivingBack(s) BY <3>1, <4>2 DEF GivingBack, Writes
      <4> QED BY <4>2, <4>3, MovedTo
    <3> QED BY <1>3, <1>4, <2>5, <3>1 DEF CountNamespace, SubmitIfAdmitted, Requeue
  <2>6. CASE Commit(n) BY <1>3, <1>5, <2>6 DEF Commit, Requeue
  <2>7. CASE Provision(n)
    <3>1. PICK s : s = [nsSync[n] EXCEPT !.pc = "report", !.next = "Failed"] OBVIOUS
    <3>2. s.pc = "report" BY <3>1, Holds DEF IsSync
    <3>3. Becomes(n, s) \/ Step(n, "quota") BY <2>7, <3>1 DEF Provision
    <3> QED BY <1>1, <1>4, <3>2, <3>3
  <2>8. CASE PushQuota(n)
    <3>1. PICK s, t : /\ s = [nsSync[n] EXCEPT !.pc = "report", !.next = "Failed"]
                      /\ t = [nsSync[n] EXCEPT !.pc = "report", !.next = "Available"]
      OBVIOUS
    <3>2. s.pc = "report" /\ t.pc = "report" BY <3>1, Holds DEF IsSync
    <3>3. Becomes(n, s) \/ Becomes(n, t) BY <2>8, <3>1 DEF PushQuota
    <3> QED BY <1>1, <3>2, <3>3
  <2>9. CASE ReportPhase(n) BY <1>3, <1>4, <2>9 DEF ReportPhase, Requeue
  <2>10. CASE StorePhase(n) BY <1>3, <2>10 DEF StorePhase, Requeue
  <2>11. CASE GetDoomed(n)
    <3>1. CASE namespaces[n].phase # "Terminating" BY <1>3, <2>11, <3>1 DEF GetDoomed
    <3>2. CASE namespaces[n].phase = "Terminating"
      <4>1. UNCHANGED namespaces BY <2>11 DEF GetDoomed, storeUnchanged
      <4>2. PICK s : Becomes(n, s) BY <2>11, <3>2 DEF GetDoomed
      <4> QED BY <3>2, <4>1, <4>2, MovedTo
    <3> QED BY <3>1, <3>2
  <2>12. CASE UncountNamespace(n)
    <3>1. GivingBack(nsSync[n]) BY <2>12 DEF UncountNamespace, GivingBack
    <3>2. ASSUME NEW k \in Namespaces, k # n PROVE nsSync'[k] = nsSync[k]
      BY <2>12, <3>2 DEF UncountNamespace, Submit, Step, Becomes, NInv, TypeOK
    <3> QED BY <3>1, <3>2
  <2>13. CASE Unprovision(n) BY <1>4, <2>13 DEF Unprovision
  <2>14. CASE FinalizeNamespace(n) BY <1>3, <2>14 DEF FinalizeNamespace, Requeue
  <2> QED BY <1>7, <2>1, <2>2, <2>3, <2>4, <2>5, <2>6, <2>7, <2>8, <2>9, <2>10, <2>11,
             <2>12, <2>13, <2>14 DEF Work
<1>8. ASSUME NEW n \in Namespaces, Deliver(n) \/ Watch(n) PROVE Goal
  BY <1>6, <1>8 DEF Deliver, Watch, Tick, CheckHealth, workerVars
<1>9. CASE Failure
  <2>1. CASE Restart
    <3>1. nsSync'[m].pc = "idle" BY <2>1 DEF Restart, Idle
    <3> QED BY <3>1 DEF GivingBack, Writes
  <2>2. ASSUME NEW n \in Namespaces, CallFails(n) PROVE Goal
    BY <1>3, <1>5, <2>2 DEF CallFails, Requeue
  <2>3. ASSUME NEW n \in Namespaces, CommitLost(n) PROVE Goal
    BY <1>6, <2>3 DEF CommitLost, workerVars
  <2>4. ASSUME NEW n \in Namespaces, ClusterFails(n) PROVE Goal
    <3>1. PICK s : s = [nsSync[n] EXCEPT !.pc = "report", !.next = "Failed"] OBVIOUS
    <3>2. s.pc = "report" BY <3>1, Holds DEF IsSync
    <3>3. Becomes(n, s) \/ Step(n, "finalize") BY <2>4, <3>1 DEF ClusterFails
    <3> QED BY <1>1, <1>4, <3>2, <3>3
  <2>5. ASSUME NEW t \in Targets, Removed(t) PROVE Goal BY <1>6, <2>5 DEF Removed, workerVars
  <2>6. ASSUME NEW p \in Projects, Purged(p) PROVE Goal BY <1>6, <2>6 DEF Purged, workerVars
  <2> QED BY <1>9, <2>1, <2>2, <2>3, <2>4, <2>5, <2>6 DEF Failure
<1>10. CASE Environment \/ \E u \in Users : NsCommit(u)
  BY <1>6, <1>10 DEF Environment, NsDelete, NsCreate, NsUpdate, NsCommit, workerVars
<1>11. CASE UNCHANGED vars BY <1>6, <1>11 DEF vars, workerVars
<1> QED BY <1>7, <1>8, <1>9, <1>10, <1>11 DEF Next

(* A namespace becomes pending in one way: a user's create is stored.      *)
LEMMA PendingSince ==
    ASSUME NInv, [Next]_vars, NEW n \in Namespaces, namespaces'[n].phase = "Pending"
    PROVE  \/ namespaces'[n] = namespaces[n]
           \/ \E r \in requests : namespaces[n] = r.base /\ namespaces'[n] = r.new
<1> DEFINE Goal == \/ namespaces'[n] = namespaces[n]
                   \/ \E r \in requests : namespaces[n] = r.base /\ namespaces'[n] = r.new
<1>1. DOMAIN namespaces = Namespaces BY DEF NInv, TypeOK
<1>2. ASSUME NEW m \in Namespaces, NEW obj, namespaces' = [namespaces EXCEPT ![m] = obj],
             obj.phase # "Pending"
      PROVE  Goal
  BY <1>1, <1>2
<1>3. ASSUME NEW m \in Namespaces, namespaces' = [namespaces EXCEPT ![m] = Reported(m)]
      PROVE  Goal
  <2>1. PICK obj : obj = Reported(m) OBVIOUS
  <2>2. IsSync(nsSync[m]) /\ IsNamespace(nsSync[m].obj) BY Holds DEF IsSync
  <2>3. obj.phase = nsSync[m].next BY <2>1, <2>2 DEF Reported, IsNamespace
  <2>4. obj.phase # "Pending" BY <2>2, <2>3 DEF IsSync
  <2> QED BY <1>2, <1>3, <2>1, <2>4
<1>4. CASE UNCHANGED namespaces BY <1>4
<1>5. ASSUME NEW m \in Namespaces, Work(m) PROVE Goal
  <2>1. CASE StorePhase(m) BY <1>3, <1>4, <2>1 DEF StorePhase
  <2>2. CASE Commit(m) BY <1>4, <2>2 DEF Commit
  <2>3. CASE SyncGone(m) \/ SyncTerminating(m) \/ SyncPending(m) \/ SyncSettled(m)
    BY <1>4, <2>3 DEF SyncGone, SyncTerminating, SyncPending, SyncSettled, Take, storeUnchanged
  <2>4. CASE CountNamespace(m) \/ UncountNamespace(m) \/ GetDoomed(m) \/ FinalizeNamespace(m)
    BY <1>4, <2>4
       DEF CountNamespace, UncountNamespace, GetDoomed, FinalizeNamespace, storeUnchanged
  <2>5. CASE Provision(m) \/ PushQuota(m) \/ ReportPhase(m) \/ Unprovision(m)
    BY <1>4, <2>5 DEF Provision, PushQuota, ReportPhase, Unprovision, storeUnchanged
  <2> QED BY <1>5, <2>1, <2>2, <2>3, <2>4, <2>5 DEF Work
<1>6. ASSUME NEW m \in Namespaces, Watch(m) PROVE Goal
  <2>1. PICK i \in Slots : Tick(m, i) \/ CheckHealth(m, i) BY <1>6 DEF Watch
  <2>2. CASE Tick(m, i) BY <1>4, <2>2 DEF Tick, storeUnchanged
  <2>3. CASE CheckHealth(m, i)
    <3>1. PICK obj : obj = loops[m][i].obj /\ IsNamespace(obj)
      BY DEF NInv, TypeOK, IsLoop
    <3>2. \A new \in Judged(m, obj) : new.phase # "Pending" BY <3>1, JudgedTypes
    <3>3. \/ UNCHANGED namespaces
          \/ \E new \in Judged(m, obj) : namespaces' = [namespaces EXCEPT ![m] = new]
      BY <2>3, <3>1 DEF CheckHealth
    <3> QED BY <1>2, <1>4, <3>2, <3>3
  <2> QED BY <2>1, <2>2, <2>3
<1>7. ASSUME NEW u \in Users, NsCommit(u) PROVE Goal
  BY <1>1, <1>4, <1>7 DEF NsCommit, Fresh, NInv, TypeOK, IsRequest
<1>8. CASE Failure
  <2>1. ASSUME NEW m \in Namespaces, CommitLost(m) PROVE Goal
    BY <1>3, <1>4, <2>1 DEF CommitLost
  <2>2. ASSUME NEW p \in Projects, Purged(p) PROVE Goal
    <3>1. namespaces'[n] = namespaces[n] \/ namespaces'[n] = NoNamespace(namespaces[n].uid)
      BY <2>2 DEF Purged
    <3> QED BY <3>1 DEF NoNamespace
  <2> QED BY <1>4, <1>8, <2>1, <2>2 DEF Failure, Restart, CallFails, ClusterFails, Removed
<1>9. CASE Environment
  <2>1. ASSUME NEW m \in Namespaces, NsDelete(m) PROVE Goal
    <3>1. PICK obj : obj = [namespaces[m] EXCEPT !.phase = "Terminating"] OBVIOUS
    <3>2. obj.phase = "Terminating" BY <3>1, Holds DEF IsNamespace
    <3>3. namespaces' = [namespaces EXCEPT ![m] = obj]
      BY <2>1, <3>1, Holds DEF NsDelete, IsNamespace
    <3> QED BY <1>2, <3>2, <3>3
  <2> QED BY <1>4, <1>9, <2>1 DEF Environment, NsCreate, NsUpdate
<1>10. CASE UNCHANGED vars BY <1>4, <1>10 DEF vars
<1>11. ASSUME NEW m \in Namespaces, Deliver(m) PROVE Goal
  BY <1>4, <1>11 DEF Deliver, storeUnchanged
<1> QED BY <1>5, <1>6, <1>7, <1>8, <1>9, <1>10, <1>11 DEF Next

(* Edits are counted.                                                      *)
LEMMA NextEdits == ASSUME NInv, [Next]_vars, edits' = 0 PROVE edits = 0
<1>1. ASSUME NEW u \in Users, NEW n \in Namespaces, NsUpdate(u, n) PROVE FALSE
  <2>1. edits \in Nat /\ edits' = edits + 1 BY <1>1 DEF NsUpdate, NInv, TypeOK
  <2> QED BY <2>1
<1>2. ASSUME NEW n \in Namespaces, Work(n) PROVE UNCHANGED edits
  BY <1>2 DEF Work, SyncGone, SyncTerminating, SyncPending, SyncSettled, Take, CountNamespace,
              Commit, Provision, PushQuota, ReportPhase, StorePhase, GetDoomed,
              UncountNamespace, Unprovision, FinalizeNamespace, storeUnchanged, userVars
<1>3. ASSUME NEW n \in Namespaces, Deliver(n) \/ Watch(n) PROVE UNCHANGED edits
  BY <1>3 DEF Deliver, Watch, Tick, CheckHealth, storeUnchanged, userVars
<1>4. CASE Failure
  BY <1>4 DEF Failure, Restart, CallFails, CommitLost, ClusterFails, Removed, Purged, userVars
<1>5. ASSUME NEW u \in Users, NsCommit(u) PROVE UNCHANGED edits BY <1>5 DEF NsCommit
<1>6. CASE Environment BY <1>1, <1>6 DEF Environment, NsDelete, NsCreate, userVars
<1>7. CASE UNCHANGED vars BY <1>7 DEF vars, userVars
<1> QED BY <1>2, <1>3, <1>4, <1>5, <1>6, <1>7 DEF Next

(* A worker that is about to give a quota back has read a namespace that   *)
(* was being deleted: if the one of the name is pending again, it is a     *)
(* further one.  Who creates a namespace gives it a uid of its own.        *)
Departed ==
    /\ \A n \in Namespaces :
          GivingBack(nsSync[n]) /\ namespaces[n].phase = "Pending" => namespaces[n].uid > 1
    /\ \A r \in requests : r.new.uid = r.base.uid => r.new.phase = r.base.phase

(* Whose quota is being given back was there.                              *)
LEMMA GivenBackWasThere ==
    ASSUME BInv, NEW n \in Namespaces, GivingBack(nsSync[n])
    PROVE  namespaces[n].uid \in Nat \ {0}
<1>1. Amounts(n, nsSync[n]) /\ Good(n, nsSync[n].obj) BY DEF BInv, Accounts
<1>2. nsSync[n].obj.uid \in 1..namespaces[n].uid BY <1>1 DEF Amounts, Good, Copy
<1>3. namespaces[n].uid \in Nat BY Holds DEF BInv, IsNamespace
<1> QED BY <1>2, <1>3

(* What users ask for next is a further namespace or keeps the phase.      *)
LEMMA AskedFor ==
    ASSUME NInv, [Next]_vars, NEW r \in requests', r.new.uid = r.base.uid
    PROVE  r \in requests \/ r.new.phase = r.base.phase
<1>1. ASSUME NEW n \in Namespaces, NEW u \in Users, NsCreate(u, n)
      PROVE  r \in requests \/ r.new.phase = r.base.phase
  <2>1. PICK hard \in NsQuotas :
            requests' = requests \cup {[user |-> u, target |-> n, base |-> namespaces[n],
                                        new |-> NewNamespace(n, hard)]}
    BY <1>1 DEF NsCreate
  <2>2. NewNamespace(n, hard).uid # namespaces[n].uid BY Holds DEF NewNamespace, IsNamespace
  <2> QED BY <2>1, <2>2
<1>2. ASSUME NEW n \in Namespaces, NEW u \in Users, NsUpdate(u, n)
      PROVE  r \in requests \/ r.new.phase = r.base.phase
  <2>1. PICK hard \in NsQuotas :
            LET new == [namespaces[n] EXCEPT !.hard = hard]
            IN  requests' = requests \cup {[user |-> u, target |-> n, base |-> namespaces[n],
                                            new |-> new]}
    BY <1>2 DEF NsUpdate
  <2>2. PICK new : new = [namespaces[n] EXCEPT !.hard = hard] OBVIOUS
  <2>3. new.phase = namespaces[n].phase BY <2>2, Holds DEF IsNamespace
  <2>4. requests' = requests \cup {[user |-> u, target |-> n, base |-> namespaces[n],
                                    new |-> new]}
    BY <2>1, <2>2
  <2> QED BY <2>3, <2>4
<1>3. CASE requests' \subseteq requests BY <1>3
<1>4. ASSUME NEW n \in Namespaces, Work(n) PROVE requests' \subseteq requests
  <2>1. CASE StorePhase(n) \/ Commit(n) BY <2>1 DEF StorePhase, Commit, userVars
  <2>2. CASE SyncGone(n) \/ SyncTerminating(n) \/ SyncPending(n) \/ SyncSettled(n)
    BY <2>2 DEF SyncGone, SyncTerminating, SyncPending, SyncSettled, Take, storeUnchanged,
                userVars
  <2>3. CASE CountNamespace(n) \/ UncountNamespace(n) \/ GetDoomed(n) \/ FinalizeNamespace(n)
    BY <2>3 DEF CountNamespace, UncountNamespace, GetDoomed, FinalizeNamespace, storeUnchanged,
                userVars
  <2>4. CASE Provision(n) \/ PushQuota(n) \/ ReportPhase(n) \/ Unprovision(n)
    BY <2>4 DEF Provision, PushQuota, ReportPhase, Unprovision, storeUnchanged, userVars
  <2> QED BY <1>4, <2>1, <2>2, <2>3, <2>4 DEF Work
<1>5. ASSUME NEW n \in Namespaces, Deliver(n) \/ Watch(n) PROVE requests' \subseteq requests
  BY <1>5 DEF Deliver, Watch, Tick, CheckHealth, storeUnchanged, userVars
<1>6. CASE Failure
  BY <1>3, <1>6 DEF Failure, Restart, CallFails, CommitLost, ClusterFails, Removed, Purged,
                    userVars
<1>7. ASSUME NEW u \in Users, NsCommit(u) PROVE requests' \subseteq requests
  BY <1>7 DEF NsCommit
<1>8. ASSUME NEW n \in Namespaces, NsDelete(n) PROVE requests' \subseteq requests
  BY <1>8 DEF NsDelete, userVars
<1>9. CASE UNCHANGED vars BY <1>3, <1>9 DEF vars, userVars
<1> QED BY <1>1, <1>2, <1>3, <1>4, <1>5, <1>6, <1>7, <1>8, <1>9 DEF Next, Environment

(* Every step keeps that.                                                  *)
LEMMA NextDeparted == BInv /\ Departed /\ [Next]_vars => Departed'
<1> SUFFICES ASSUME BInv, Departed, [Next]_vars PROVE Departed' OBVIOUS
<1>1. ASSUME NEW n \in Namespaces, GivingBack(nsSync'[n]), namespaces'[n].phase = "Pending"
      PROVE  namespaces'[n].uid > 1
  <2>1. CASE namespaces[n].phase = "Terminating" /\ UNCHANGED namespaces BY <1>1, <2>1
  <2>2. CASE GivingBack(nsSync[n])
    <3>1. namespaces[n].uid \in Nat \ {0} BY <2>2, GivenBackWasThere
    <3>2. CASE namespaces'[n] = namespaces[n] BY <1>1, <2>2, <3>2 DEF Departed
    <3>3. ASSUME NEW r \in requests, namespaces[n] = r.base, namespaces'[n] = r.new
          PROVE  namespaces'[n].uid > 1
      <4>1. r.new.uid = r.base.uid + 1 \/ r.new.uid = r.base.uid
        BY DEF BInv, Accounts, Asked
      <4>2. CASE r.new.uid = r.base.uid + 1 BY <3>1, <3>3, <4>2
      <4>3. CASE r.new.uid = r.base.uid
        <5>1. namespaces[n].phase = "Pending" BY <1>1, <3>3, <4>3 DEF Departed
        <5> QED BY <2>2, <3>3, <4>3, <5>1 DEF Departed
      <4> QED BY <4>1, <4>2, <4>3
    <3> QED BY <1>1, <3>2, <3>3, PendingSince DEF BInv
  <2> QED BY <1>1, <2>1, <2>2, GivesBackDoomed DEF BInv
<1>2. \A r \in requests' : r.new.uid = r.base.uid => r.new.phase = r.base.phase
  BY AskedFor DEF BInv, Departed
<1> QED BY <1>1, <1>2 DEF Departed

(* At the start nobody gives anything back.                                *)
LEMMA StartDeparted == ASSUME StartsEmpty PROVE Departed
BY DEF StartsEmpty, Departed, GivingBack, Writes, Idle

(* What whoever else writes to the same store does: leave the controller   *)
(* and the requests of its users alone, remove namespaces, and write       *)
(* projects without touching what they list, unless the whole project is   *)
(* removed or is a new one.                                                *)
Others ==
    /\ UNCHANGED <<onCluster, workerVars, healthVars, requests>>
    /\ edits' \in Nat /\ faults' \in Nat /\ (edits' = 0 => edits = 0)
    /\ DOMAIN namespaces' = Namespaces
    /\ \A n \in Namespaces : namespaces'[n] \in {namespaces[n], NoNamespace(namespaces[n].uid)}
    /\ DOMAIN projects' = Projects
    /\ \A p \in Projects :
          /\ IsProject(projects'[p]) /\ (Present(projects'[p]) => projects'[p].uid # 0)
          /\ projects[p].uid # 0 => projects'[p].uid # 0
          /\ projects'[p].nss \in {projects[p].nss, {}}
          /\ projects[p].uid # 0 /\ Standing(projects'[p]) =>
                Standing(projects[p]) /\ projects'[p].nss = projects[p].nss

(* Nobody of them breaks the invariant.                                    *)
LEMMA OthersKeep == NInv /\ Others => NInv'
<1> SUFFICES ASSUME NInv, Others PROVE NInv' OBVIOUS
<1>1. UNCHANGED <<onCluster, nsListed, nsSeen, nsDirty, nsCached, nsSync, health, loops, requests>>
  BY DEF Others, workerVars, healthVars
<1>2. /\ DOMAIN projects' = Projects /\ DOMAIN namespaces' = Namespaces
      /\ edits' \in Nat /\ faults' \in Nat
      /\ \A p \in Projects : /\ IsProject(projects'[p])
                             /\ Present(projects'[p]) => projects'[p].uid # 0
  BY DEF Others
<1>3. ASSUME NEW n \in Namespaces
      PROVE  /\ IsNamespace(namespaces'[n])
             /\ namespaces'[n] = namespaces[n] \/ namespaces'[n].phase = "Absent"
  <2>1. namespaces'[n] = namespaces[n] \/ namespaces'[n] = NoNamespace(namespaces[n].uid)
    BY DEF Others
  <2>2. IsNamespace(namespaces[n]) /\ namespaces[n].uid \in Nat BY Holds DEF IsNamespace
  <2> QED BY <2>1, <2>2, NoObjects DEF NoNamespace
<1>4. TypeOK' BY <1>1, <1>2, <1>3 DEF NInv, TypeOK
<1>5. ASSUME NEW n \in Namespaces, InLedger(n) PROVE InLedger(n)'
  <2>1. PICK q : q = ProjectOf[n] OBVIOUS
  <2>2. q \in Projects BY <2>1, Holds
  <2> QED BY <1>5, <2>1, <2>2 DEF InLedger, Others
<1>6. ASSUME NEW n \in Namespaces PROVE Kept(n)' /\ Fits(n, nsSync[n])'
  <2>1. Kept(n) /\ Fits(n, nsSync[n]) BY Holds
  <2>2. Settled(n)' => Settled(n) /\ namespaces'[n] = namespaces[n] BY <1>3 DEF Settled
  <2>3. Labelled(n) => Labelled(n)' BY <1>1 DEF Labelled
  <2>4. namespaces'[n].phase = "Available" => namespaces[n].phase = "Available" BY <1>3
  <2>5. Kept(n)' BY <1>5, <2>1, <2>2, <2>3, <2>4 DEF Kept
  <2>6. nsSync[n].pc = "commit" => projects'[ProjectOf[n]].uid # 0
    BY <2>1, Holds DEF Fits, Others
  <2>7. PICK s : s = nsSync[n] OBVIOUS
  <2>8. Fits(n, s)' BY <1>5, <2>1, <2>2, <2>3, <2>6, <2>7 DEF Fits, Shape
  <2> QED BY <1>1, <2>5, <2>7, <2>8
<1>7. \A r \in requests' : Meant(r) BY <1>1 DEF NInv
<1> QED BY <1>2, <1>4, <1>6, <1>7 DEF NInv, Meant

(* A namespace that is removed goes on where it was.                       *)
LEMMA OthersContinue ==
    ASSUME BInv, Others, NEW n \in Namespaces
    PROVE  /\ Continues(namespaces'[n], namespaces[n])
           /\ nsListed'[n] = nsListed[n] /\ nsSeen'[n] = nsSeen[n] /\ nsSync'[n] = nsSync[n]
           /\ nsSeen'[n] = "Pending" => Present(nsListed'[n])
           /\ InHand(n, nsSync'[n])
<1>1. nsListed' = nsListed /\ nsSeen' = nsSeen /\ nsSync' = nsSync BY DEF Others, workerVars
<1>2. namespaces'[n] = namespaces[n] \/ namespaces'[n] = NoNamespace(namespaces[n].uid)
  BY DEF Others
<1>3. namespaces[n].uid \in Nat BY Holds DEF BInv, IsNamespace
<1>4. Continues(namespaces'[n], namespaces[n])
  BY <1>2, <1>3, HandStays, NothingLimits DEF Continues, NoNamespace, Present
<1> QED BY <1>1, <1>4, HandStays

(* Nor the accounts.                                                       *)
LEMMA OthersBooks == BInv /\ Others => BInv'
<1> SUFFICES ASSUME BInv, Others PROVE BInv' OBVIOUS
<1>1. NInv' BY OthersKeep DEF BInv
<1>2. \A p \in Projects :
          /\ IsFiniteSet(projects'[p].nss)
          /\ \A n \in projects'[p].nss : ProjectOf[n] = p /\ namespaces[n].uid # 0
  <2>1. \A p \in Projects : Lists(p) BY DEF BInv, Accounts
  <2>2. \A p \in Projects : projects'[p].nss = projects[p].nss \/ projects'[p].nss = {}
    BY DEF Others
  <2> QED BY <2>1, <2>2, FS_EmptySet DEF Lists
<1>3. (edits' = 0 => edits = 0) /\ requests' = requests BY DEF Others
<1>4. Accounts' BY <1>1, <1>2, <1>3, OthersContinue, AccountsKept DEF BInv
<1> QED BY <1>1, <1>4 DEF BInv

(* Nor what is known of who gives back.                                    *)
LEMMA OthersDeparted == Departed /\ Others => Departed'
<1> SUFFICES ASSUME Departed, Others PROVE Departed' OBVIOUS
<1>1. nsSync' = nsSync /\ requests' = requests BY DEF Others, workerVars
<1>2. \A n \in Namespaces : namespaces'[n] = namespaces[n] \/ namespaces'[n].phase # "Pending"
  BY DEF Others, NoNamespace
<1> QED BY <1>1, <1>2 DEF Departed, GivingBack, Writes

(* The namespaces of a ledger that nobody has written hold no more.        *)
LEMMA OthersHold ==
    ASSUME BInv, Others, NEW p \in Projects, edits' = 0, NamedOnce(p)', NEW c
    PROVE  /\ NamedOnce(p)
           /\ Total(projects[p].nss, Held, c) \in Nat
           /\ Total(projects[p].nss, Held', c) \in Nat
           /\ Total(projects[p].nss, Held', c) <= Total(projects[p].nss, Held, c)
<1>1. NInv' BY OthersKeep DEF BInv
<1>2. edits = 0 BY DEF Others
<1>3. NamedOnce(p) /\ \A n \in Namespaces : ProjectOf[n] = p => namespaces'[n].uid <= 1
  BY <1>1, OthersContinue, NamedOnceBefore DEF BInv
<1>4. PICK S, before, after : S = projects[p].nss /\ before = Held /\ after = Held' OBVIOUS
<1>5. /\ IsFiniteSet(S) /\ S \subseteq Namespaces
      /\ \A n \in S : ProjectOf[n] = p /\ namespaces[n].uid # 0
  BY <1>4, Numbers DEF BInv
<1>6. ASSUME NEW n \in S
      PROVE  /\ At(before[n].hard, c) \in Nat /\ At(after[n].hard, c) \in Nat
             /\ At(after[n].hard, c) <= At(before[n].hard, c)
  <2>1. n \in Namespaces /\ namespaces'[n].uid <= 1 /\ namespaces[n].uid # 0
    BY <1>3, <1>5
  <2>2. before[n].hard = Holding(n) /\ At(Holding(n), c) \in Nat
    BY <1>4, <2>1, HoldsQuota DEF BInv
  <2>3. At(Holding(n)', c) \in Nat
    <3>1. IsLedger(namespaces'[n].hard) /\ IsLedger(nsSync'[n].obj.hard)
      BY <1>1, <2>1 DEF NInv, TypeOK, IsNamespace, IsSync
    <3>2. Limits(namespaces'[n].hard) /\ Limits(nsSync'[n].obj.hard)
      BY <2>1, OthersContinue DEF Continues, InHand, Good
    <3>3. IsLedger(Holding(n)') /\ Limits(Holding(n)')
      BY <3>1, <3>2, NothingLimits DEF Holding
    <3> QED BY <3>3, AtNat
  <2>4. after[n].hard = Holding(n)' BY <1>4, <2>1 DEF Held
  <2>5. At(Holding(n)', c) <= At(Holding(n), c)
    BY <1>1, <1>2, <2>1, OthersContinue, HoldsNoMore DEF BInv
  <2> QED BY <2>2, <2>3, <2>4, <2>5
<1>7. Total(S, after, c) <= Total(S, before, c) BY <1>5, <1>6, TotalAtMost
<1>8. Total(S, after, c) \in Nat /\ Total(S, before, c) \in Nat BY <1>5, <1>6, UnitsFinite
<1> QED BY <1>3, <1>4, <1>7, <1>8
==============================================================================
