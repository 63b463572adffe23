---------------------------- MODULE BusinessProofs ----------------------------
(***************************************************************************)
(* What the two controllers of tke-business-controller guarantee together, *)
(* for every tree of projects, every number of namespaces, clusters, users *)
(* and workers, and every sequence of edits, failures and restarts.        *)
(*                                                                         *)
(* Each controller has an invariant of its own, proved in ProjectProofs    *)
(* and NamespaceProofs, and the proof here is that neither controller      *)
(* breaks the other's: what the project controller does is what            *)
(* NamespaceProofs allows Others to do, what the namespace controller does *)
(* is what ProjectProofs allows to happen Beside it.  Neither invariant    *)
(* says that the one ledger they share has room for both.  Covered does:   *)
(* what a ledger says beyond what the project's children hold is no less   *)
(* than what its namespaces hold or will give back.                        *)
(***************************************************************************)
EXTENDS Business, TLAPS

PP == INSTANCE ProjectProofs
NN == INSTANCE NamespaceProofs

(* While nobody edits a quota, what a ledger says beyond what the children *)
(* of the project hold covers what its namespaces hold or will give back.  *)
Covered ==
    edits = 0 =>
        \A p \in Projects : NamedOnce(p) =>
            \A c \in Clusters : PP!Spare(p, c) >= Total(projects[p].nss, NN!Held, c)

Inv == PP!AInv /\ NN!BInv /\ NN!Departed /\ Covered

------------------------------------------------------------------------------
(* The modules that were proved about speak of the same system: what they  *)
(* define is what the instances of the composition define, written out.    *)

(* The constants satisfy what ProjectController assumes of them.           *)
LEMMA ProjectConstants == PP!TreeAssumption /\ PP!BoundAssumption
BY TreeAssumption, BusinessAssumption, Zenon
  DEF TreeAssumption, P!BoundAssumption, PP!BoundAssumption, P!IsLedger, PP!IsLedger

(* The constants satisfy what NamespaceController assumes of them.         *)
LEMMA NamespaceConstants == NN!TreeAssumption /\ NN!NamespaceAssumption
BY TreeAssumption, BusinessAssumption, Zenon
  DEF TreeAssumption, NN!TreeAssumption, N!NamespaceAssumption, NN!NamespaceAssumption,
      N!AllFaults, NN!AllFaults, N!IsLedger, NN!IsLedger

(* The project controller starts the same.                                 *)
LEMMA SameStart == P!Init => PP!Init
BY Zenon
  DEF P!Init, P!NoObject, P!NoNamespace, P!Idle, P!NoWrite, P!Nothing, PP!Init, PP!NoObject,
      PP!NoNamespace, PP!Idle, PP!NoWrite, PP!Nothing

(* The namespace controller starts the same.                               *)
LEMMA SameEmptyStart == N!StartsEmpty => NN!StartsEmpty
BY Zenon
  DEF N!StartsEmpty, N!NoNamespace, N!Missing, N!Unlabelled, N!Idle, N!Slots, N!Off, N!Nothing,
      N!NoWrite, N!NoObject, N!NoState, NN!NoState, NN!StartsEmpty, NN!NoNamespace, NN!Missing, NN!Unlabelled,
      NN!Idle, NN!Slots, NN!Off, NN!Nothing, NN!NoWrite, NN!NoObject

(* The project controller takes the same steps.                            *)
LEMMA SameProjectSteps == P!Next => PP!Next
BY Zenon
  DEF P!Next, P!Deliver, P!Work, P!UserCommit, P!Failure, P!Environment, P!Present,
      P!storeUnchanged, P!SyncDeleted, P!SyncActive, P!SyncTerminating, P!CountChild,
      P!GetDoomed, P!DropContent, P!DeleteKid, P!KidsDone, P!Uncount, P!Seal, P!Purge,
      P!Commit, P!CommitRefused, P!Unchanged, P!Store, P!NoWrite, P!controllerVars, P!Restart,
      P!CommitLost, P!CallFails, P!UserDelete, P!UserCreate, P!UserUpdate, P!Take, P!NoObject,
      P!Becomes, P!Step, P!Counted, P!Recounted, P!Requeue, P!NeedsRecount, P!Done, P!Admits,
      P!Submit, P!NoNamespace, P!ChildrenOf, P!DeleteRefused, P!AfterDelete, P!Uncounted,
      P!AfterCommit, P!Proceed, P!Fault, P!Idle, P!NewProject, P!Request, P!Nothing,
      P!AddClusterHardToUsed, P!SubClusterHardFromUsed, P!SameClusters,
      P!ValidateProjectUpdate, P!ValidateProject, P!At, P!ValidateUpdateResource,
      P!ValidateAgainstChildren, P!ValidateAgainstParent, P!ValidateAllocatableResources,
      P!Cardinality, PP!Next, PP!Deliver, PP!Work, PP!UserCommit, PP!Failure, PP!Environment,
      PP!Present, PP!storeUnchanged, PP!SyncDeleted, PP!SyncActive, PP!SyncTerminating,
      PP!CountChild, PP!GetDoomed, PP!DropContent, PP!DeleteKid, PP!KidsDone, PP!Uncount,
      PP!Seal, PP!Purge, PP!Commit, PP!CommitRefused, PP!Unchanged, PP!Store, PP!NoWrite,
      PP!controllerVars, PP!Restart, PP!CommitLost, PP!CallFails, PP!UserDelete, PP!UserCreate,
      PP!UserUpdate, PP!Take, PP!NoObject, PP!Becomes, PP!Step, PP!Counted, PP!Recounted,
      PP!Requeue, PP!NeedsRecount, PP!Done, PP!Admits, PP!Submit, PP!NoNamespace,
      PP!ChildrenOf, PP!DeleteRefused, PP!AfterDelete, PP!Uncounted, PP!AfterCommit,
      PP!Proceed, PP!Fault, PP!Idle, PP!NewProject, PP!Request, PP!Nothing,
      PP!AddClusterHardToUsed, PP!SubClusterHardFromUsed, PP!SameClusters,
      PP!ValidateProjectUpdate, PP!ValidateProject, PP!At, PP!ValidateUpdateResource,
      PP!ValidateAgainstChildren, PP!ValidateAgainstParent, PP!ValidateAllocatableResources,
      PP!Cardinality

(* The namespace controller takes the same steps.                          *)
LEMMA SameNamespaceSteps == N!Next => NN!Next
BY Zenon
  DEF N!Next, N!Deliver, N!Work, N!Watch, N!NsCommit, N!Failure, N!Environment, N!healthVars,
      N!storeUnchanged, N!SyncGone, N!SyncTerminating, N!SyncPending, N!SyncSettled,
      N!CountNamespace, N!Commit, N!Provision, N!PushQuota, N!ReportPhase, N!StorePhase,
      N!GetDoomed, N!UncountNamespace, N!Unprovision, N!FinalizeNamespace, N!Slots, N!Tick,
      N!CheckHealth, N!Fresh, N!workerVars, N!Restart, N!CallFails, N!CommitLost,
      N!ClusterFails, N!Removed, N!Purged, N!NsDelete, N!NsCreate, N!NsUpdate, N!userVars,
      N!Take, N!Forgotten, N!Becomes, N!NewIncarnation, N!Watched, N!Off, N!Counted, N!Present,
      N!Admits, N!Submit, N!Requeue, N!listerUnchanged, N!Unchanged, N!Store, N!Proceed,
      N!Taken, N!Step, N!Pushed, N!ValidateNamespace, N!Reported, N!Done, N!Uncounted,
      N!Missing, N!SoundOnCluster, N!Fault, N!Idle, N!NamespacesOf, N!NoNamespace, N!Free,
      N!NewNamespace, N!AddClusterHardToUsed, N!ValidateProjectUpdate, N!ValidateProject,
      N!NoWrite, N!Nothing, N!ValidateAllocatableResources, N!SubClusterHardFromUsed, N!At,
      N!ValidateUpdateResource, N!ValidateAgainstChildren, N!ValidateAgainstParent, N!NoObject,
      N!NoState, N!State, N!Misled, N!Differs, N!Adjusted, N!SubmitIfAdmitted, N!Judged,
      NN!NoState, NN!State, NN!Misled, NN!Differs, NN!Adjusted, NN!SubmitIfAdmitted, NN!Judged,
      NN!Next, NN!Deliver, NN!Work, NN!Watch, NN!NsCommit, NN!Failure, NN!Environment,
      NN!healthVars, NN!storeUnchanged, NN!SyncGone, NN!SyncTerminating, NN!SyncPending,
      NN!SyncSettled, NN!CountNamespace, NN!Commit, NN!Provision, NN!PushQuota, NN!ReportPhase,
      NN!StorePhase, NN!GetDoomed, NN!UncountNamespace, NN!Unprovision, NN!FinalizeNamespace,
      NN!Slots, NN!Tick, NN!CheckHealth, NN!Fresh, NN!workerVars, NN!Restart, NN!CallFails,
      NN!CommitLost, NN!ClusterFails, NN!Removed, NN!Purged, NN!NsDelete, NN!NsCreate,
      NN!NsUpdate, NN!userVars, NN!Take, NN!Forgotten, NN!Becomes, NN!NewIncarnation,
      NN!Watched, NN!Off, NN!Counted, NN!Present, NN!Admits, NN!Submit, NN!Requeue,
      NN!listerUnchanged, NN!Unchanged, NN!Store, NN!Proceed, NN!Taken, NN!Step, NN!Pushed,
      NN!ValidateNamespace, NN!Reported, NN!Done, NN!Uncounted, NN!Missing, NN!SoundOnCluster,
      NN!Fault, NN!Idle, NN!NamespacesOf, NN!NoNamespace, NN!Free, NN!NewNamespace,
      NN!AddClusterHardToUsed, NN!ValidateProjectUpdate, NN!ValidateProject, NN!NoWrite,
      NN!Nothing, NN!ValidateAllocatableResources, NN!SubClusterHardFromUsed, NN!At,
      NN!ValidateUpdateResource, NN!ValidateAgainstChildren, NN!ValidateAgainstParent,
      NN!NoObject

(* The variables of the project controller have the same types.            *)
LEMMA SameProjectTypes == PP!TypeOK => P!TypeOK
BY Zenon
  DEF P!TypeOK, P!IsProject, P!IsNamespace, P!IsSync, P!IsWrite, P!IsLedger, PP!TypeOK,
      PP!IsProject, PP!IsNamespace, PP!IsSync, PP!IsWrite, PP!IsLedger

(* The variables of the namespace controller have the same types.          *)
LEMMA SameNamespaceTypes == NN!TypeOK => N!TypeOK
BY Zenon
  DEF N!TypeOK, N!IsProject, N!IsNamespace, N!IsOnCluster, N!Phases, N!IsSync, N!Slots,
      N!IsLoop, N!IsRequest, N!IsLedger, N!IsWrite, N!IsState, NN!IsState, NN!TypeOK, NN!IsProject, NN!IsNamespace,
      NN!IsOnCluster, NN!Phases, NN!IsSync, NN!Slots, NN!IsLoop, NN!IsRequest, NN!IsLedger,
      NN!IsWrite

(* The objects are the same.                                               *)
LEMMA SameObjects ==
    ASSUME NEW o, NEW i
    PROVE  /\ NN!IsProject(o) <=> PP!IsProject(o)
           /\ NN!IsNamespace(o) <=> PP!IsNamespace(o)
           /\ Present(o) <=> PP!Present(o)
           /\ NN!Present(o) <=> PP!Present(o)
           /\ NN!WithinHard(o) <=> PP!WithinHard(o)
           /\ WithinHard(o) <=> PP!WithinHard(o)
           /\ NN!NoNamespace(i) = PP!NoNamespace(i)
           /\ NN!NoObject(i) = PP!NoObject(i)
BY Zenon
  DEF Present, PP!Present, NN!Present, WithinHard, PP!WithinHard, NN!WithinHard,
      PP!IsProject, NN!IsProject, PP!IsNamespace, NN!IsNamespace, PP!IsLedger, NN!IsLedger,
      PP!NoNamespace, NN!NoNamespace, PP!NoObject, NN!NoObject, PP!Nothing, NN!Nothing

(* So are the sums.                                                        *)
LEMMA SameTotals ==
    ASSUME NEW S, NEW quota, NEW c
    PROVE  /\ PP!Total(S, quota, c) = Total(S, quota, c)
           /\ NN!Total(S, quota, c) = Total(S, quota, c)
BY Zenon
  DEF Total, PP!Total, NN!Total, Units, PP!Units, NN!Units, At, PP!At, NN!At,
      Cardinality, PP!Cardinality, NN!Cardinality

(* And what is in a ledger.                                                *)
LEMMA SameAt ==
    ASSUME NEW f, NEW c PROVE PP!At(f, c) = At(f, c) /\ NN!At(f, c) = At(f, c)
BY Zenon DEF At, PP!At, NN!At

(* The names of a project were given once, those of its children and of    *)
(* its namespaces.                                                         *)
LEMMA BothNamedOnce ==
    ASSUME NEW p PROVE NamedOnce(p) <=> PP!NamedOnce(p) /\ NN!NamedOnce(p)
BY Zenon
  DEF NamedOnce, PP!NamedOnce, NN!NamedOnce, PP!FirstUse, N!Unmistaken, NN!Unmistaken

(* ...also after a step.                                                   *)
LEMMA BothNamedOnceNext ==
    ASSUME NEW p, NamedOnce(p)' PROVE PP!NamedOnce(p)' /\ NN!NamedOnce(p)'
BY Zenon
  DEF NamedOnce, PP!NamedOnce, NN!NamedOnce, PP!FirstUse, N!Unmistaken, NN!Unmistaken

(* A step of the project controller is one of ProjectProofs.               *)
LEMMA ProjectSteps == ASSUME ProjectStep \/ Restart PROVE PP!Next
<1>1. P!Next BY DEF ProjectStep, Restart, P!Next, P!Failure
<1> QED BY <1>1, SameProjectSteps

(* A step of the namespace controller is one of NamespaceProofs.           *)
LEMMA NamespaceSteps == ASSUME NamespaceStep \/ Restart PROVE NN!Next
<1>1. N!Next BY DEF NamespaceStep, Restart, N!Next, N!Failure, N!Environment
<1> QED BY <1>1, SameNamespaceSteps

------------------------------------------------------------------------------
(* The project controller, to the namespace controller.                    *)

(* A step keeps the invariant of its own module.                           *)
LEMMA ProjectKeeps == ASSUME PP!AInv, [PP!Next]_PP!vars PROVE PP!AInv'
<1>1. PP!KInv' BY ProjectConstants, PP!NextLife DEF PP!AInv
<1> QED BY <1>1, ProjectConstants, PP!NextAccounts DEF PP!AInv

(* It leaves the variables of the namespace controller alone, removes      *)
(* namespaces, and touches what a project lists only when the project goes *)
(* or comes.                                                               *)
LEMMA ProjectIsOther ==
    ASSUME PP!AInv, PP!AInv', PP!Next, UNCHANGED namespaceVars PROVE NN!Others
<1>1. /\ edits' = 0 => edits = 0
      /\ \A n \in Namespaces : \/ namespaces'[n] = namespaces[n]
                               \/ namespaces'[n] = PP!NoNamespace(namespaces[n].uid)
  BY ProjectConstants, PP!NextBeside
<1>2. /\ edits' \in Nat /\ faults' \in Nat /\ DOMAIN namespaces' = Namespaces
      /\ DOMAIN projects' = Projects
      /\ \A p \in Projects : PP!IsProject(projects'[p])
  BY DEF PP!AInv, PP!KInv, PP!IInv, PP!TypeOK
<1>3. ASSUME NEW n \in Namespaces
      PROVE  namespaces'[n] \in {namespaces[n], NN!NoNamespace(namespaces[n].uid)}
  BY <1>1, SameObjects
<1>4. ASSUME NEW p \in Projects
      PROVE  /\ NN!IsProject(projects'[p])
             /\ NN!Present(projects'[p]) => projects'[p].uid # 0
             /\ projects[p].uid # 0 => projects'[p].uid # 0
             /\ projects'[p].nss \in {projects[p].nss, {}}
             /\ projects[p].uid # 0 /\ NN!Standing(projects'[p]) =>
                   NN!Standing(projects[p]) /\ projects'[p].nss = projects[p].nss
  <2>1. PICK new : new = projects'[p] OBVIOUS
  <2>2. /\ projects[p].uid # 0 => new.uid # 0
        /\ new.nss = IF PP!Present(new) THEN projects[p].nss ELSE {}
        /\ projects[p].uid # 0 /\ new.uid = 1 /\ new.phase = "Active" =>
              projects[p].uid = 1 /\ projects[p].phase = "Active"
    BY <2>1, ProjectConstants, PP!NextStanding
  <2>3. new.uid = 0 => new.phase = "Absent"
    BY <2>1 DEF PP!AInv, PP!KInv, PP!Facts, PP!Life, PP!Present
  <2>4. PP!IsProject(new) BY <1>2, <2>1
  <2>5. NN!IsProject(new) BY <2>4, SameObjects
  <2> QED BY <2>1, <2>2, <2>3, <2>5 DEF NN!Standing, NN!Present, PP!Present
<1>5. UNCHANGED <<onCluster, NN!workerVars, NN!healthVars, requests>>
  BY DEF namespaceVars, NN!workerVars, NN!healthVars
<1> QED BY <1>1, <1>2, <1>3, <1>4, <1>5 DEF NN!Others

(* It leaves as much to spare as the namespaces hold.                      *)
LEMMA ProjectCovers ==
    ASSUME Inv, PP!AInv', NN!BInv', PP!Next, NN!Others PROVE Covered'
<1>1. PP!Balances BY ProjectConstants, PP!NextBalances DEF Inv
<1>2. ASSUME NEW p \in Projects, edits' = 0, NamedOnce(p)', NEW c \in Clusters
      PROVE  PP!Spare(p, c)' >= Total(projects'[p].nss, NN!Held', c)
  <2> DEFINE s == PP!Spare(p, c)
             t == PP!Spare(p, c)'
             h == Total(projects[p].nss, NN!Held, c)
             k == Total(projects[p].nss, NN!Held', c)
             m == Total(projects'[p].nss, NN!Held', c)
  <2>1. PP!NamedOnce(p)' /\ NN!NamedOnce(p)' BY <1>2, BothNamedOnceNext
  <2>2. edits = 0 /\ PP!NamedOnce(p) /\ PP!Balanced(p) BY <1>1, <1>2, <2>1 DEF PP!Balances
  <2>3. /\ NN!NamedOnce(p)
        /\ NN!Total(projects[p].nss, NN!Held, c) \in Nat
        /\ NN!Total(projects[p].nss, NN!Held', c) \in Nat
        /\ NN!Total(projects[p].nss, NN!Held', c) <= NN!Total(projects[p].nss, NN!Held, c)
    BY <1>2, <2>1, NamespaceConstants, NN!OthersHold DEF Inv
  <2>4. h \in Nat /\ k \in Nat /\ k <= h BY <2>3, SameTotals
  <2>5. s >= h
    <3>1. NamedOnce(p) BY <2>2, <2>3, BothNamedOnce
    <3> QED BY <1>2, <2>2, <3>1 DEF Inv, Covered
  <2>6. s \in Int
    <3>1. /\ PP!At(projects[p].used, c) \in Int
          /\ PP!Total(projects[p].kids, projects, c) \in Nat
      BY ProjectConstants, PP!SpareNumbers DEF Inv
    <3> QED BY <3>1 DEF PP!Spare
  <2>7. s >= 0 BY <2>4, <2>5, <2>6
  <2>8. t = s \/ (projects'[p].nss = {} /\ t = 0) BY <1>2, <2>2, <2>7 DEF PP!Balanced
  <2>9. projects'[p].nss = {} => m = 0
    <3>1. NN!Total({}, NN!Held', c) = 0 BY NamespaceConstants, NN!TotalOfNone
    <3> QED BY <3>1, SameTotals
  <2>10. projects'[p].nss \in {projects[p].nss, {}} BY DEF NN!Others
  <2>11. m = k \/ projects'[p].nss = {} BY <2>10
  <2> HIDE DEF s, t, h, k, m
  <2>12. t >= m BY <2>4, <2>5, <2>6, <2>7, <2>8, <2>9, <2>11
  <2> QED BY <2>12 DEF t, m
<1> QED BY <1>2 DEF Covered

(* So it keeps the invariant of both.                                      *)
LEMMA ProjectStepKeeps == Inv /\ ProjectStep => Inv'
<1> SUFFICES ASSUME Inv, ProjectStep PROVE Inv' OBVIOUS
<1>1. PP!Next /\ UNCHANGED namespaceVars BY ProjectSteps DEF ProjectStep
<1>2. PP!AInv' BY <1>1, ProjectKeeps DEF Inv
<1>3. NN!Others BY <1>1, <1>2, ProjectIsOther DEF Inv
<1>4. NN!BInv' /\ NN!Departed'
  BY <1>3, NamespaceConstants, NN!OthersBooks, NN!OthersDeparted DEF Inv
<1>5. Covered' BY <1>1, <1>2, <1>3, <1>4, ProjectCovers
<1> QED BY <1>2, <1>4, <1>5 DEF Inv

------------------------------------------------------------------------------
(* The namespace controller, to the project controller.                    *)

(* A step keeps the invariant of its own module, and spoils no ledger.     *)
LEMMA NamespaceKeeps ==
    ASSUME NN!BInv, NN!Departed, [NN!Next]_NN!vars
    PROVE  NN!BInv' /\ NN!Departed' /\ NN!Carries
<1>1. NN!NInv' BY NamespaceConstants, NN!NextKeeps DEF NN!BInv
<1>2. NN!Booked BY <1>1, NamespaceConstants, NN!NextBooks
<1>3. NN!Departed' BY NamespaceConstants, NN!NextDeparted
<1> QED BY <1>1, <1>2, <1>3 DEF NN!Booked, NN!BInv

(* It leaves the variables of the project controller alone and stores      *)
(* projects only with another ledger.                                      *)
LEMMA NamespaceIsBeside ==
    ASSUME PP!AInv, NN!BInv, NN!BInv', NN!Next, UNCHANGED projectVars PROVE PP!Beside
<1>1. edits' = 0 => edits = 0 BY NamespaceConstants, NN!NextEdits DEF NN!BInv
<1>2. /\ edits' \in Nat /\ faults' \in Nat /\ DOMAIN namespaces' = Namespaces
      /\ \A n \in Namespaces : NN!IsNamespace(namespaces'[n])
  BY DEF NN!BInv, NN!NInv, NN!TypeOK
<1>3. \A n \in Namespaces : PP!IsNamespace(namespaces'[n]) BY <1>2, SameObjects
<1>4. UNCHANGED projects \/ \E n \in Namespaces : NN!Posts(n)
  BY NamespaceConstants, NN!OnlyPosts
<1>5. ASSUME NEW n \in Namespaces, NN!Posts(n)
      PROVE  \E t \in Projects : \E new : PP!Posted(t, new)
  <2>1. PICK q, base, new : q = ProjectOf[n] /\ base = projects[q] /\ new = projects'[q]
    OBVIOUS
  <2>2. /\ q \in Projects /\ DOMAIN projects' = Projects
        /\ NN!IsProject(new) /\ NN!Posting(base, new)
        /\ \A p \in Projects : p # q => projects'[p] = projects[p]
    BY <1>5, <2>1, NamespaceConstants, NN!PostsTo DEF NN!BInv
  <2>3. NN!IsProject(base) BY <2>1, <2>2 DEF NN!BInv, NN!NInv, NN!TypeOK
  <2>4. /\ new.phase = base.phase /\ new.uid = base.uid /\ new.fin = base.fin
        /\ new.bound = base.bound /\ new.hard = base.hard /\ new.kids = base.kids
    BY <2>2, <2>3, NamespaceConstants, NN!PostingLife
  <2>5. PP!Present(base) /\ PP!WithinHard(new) /\ PP!IsProject(new)
    BY <2>2, SameObjects DEF NN!Posting
  <2>6. projects' = [projects EXCEPT ![q] = new]
    <3>1. PICK obj : projects' = [projects EXCEPT ![q] = obj]
      BY <1>5, <2>1 DEF NN!Posts, NN!Store
    <3>2. DOMAIN projects = Projects BY DEF PP!AInv, PP!KInv, PP!IInv, PP!TypeOK
    <3> QED BY <2>1, <2>2, <3>1, <3>2
  <2>7. PP!Posted(q, new)
    BY <2>1, <2>4, <2>5, <2>6 DEF PP!Posted, PP!SameLife, PP!SameClusters
  <2> QED BY <2>2, <2>7
<1>6. UNCHANGED <<listed, dirty, cached, sync, user>> BY DEF projectVars
<1> QED BY <1>1, <1>2, <1>3, <1>4, <1>5, <1>6 DEF PP!Beside

(* It leaves as much to spare as the namespaces hold, as long as the       *)
(* children hold what they held.                                           *)
LEMMA NamespaceCovers ==
    ASSUME Inv, PP!AInv', NN!BInv', NN!Carries,
           \A p \in Projects : /\ projects'[p].kids = projects[p].kids
                               /\ projects'[p].hard = projects[p].hard
                               /\ projects'[p].uid = projects[p].uid
    PROVE  Covered'
<1>1. ASSUME NEW p \in Projects, edits' = 0, NamedOnce(p)', NEW c \in Clusters
      PROVE  PP!Spare(p, c)' >= Total(projects'[p].nss, NN!Held', c)
  <2> DEFINE u == At(projects[p].used, c)
             v == At(projects'[p].used, c)
             h == Total(projects[p].nss, NN!Held, c)
             m == Total(projects'[p].nss, NN!Held', c)
             x == Total(projects[p].kids, projects, c)
             y == Total(projects'[p].kids, projects', c)
  <2>1. NN!NamedOnce(p)' BY <1>1, BothNamedOnceNext
  <2>2. /\ edits = 0 /\ NN!NamedOnce(p)
        /\ NN!Margin(p, c) >= 0 => NN!Margin(p, c)' >= NN!Margin(p, c)
    BY <1>1, <2>1 DEF NN!Carries
  <2>3. NamedOnce(p)
    <3>1. PP!NamedOnce(p)' BY <1>1, BothNamedOnceNext
    <3>2. PP!NamedOnce(p) BY <3>1 DEF PP!NamedOnce, PP!FirstUse
    <3> QED BY <2>2, <3>2, BothNamedOnce
  <2>4. u \in Int /\ v \in Int /\ h \in Nat /\ m \in Nat
    <3>1. NN!At(projects[p].used, c) \in Int /\ NN!Total(projects[p].nss, NN!Held, c) \in Nat
      BY NamespaceConstants, NN!Numbers DEF Inv, NN!BInv
    <3>2. NN!At(projects'[p].used, c) \in Int /\ NN!Total(projects'[p].nss, NN!Held', c) \in Nat
      BY NamespaceConstants, NN!NumbersNext
    <3> QED BY <3>1, <3>2, SameTotals, SameAt
  <2>5. x \in Nat
    <3>1. PP!Total(projects[p].kids, projects, c) \in Nat
      BY ProjectConstants, PP!SpareNumbers DEF Inv
    <3> QED BY <3>1, SameTotals
  <2>6. y = x
    <3>1. \A k \in projects[p].kids : projects'[k].hard = projects[k].hard
      BY DEF Inv, PP!AInv, PP!KInv, PP!IInv, PP!TypeOK, PP!IsProject
    <3>2. PP!Total(projects[p].kids, projects', c) = PP!Total(projects[p].kids, projects, c)
      BY <3>1, ProjectConstants, PP!SameTotal
    <3>3. projects'[p].kids = projects[p].kids OBVIOUS
    <3> QED BY <3>2, <3>3, SameTotals
  <2>7. NN!Margin(p, c) = u - h /\ NN!Margin(p, c)' = v - m
    BY SameTotals, SameAt DEF NN!Margin
  <2>8. PP!Spare(p, c) = u - x /\ PP!Spare(p, c)' = v - y
    BY SameTotals, SameAt DEF PP!Spare
  <2>9. PP!Spare(p, c) >= h BY <1>1, <2>2, <2>3 DEF Inv, Covered
  <2> HIDE DEF u, v, h, m, x, y
  <2>10. v - y >= m BY <2>2, <2>4, <2>5, <2>6, <2>7, <2>8, <2>9
  <2> QED BY <2>8, <2>10 DEF m
<1> QED BY <1>1 DEF Covered

(* So it keeps the invariant of both.                                      *)
LEMMA NamespaceStepKeeps == Inv /\ NamespaceStep => Inv'
<1> SUFFICES ASSUME Inv, NamespaceStep PROVE Inv' OBVIOUS
<1>1. NN!Next /\ UNCHANGED projectVars BY NamespaceSteps DEF NamespaceStep
<1>2. NN!BInv' /\ NN!Departed' /\ NN!Carries BY <1>1, NamespaceKeeps DEF Inv
<1>3. PP!Beside BY <1>1, <1>2, NamespaceIsBeside DEF Inv
<1>4. PP!AInv' BY <1>3, ProjectConstants, PP!BesideKeeps DEF Inv
<1>5. \A p \in Projects : /\ projects'[p].kids = projects[p].kids
                          /\ projects'[p].hard = projects[p].hard
                          /\ projects'[p].uid = projects[p].uid
  BY <1>3, ProjectConstants, PP!BesideQuotas DEF Inv
<1>6. Covered' BY <1>2, <1>4, <1>5, NamespaceCovers
<1> QED BY <1>2, <1>4, <1>6 DEF Inv

(* A restart concerns both and stores nothing.                             *)
LEMMA RestartKeeps == Inv /\ Restart => Inv'
<1> SUFFICES ASSUME Inv, Restart PROVE Inv' OBVIOUS
<1>1. PP!Next /\ NN!Next BY ProjectSteps, NamespaceSteps
<1>2. PP!AInv' BY <1>1, ProjectKeeps DEF Inv
<1>3. NN!BInv' /\ NN!Departed' /\ NN!Carries BY <1>1, NamespaceKeeps DEF Inv
<1>4. UNCHANGED projects BY DEF Restart, P!Restart
<1>5. Covered' BY <1>2, <1>3, <1>4, NamespaceCovers
<1> QED BY <1>2, <1>3, <1>5 DEF Inv

------------------------------------------------------------------------------
(* The invariant of the composition.                                       *)

(* A step in which nothing happens.                                        *)
LEMMA StillKeeps == Inv /\ UNCHANGED vars => Inv'
<1> SUFFICES ASSUME Inv, UNCHANGED vars PROVE Inv' OBVIOUS
<1>1. UNCHANGED PP!vars /\ UNCHANGED NN!vars
  BY DEF vars, projectVars, namespaceVars, PP!vars, PP!controllerVars, NN!vars, NN!workerVars,
         NN!healthVars, NN!userVars
<1>2. PP!AInv' BY <1>1, ProjectKeeps DEF Inv
<1>3. NN!BInv' /\ NN!Departed' /\ NN!Carries BY <1>1, NamespaceKeeps DEF Inv
<1>4. UNCHANGED projects BY DEF vars
<1>5. Covered' BY <1>2, <1>3, <1>4, NamespaceCovers
<1> QED BY <1>2, <1>3, <1>5 DEF Inv

(* It holds at the start, when nothing is stored.                          *)
LEMMA InitInv == Init => Inv
<1> SUFFICES ASSUME Init PROVE Inv OBVIOUS
<1>1. PP!Init /\ NN!StartsEmpty BY SameStart, SameEmptyStart DEF Init
<1>2. PP!AInv
  BY <1>1, ProjectConstants, PP!InitLife, PP!InitAccounts DEF PP!AInv
<1>3. DOMAIN projects = Projects /\ \A p \in Projects : projects[p] = PP!NoObject(0)
  BY <1>1 DEF PP!Init
<1>4. ASSUME NEW p \in Projects
      PROVE  /\ NN!IsProject(projects[p]) /\ ~NN!Present(projects[p])
             /\ projects[p].nss = {} /\ projects[p].kids = {} /\ projects[p].used = PP!Nothing
  <2>1. PP!IsProject(projects[p]) BY <1>2 DEF PP!AInv, PP!KInv, PP!IInv, PP!TypeOK
  <2> QED BY <1>3, <2>1, SameObjects DEF PP!NoObject, NN!Present
<1>5. NN!NInv BY <1>1, <1>3, <1>4, NamespaceConstants, NN!StartKeeps
<1>6. NN!BInv BY <1>1, <1>4, <1>5, NamespaceConstants, NN!StartBooks
<1>7. NN!Departed BY <1>1, NamespaceConstants, NN!StartDeparted
<1>8. ASSUME NEW p \in Projects, NEW c \in Clusters
      PROVE  PP!Spare(p, c) >= Total(projects[p].nss, NN!Held, c)
  <2>1. At(projects[p].used, c) = 0 BY <1>4 DEF At, PP!Nothing
  <2>2. PP!Total({}, projects, c) = 0 /\ PP!Total({}, NN!Held, c) = 0
    BY ProjectConstants, PP!TotalOfNone
  <2>3. PP!Spare(p, c) = 0 BY <1>4, <2>1, <2>2, SameAt DEF PP!Spare
  <2>4. Total(projects[p].nss, NN!Held, c) = 0 BY <1>4, <2>2, SameTotals, SMTT(30)
  <2> QED BY <2>3, <2>4
<1> QED BY <1>2, <1>6, <1>7, <1>8 DEF Inv, Covered

(* Every step of either controller, of users and of failures keeps what    *)
(* the two controllers rely on.                                            *)
THEOREM Invariant == Spec => []Inv
<1>1. Inv /\ [Next]_vars => Inv'
  BY ProjectStepKeeps, NamespaceStepKeeps, RestartKeeps, StillKeeps DEF Next
<1> QED BY <1>1, InitInv, PTL DEF Spec

------------------------------------------------------------------------------
(* What it is good for.                                                    *)

(* The variables of both controllers have their types.                     *)
THEOREM TypeCorrect == Spec => []TypeOK
<1>1. Inv => TypeOK
  BY SameProjectTypes, SameNamespaceTypes
     DEF Inv, PP!AInv, PP!KInv, PP!IInv, NN!BInv, NN!NInv, TypeOK
<1> QED BY <1>1, Invariant, PTL

(* A project never has less quota than it has handed out to children and   *)
(* namespaces, nor a negative ledger entry, whichever worker or user wrote *)
(* it last.                                                                *)
THEOREM QuotasSuffice == Spec => []UsedWithinHard
<1>1. Inv => UsedWithinHard
  BY SameObjects DEF Inv, PP!AInv, PP!KInv, PP!IInv, PP!UsedWithinHard, UsedWithinHard
<1> QED BY <1>1, Invariant, PTL

(* While nobody edits a quota, the used field of a project is no less than *)
(* what its children and its namespaces hold, as long as their names are   *)
(* given once: the two controllers never overwrite each other's entries.   *)
THEOREM NothingIsUncounted == Spec => []NothingUncounted
<1>1. Inv => NothingUncounted
  <2> SUFFICES ASSUME Inv, edits = 0, NEW p \in Projects, NamedOnce(p), NEW c \in Clusters
               PROVE  At(projects[p].used, c) >= Handed(p, c)
    BY DEF NothingUncounted
  <2> DEFINE u == At(projects[p].used, c)
             x == Total(projects[p].kids, projects, c)
             h == Total(projects[p].nss, NN!Held, c)
             n == Total(projects[p].nss, namespaces, c)
  <2>1. PP!Spare(p, c) >= h BY DEF Inv, Covered
  <2>2. u \in Int /\ x \in Nat
    <3>1. /\ PP!At(projects[p].used, c) \in Int
          /\ PP!Total(projects[p].kids, projects, c) \in Nat
      BY ProjectConstants, PP!SpareNumbers DEF Inv
    <3> QED BY <3>1, SameTotals, SameAt
  <2>3. h \in Nat /\ n \in Nat /\ n <= h
    <3>1. /\ NN!Total(projects[p].nss, namespaces, c) \in Nat
          /\ NN!Total(projects[p].nss, NN!Held, c) \in Nat
          /\ NN!Total(projects[p].nss, namespaces, c) <= NN!Total(projects[p].nss, NN!Held, c)
      BY NamespaceConstants, NN!HeldIsMore DEF Inv
    <3> QED BY <3>1, SameTotals
  <2>4. PP!Spare(p, c) = u - x BY SameTotals, SameAt DEF PP!Spare
  <2>5. Handed(p, c) = x + n BY DEF Handed
  <2> HIDE DEF u, x, h, n
  <2>6. u >= x + n BY <2>1, <2>2, <2>3, <2>4
  <2> QED BY <2>5, <2>6 DEF u
<1> QED BY <1>1, Invariant, PTL

(* A child in a ledger is a project that exists, as long as its name was   *)
(* given once, and a project whose finalizer is gone is in none: what the  *)
(* namespace controller writes in between makes no difference.             *)
THEOREM CountedChildrenExist == Spec => [](P!KidsExist /\ P!FinalizedIsUncounted)
<1>1. ASSUME Inv, NEW p \in Projects, NEW k \in projects[p].kids
      PROVE  Parent[k] = p /\ (projects[k].uid <= 1 => projects[k].phase # "Absent")
  <2>1. k \in Projects
    BY <1>1 DEF Inv, PP!AInv, PP!KInv, PP!IInv, PP!TypeOK, PP!IsProject
  <2> QED BY <1>1, <2>1
          DEF Inv, PP!AInv, PP!KInv, PP!Facts, PP!Held, PP!Life, PP!FirstUse, PP!Present
<1>2. ASSUME Inv, NEW p \in Projects, ~projects[p].fin, projects[p].uid <= 1,
             Parent[p] # NoProject
      PROVE  p \notin projects[Parent[p]].kids
  <2>1. Parent[p] \in Projects BY <1>2, TreeAssumption
  <2> QED BY <1>2, <2>1 DEF Inv, PP!AInv, PP!KInv, PP!Facts, PP!Held, PP!FirstUse
<1>3. Inv => P!KidsExist /\ P!FinalizedIsUncounted
  BY <1>1, <1>2 DEF P!KidsExist, P!FinalizedIsUncounted, P!FirstUse, P!Present
<1> QED BY <1>3, Invariant, PTL

(* Two projects never both have the same namespace of a cluster, when      *)
(* nobody else removes it there: nor when a project is removed with its    *)
(* namespaces.                                                             *)
THEOREM OneProjectEach == Spec => []N!OneProjectPerTarget
<1>1. Inv => N!OneProjectPerTarget
  BY DEF Inv, NN!BInv, NN!NInv, NN!Kept, NN!Labelled, N!OneProjectPerTarget
<1> QED BY <1>1, Invariant, PTL

(* The namespaces of p that were provisioned.                              *)
InUse(p) ==
    {n \in Namespaces : ProjectOf[n] = p /\ namespaces[n].phase \in {"Available", "Failed"}}

(* The project is the first of its name and nobody asked to delete it.     *)
Stays(p) == projects[p].phase = "Active" /\ projects[p].uid = 1

(* What is in use of a project that stays is in its ledger, unless a       *)
(* namespace is named like the project, and it fits in the quota of the    *)
(* project together with what its counted children hold.                   *)
InUseFits ==
    \A p \in Projects : Stays(p) =>
        /\ N!Unmistaken(p) => InUse(p) \subseteq projects[p].nss
        /\ edits = 0 /\ NamedOnce(p) =>
              \A c \in DOMAIN projects[p].hard :
                  Total(projects[p].kids, projects, c) + Total(InUse(p), namespaces, c)
                      <= projects[p].hard[c]

(* Nothing is overcommitted: as long as nobody edits a quota, the children *)
(* a project has counted and the namespaces that were provisioned in it    *)
(* hold together no more, on any cluster, than its quota gives, if none of *)
(* them has the name of the project or that of an earlier one.             *)
THEOREM NothingIsOvercommitted == Spec => []InUseFits
<1>1. ASSUME Inv, NEW p \in Projects, Stays(p), N!Unmistaken(p)
      PROVE  InUse(p) \subseteq projects[p].nss
  <2>1. NN!Unmistaken(p) BY <1>1 DEF N!Unmistaken, NN!Unmistaken
  <2> QED BY <1>1, <2>1
        DEF Inv, NN!BInv, NN!NInv, NN!Kept, NN!Settled, NN!InLedger, NN!Standing, InUse, Stays
<1>2. ASSUME Inv, NothingUncounted, NEW p \in Projects, Stays(p), edits = 0, NamedOnce(p),
             NEW c \in DOMAIN projects[p].hard
      PROVE  Total(projects[p].kids, projects, c) + Total(InUse(p), namespaces, c)
                 <= projects[p].hard[c]
  <2> DEFINE u == At(projects[p].used, c)
             x == Total(projects[p].kids, projects, c)
             n == Total(projects[p].nss, namespaces, c)
             m == Total(InUse(p), namespaces, c)
             q == projects[p].hard[c]
  <2>1. c \in Clusters /\ q \in Nat /\ u \in Int
    <3>1. PP!IsLedger(projects[p].hard) /\ PP!IsLedger(projects[p].used)
      BY <1>2 DEF Inv, PP!AInv, PP!KInv, PP!IInv, PP!TypeOK, PP!IsProject
    <3>2. PP!Limits(projects[p].hard) BY <1>2 DEF Inv, PP!AInv, PP!Accounts, PP!Sane
    <3> QED BY <1>2, <3>1, <3>2 DEF PP!IsLedger, PP!Limits, At
  <2>2. u >= x + n BY <1>2, <2>1 DEF NothingUncounted, Handed
  <2>3. u <= q
    <3>1. c \in DOMAIN projects[p].used => projects[p].used[c] <= projects[p].hard[c]
      BY <1>2 DEF Inv, PP!AInv, PP!KInv, PP!IInv, PP!UsedWithinHard, PP!WithinHard
    <3> QED BY <2>1, <3>1 DEF At
  <2>4. x \in Nat
    <3>1. PP!Total(projects[p].kids, projects, c) \in Nat
      BY <1>2, ProjectConstants, PP!SpareNumbers DEF Inv
    <3> QED BY <3>1, SameTotals
  <2>5. n \in Nat /\ m \in Nat /\ m <= n
    <3>1. PICK S, T, quota : S = InUse(p) /\ T = projects[p].nss /\ quota = namespaces
      OBVIOUS
    <3>2. S \in SUBSET T BY <1>1, <1>2, <3>1 DEF NamedOnce
    <3>3. NN!IsFiniteSet(T) /\ \A y \in T : NN!At(quota[y].hard, c) \in Nat
      <4>1. NN!IsFiniteSet(T) /\ T \subseteq Namespaces
        BY <1>2, <3>1 DEF Inv, NN!BInv, NN!NInv, NN!TypeOK, NN!IsProject, NN!Accounts, NN!Lists
      <4>2. ASSUME NEW y \in T PROVE NN!At(quota[y].hard, c) \in Nat
        <5>1. NN!IsLedger(namespaces[y].hard) /\ NN!Limits(namespaces[y].hard)
          BY <1>2, <4>1 DEF Inv, NN!BInv, NN!NInv, NN!TypeOK, NN!IsNamespace, NN!Accounts, NN!Good
        <5> QED BY <3>1, <5>1, NamespaceConstants, NN!AtNat
      <4> QED BY <4>1, <4>2
    <3>4. NN!Total(S, quota, c) \in Nat /\ NN!Total(S, quota, c) <= NN!Total(T, quota, c)
      BY <3>2, <3>3, NamespaceConstants, NN!TotalOfFewer
    <3>5. NN!Total(T, quota, c) \in Nat
      BY <1>2, <3>1, NamespaceConstants, NN!HeldIsMore DEF Inv
    <3> QED BY <3>1, <3>4, <3>5, SameTotals
  <2> HIDE DEF u, x, n, m, q
  <2>6. x + m <= q BY <2>1, <2>2, <2>3, <2>4, <2>5
  <2> QED BY <2>6 DEF x, m, q
<1>3. Inv /\ NothingUncounted => InUseFits BY <1>1, <1>2 DEF InUseFits
<1> QED BY <1>3, Invariant, NothingIsUncounted, PTL

(* What EntriesAreKept says of one step.                                   *)
Keeps ==
    \A p \in Projects : Present(projects'[p]) =>
        /\ \A k \in projects[p].kids \ projects'[p].kids : projects[k].phase = "Terminating"
        /\ \A n \in projects[p].nss \ projects'[p].nss : GoneOrGoing(n)

(* The project controller takes out children that are being deleted.       *)
LEMMA ProjectStepLoses == ASSUME Inv, ProjectStep PROVE Keeps
<1>1. PP!Next BY ProjectSteps
<1>2. PP!Leaves BY <1>1, ProjectConstants, PP!NextLeaves DEF Inv, PP!AInv
<1>3. ASSUME NEW p \in Projects, Present(projects'[p])
      PROVE  /\ \A k \in projects[p].kids \ projects'[p].kids : projects[k].phase = "Terminating"
             /\ projects'[p].nss = projects[p].nss
  <2>1. PP!Present(projects'[p]) BY <1>3, SameObjects
  <2>2. projects'[p].nss = IF PP!Present(projects'[p]) THEN projects[p].nss ELSE {}
    BY <1>1, ProjectConstants, PP!NextStanding DEF Inv
  <2> QED BY <1>2, <2>1, <2>2 DEF PP!Leaves
<1> QED BY <1>3 DEF Keeps

(* The namespace controller takes out the namespace its worker takes down. *)
LEMMA NamespaceStepLoses == ASSUME Inv, NamespaceStep PROVE Keeps
<1>1. NN!Next /\ UNCHANGED projectVars BY NamespaceSteps DEF NamespaceStep
<1>2. NN!BInv' BY <1>1, NamespaceKeeps DEF Inv
<1>3. PP!Beside BY <1>1, <1>2, NamespaceIsBeside DEF Inv
<1>4. \A p \in Projects : projects'[p].kids = projects[p].kids
  BY <1>3, ProjectConstants, PP!BesideQuotas DEF Inv
<1>5. ASSUME NEW p \in Projects, NEW n \in projects[p].nss \ projects'[p].nss
      PROVE  GoneOrGoing(n)
  <2>1. PICK m \in Namespaces : NN!Posts(m)
    BY <1>1, <1>5, NamespaceConstants, NN!OnlyPosts
  <2>2. PICK q, s : q = ProjectOf[m] /\ s = nsSync[m] OBVIOUS
  <2>3. q \in Projects /\ \A r \in Projects : r # q => projects'[r] = projects[r]
    BY <2>1, <2>2, NamespaceConstants, NN!PostsTo DEF Inv, NN!BInv
  <2>4. p = q BY <1>5, <2>3
  <2>5. projects[q] = s.write.base /\ projects'[q] = s.write.new /\ s.pc = "commit"
    <3>1. DOMAIN projects = Projects BY DEF Inv, NN!BInv, NN!NInv, NN!TypeOK
    <3> QED BY <2>1, <2>2, <2>3, <3>1 DEF NN!Posts, NN!Unchanged, NN!Store
  <2>6. NN!Fits(m, s) BY <2>2 DEF Inv, NN!BInv, NN!NInv
  <2>7. NN!Writes(s, "uncount") /\ n = m
    BY <1>5, <2>4, <2>5, <2>6 DEF NN!Fits, NN!Shape, NN!Writes
  <2>8. ~NN!Settled(m) /\ (namespaces[m].phase = "Pending" => namespaces[m].uid > 1)
    BY <2>2, <2>6, <2>7 DEF NN!Fits, NN!TakingDown, NN!GivingBack, Inv, NN!Departed
  <2>9. namespaces[m].phase \in {"Absent", "Pending", "Available", "Failed", "Terminating"}
    BY DEF Inv, NN!BInv, NN!NInv, NN!TypeOK, NN!IsNamespace
  <2> QED BY <2>7, <2>8, <2>9 DEF NN!Settled, GoneOrGoing
<1> QED BY <1>4, <1>5 DEF Keeps

(* As long as a project stays, a child leaves its ledger only when it is   *)
(* being deleted, and a namespace when it is being deleted or was removed  *)
(* while its worker was about to give its quota back, whichever controller *)
(* writes and whatever fails.                                              *)
THEOREM EntriesStay == Spec => EntriesAreKept
<1>1. Inv /\ [Next]_vars => [Keeps]_vars
  <2>1. ASSUME UNCHANGED projects PROVE Keeps BY <2>1 DEF Keeps
  <2> QED BY <2>1, ProjectStepLoses, NamespaceStepLoses DEF Next, Restart, P!Restart
<1>2. Spec => [][Keeps]_vars BY <1>1, Invariant, PTL DEF Spec
<1> QED BY <1>2, PTL DEF EntriesAreKept, Keeps
==============================================================================
