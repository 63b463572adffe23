---------------------------- MODULE ProjectLedger ----------------------------
(***************************************************************************)
(* What the ledger in a project's status adds up to.  A project's status   *)
(* records the children it has counted and, per cluster, how much of its   *)
(* quota they hold; nothing recomputes the sum, the controller only adds   *)
(* and subtracts.                                                          *)
(***************************************************************************)
EXTENDS ProjectController

(* What the ledger of project p is when every child k holds quota[k].      *)
Adds(p, quota) ==
    \A c \in Clusters : At(projects[p].used, c) = Total(projects[p].kids, quota, c)

(* The name of every child p has or had was given to one project only.     *)
NamedOnce(p) == \A k \in Projects : Parent[k] = p => FirstUse(k)

(* While nobody edits a quota, the ledger is the sum of the quotas of the  *)
(* counted children, through conflicts, retries, lost answers, restarts    *)
(* and deletions, as long as no child's name is used twice.  (Who takes    *)
(* over the ledger entry of a child of the same name need not have asked   *)
(* for the same quota.)                                                    *)
LedgerExact ==
    edits = 0 => \A p \in Projects : NamedOnce(p) => Adds(p, projects)

(* The name was not used yet or belongs to its first project, and nobody   *)
(* has asked to delete that.                                               *)
NeverDeleted(k) == FirstUse(k) /\ (projects[k].phase = "Active" \/ projects[k].uid = 0)

ChildrenStay(p) == \A k \in Projects : Parent[k] = p => NeverDeleted(k)

(* While no child has been deleted and no call has failed, the ledger is   *)
(* the sum of the quotas the controller has cached for the counted         *)
(* children: an edit is accounted for by exactly the difference.           *)
LedgerMatchesCache ==
    faults = 0 => \A p \in Projects : ChildrenStay(p) => Adds(p, cached)

AtRest ==
    /\ dirty = {}
    /\ listed = projects
    /\ \A p \in Projects : sync[p].pc = "idle"

(* When the controller has nothing left to do, the ledger of a project     *)
(* lists its children and is the sum of the quotas they have now, as long  *)
(* as no call failed and no child was deleted.  (A child that is created   *)
(* while its parent is removed is not counted when the parent's name is    *)
(* used again.)                                                            *)
SettledLedger ==
    AtRest /\ faults = 0 =>
        \A p \in Projects :
            Present(projects[p]) /\ FirstUse(p) /\ ChildrenStay(p) =>
                projects[p].kids = ChildrenOf(p) /\ Adds(p, projects)

(* The quotas of the active children of a project fit in its own quota:    *)
(* ValidateAllocatableResources grants no more than what remains.          *)
GrantedWithinHard ==
    \A p \in Projects : \A c \in DOMAIN projects[p].hard :
        Total(ChildrenOf(p), projects, c) <= projects[p].hard[c]
==============================================================================
