------------------------------- MODULE Business -------------------------------
(***************************************************************************)
(* tke-business-controller as a whole: the project controller and the      *)
(* namespace controller run in one process and write the same projects     *)
(* (the ledger of a project counts its children and its namespaces) and    *)
(* the same namespaces (a project's deleter drops those it finds).         *)
(*                                                                         *)
(* Each controller's steps leave the other's state alone; a restart takes  *)
(* both down.  What NamespaceController assumes of its surroundings        *)
(* (projects that exist, Purged) is done here by the real thing.           *)
(***************************************************************************)
EXTENDS BusinessAPI

CONSTANTS
    MaxUid, MaxEdits, MaxFaults, Users, Locking,               \* of both controllers
    Specs, Deletable, Workers,                                 \* of ProjectController
    Targets, TargetOf, NsQuotas, ProjectQuotas, Usages, Namesakes, FaultKinds, MaxLoops
                                                               \* of NamespaceController

VARIABLES
    edits, faults,                                             \* of both controllers
    listed, dirty, cached, sync, user,                         \* of ProjectController
    onCluster, nsListed, nsSeen, nsDirty, nsCached, nsSync, health, loops, requests
                                                               \* of NamespaceController

P == INSTANCE ProjectController
N == INSTANCE NamespaceController

ASSUME BusinessAssumption == P!BoundAssumption /\ N!NamespaceAssumption

projectVars == <<listed, dirty, cached, sync, user>>
namespaceVars == <<onCluster, nsListed, nsSeen, nsDirty, nsCached, nsSync, health, loops, requests>>
vars == <<projects, namespaces, edits, faults, projectVars, namespaceVars>>

TypeOK == P!TypeOK /\ N!TypeOK

Init == P!Init /\ N!StartsEmpty

------------------------------------------------------------------------------
ProjectStep ==
    /\ \/ \E p \in Projects : P!Deliver(p) \/ P!Work(p) \/ P!CommitLost(p) \/ P!CallFails(p)
       \/ \E u \in Users : P!UserCommit(u)
       \/ P!Environment
    /\ UNCHANGED namespaceVars

NamespaceStep ==
    /\ \/ \E n \in Namespaces :
             \/ N!Deliver(n) \/ N!Work(n) \/ N!Watch(n) \/ N!NsDelete(n)
             \/ N!CallFails(n) \/ N!CommitLost(n) \/ N!ClusterFails(n)
             \/ \E u \in Users : N!NsCreate(u, n) \/ N!NsUpdate(u, n)
       \/ \E u \in Users : N!NsCommit(u)
       \/ \E t \in Targets : N!Removed(t)
    /\ UNCHANGED projectVars

Restart == P!Restart /\ N!Restart

Next == ProjectStep \/ NamespaceStep \/ Restart

Spec == Init /\ [][Next]_vars

Fairness ==
    /\ \A p \in Projects : /\ WF_vars(P!Deliver(p) /\ UNCHANGED namespaceVars)
                           /\ WF_vars(P!Work(p) /\ UNCHANGED namespaceVars)
    /\ \A n \in Namespaces : /\ WF_vars(N!Deliver(n) /\ UNCHANGED projectVars)
                             /\ WF_vars(N!Work(n) /\ UNCHANGED projectVars)
                             /\ WF_vars(N!Watch(n) /\ UNCHANGED projectVars)
    /\ \A u \in Users : /\ WF_vars(P!UserCommit(u) /\ UNCHANGED namespaceVars)
                        /\ WF_vars(N!NsCommit(u) /\ UNCHANGED projectVars)

FairSpec == Spec /\ Fairness

------------------------------------------------------------------------------
(* Properties.                                                             *)

(* What a project has handed out on a cluster.                             *)
Handed(p, c) == Total(projects[p].kids, projects, c) + Total(projects[p].nss, namespaces, c)

(* The names of the children and of the namespaces of p were given once,   *)
(* and p's is not among them.                                              *)
NamedOnce(p) ==
    /\ \A k \in Projects : Parent[k] = p => projects[k].uid <= 1
    /\ \A n \in Namespaces : ProjectOf[n] = p => namespaces[n].uid <= 1
    /\ N!Unmistaken(p)

(* While nobody edits a quota, a ledger never says less than what the      *)
(* project's children and namespaces hold: the workers of both controllers *)
(* and their retries never overwrite each other's entries.                 *)
NothingUncounted ==
    edits = 0 =>
        \A p \in Projects : NamedOnce(p) =>
            \A c \in Clusters : At(projects[p].used, c) >= Handed(p, c)

(* The last of n's name is gone or going, or the name is already given to  *)
(* a further namespace, which has not been provisioned.                    *)
GoneOrGoing(n) ==
    \/ namespaces[n].phase \in {"Absent", "Terminating"}
    \/ namespaces[n].phase = "Pending" /\ namespaces[n].uid > 1

(* As long as a project stays, a child leaves its ledger only when it is   *)
(* being deleted, whichever controller writes, and a namespace when it is  *)
(* being deleted or was removed while its worker was about to give its     *)
(* quota back: no write loses the entry of one that is in use.             *)
EntriesAreKept ==
    [][\A p \in Projects : Present(projects'[p]) =>
            /\ \A k \in projects[p].kids \ projects'[p].kids : projects[k].phase = "Terminating"
            /\ \A n \in projects[p].nss \ projects'[p].nss : GoneOrGoing(n)]_vars

(* A namespace does not outlive its project: the deleter removes what the  *)
(* project holds first.                                                    *)
ProjectOutlivesNamespaces ==
    \A n \in Namespaces : Present(namespaces[n]) => Present(projects[ProjectOf[n]])

(* A project whose deletion was requested is eventually gone, with or      *)
(* without namespaces.                                                     *)
DeletionCompletes == P!DeletionCompletes
==============================================================================
