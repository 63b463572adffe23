----------------------------- MODULE BusinessAPI -----------------------------
(***************************************************************************)
(* The store of tke-business-api as its clients see it: projects in a      *)
(* tree, namespaces inside projects, the quota ledger every project keeps  *)
(* in its status, and the validation the registry runs before it admits a  *)
(* write.                                                                  *)
(*                                                                         *)
(* Quantities are kept per cluster, for one resource kind: the code treats *)
(* kinds independently of each other.  A quota or a ledger is a function   *)
(* whose domain is the set of clusters that have an entry, because the     *)
(* code tells an absent entry from a zero one.                             *)
(*                                                                         *)
(* Optimistic concurrency: AllowUnconditionalUpdate is false, so an update *)
(* carries the resourceVersion of the object it was computed from.  The    *)
(* model compares the object itself (the write's `base') with the stored   *)
(* one.  An object that was changed and changed back compares equal here   *)
(* and unequal there; the behaviour is then the one in which the client    *)
(* read the object a little later.                                         *)
(***************************************************************************)
EXTENDS Integers, FiniteSets

CONSTANTS
    Projects,    \* names of projects
    NoProject,   \* spec.parentProjectName = ""
    Parent,      \* spec.parentProjectName, immutable: [Projects -> Projects \cup {NoProject}]
    Clusters,    \* names of clusters
    Namespaces,  \* names of business namespaces
    ProjectOf,   \* metadata.namespace: [Namespaces -> Projects]
    ClusterOf    \* spec.clusterName, immutable: [Namespaces -> Clusters]

ASSUME TreeAssumption ==
    /\ NoProject \notin Projects
    /\ Parent \in [Projects -> Projects \cup {NoProject}]
    /\ ProjectOf \in [Namespaces -> Projects]
    /\ ClusterOf \in [Namespaces -> Clusters]

VARIABLES
    projects,    \* the stored project of every name
    namespaces   \* the stored namespace of every name

------------------------------------------------------------------------------
(* Objects.  A name that is not in use holds an object of phase "Absent"   *)
(* whose uid is the last one issued for the name.  The registry sets the   *)
(* deletion timestamp and the phase Terminating together, so one field     *)
(* stands for both.  `fin' is "spec.finalizers is not empty"; those of a   *)
(* namespace are never emptied (see NamespaceController).  The quota of a  *)
(* namespace is a ledger with at most an entry for its cluster, and so is  *)
(* `used', what was last seen to be used of it there.                      *)

IsLedger(f) == DOMAIN f \subseteq Clusters /\ f \in [DOMAIN f -> Int]

Nothing == [c \in {} |-> 0]

IsProject(obj) ==
    /\ obj \in [phase : {"Absent", "Active", "Terminating"}, uid : Nat, fin : BOOLEAN,
               locked : BOOLEAN, bound : SUBSET Clusters, hard : {obj.hard},
               used : {obj.used}, kids : SUBSET Projects, nss : SUBSET Namespaces]
    /\ IsLedger(obj.hard) /\ IsLedger(obj.used)

IsNamespace(obj) ==
    /\ obj \in [phase : {"Absent", "Pending", "Available", "Failed", "Terminating"},
               uid : Nat, hard : {obj.hard}, used : {obj.used}]
    /\ IsLedger(obj.hard) /\ IsLedger(obj.used)

NoObject(uid) ==
    [phase |-> "Absent", uid |-> uid, fin |-> FALSE, locked |-> FALSE,
     bound |-> {}, hard |-> Nothing, used |-> Nothing, kids |-> {}, nss |-> {}]

NoNamespace(uid) == [phase |-> "Absent", uid |-> uid, hard |-> Nothing, used |-> Nothing]

Present(obj) == obj.phase # "Absent"

ChildrenOf(p) == {k \in Projects : Parent[k] = p /\ Present(projects[k])}

NamespacesOf(p) == {n \in Namespaces : ProjectOf[n] = p /\ Present(namespaces[n])}

------------------------------------------------------------------------------
(* The ledger arithmetic of pkg/business/util and pkg/util/resource.       *)

At(f, c) == IF c \in DOMAIN f THEN f[c] ELSE 0

AddClusterHardToUsed(used, delta) ==
    [c \in DOMAIN used \cup DOMAIN delta |-> At(used, c) + At(delta, c)]

SubClusterHardFromUsed(used, needed) ==
    [c \in DOMAIN used |-> used[c] - At(needed, c)]

(* The units of cluster c that the objects named in S hold.  A quota is    *)
(* never negative, so their number is the sum of the quotas.               *)
Units(S, quota, c) == UNION {{x} \X (1..At(quota[x].hard, c)) : x \in S}

Total(S, quota, c) == Cardinality(Units(S, quota, c))

(* Mutant: an edit may lower a quota below what is used.                  *)
MutNoUsedCheck(hard, used) == TRUE

ValidateUpdateResource(hard, used) ==
    \A c \in DOMAIN hard : hard[c] >= At(used, c)

(* Every kind the capacity limits must be limited in the request, and what *)
(* is wanted must fit in what is left once the requester's own earlier     *)
(* allocation is given back.                                               *)
ValidateAllocatableResources(want, has, capacity, used, c) ==
    c \in DOMAIN capacity =>
        /\ c \in DOMAIN want
        /\ want[c] <= capacity[c] - (At(used, c) - At(has, c))

------------------------------------------------------------------------------
(* Validation of projects.                                                 *)

(* A cluster on which the project sets a quota must be limited by every    *)
(* counted child that is bound to it; every counted child must exist.      *)
ValidateAgainstChildren(obj) ==
    /\ \A k \in obj.kids :
          /\ Present(projects[k])
          /\ projects[k].bound \cap DOMAIN obj.hard \subseteq DOMAIN projects[k].hard
    /\ \A n \in obj.nss :
          /\ Present(namespaces[n])
          /\ ClusterOf[n] \in DOMAIN obj.hard => ClusterOf[n] \in DOMAIN namespaces[n].hard

(* `has' is the ledger of the stored object when the parent has already    *)
(* counted it; a create has no stored object.                              *)
ValidateAgainstParent(p, obj, old) ==
    Parent[p] # NoProject =>
        LET parent == projects[Parent[p]]
            has    == IF p \in parent.kids /\ Present(old) THEN old.hard ELSE Nothing
        IN  /\ Present(parent)
            /\ ~parent.locked
            /\ obj.bound \subseteq parent.bound
            /\ \A c \in obj.bound :
                  ValidateAllocatableResources(obj.hard, has, parent.hard, parent.used, c)

ValidateProject(p, obj, old) ==
    /\ obj.bound # {}
    /\ \A c \in DOMAIN obj.hard : obj.hard[c] >= 0
    /\ ValidateAgainstChildren(obj)
    /\ ValidateAgainstParent(p, obj, old)

ValidateProjectUpdate(p, obj, old) ==
    /\ ValidateProject(p, obj, old)
    /\ \A c \in DOMAIN obj.used : obj.used[c] >= 0
    /\ ValidateUpdateResource(obj.hard, obj.used)

(* What the registry admits: an update of an object that exists and whose  *)
(* spec and status pass validation, or a create under a free name.         *)
Admits(p, obj, old) ==
    IF Present(old) THEN ValidateProjectUpdate(p, obj, old)
                    ELSE ValidateProject(p, obj, old)

(* PrepareForCreate and the defaults of a new project.                     *)
NewProject(p, spec) ==
    [phase |-> "Active", uid |-> projects[p].uid + 1, fin |-> TRUE, locked |-> FALSE,
     bound |-> spec.bound, hard |-> spec.hard, used |-> Nothing, kids |-> {}, nss |-> {}]

(* Mutant: a second delete request does not wait for the finalizer.       *)
MutNeverRefused(p) == FALSE

(* REST.Delete of one project: the first request switches the phase, a     *)
(* later one is refused with a conflict while finalizers remain.           *)
DeleteRefused(p) == projects[p].phase = "Terminating" /\ projects[p].fin

(* Mutant: deletion is marked with a phase of the wrong kind.             *)
MutWrongPhase(p) ==
    IF projects[p].phase = "Active"
    THEN [projects[p] EXCEPT !.phase = "Failed"]
    ELSE NoObject(projects[p].uid)

AfterDelete(p) ==
    IF projects[p].phase = "Active"
    THEN [projects[p] EXCEPT !.phase = "Terminating"]
    ELSE NoObject(projects[p].uid)

------------------------------------------------------------------------------
(* Validation and life of namespaces.  Every update, of the status too, is *)
(* refused while the quota is below the usage that is stored.              *)

ValidateNamespace(n, obj, old) ==
    LET project == projects[ProjectOf[n]]
        has     == IF n \in project.nss /\ Present(old) THEN old.hard ELSE Nothing
    IN  /\ \A c \in DOMAIN obj.hard : obj.hard[c] >= 0
        /\ Present(project)
        /\ ~project.locked
        /\ ClusterOf[n] \in project.bound
        /\ Present(old) => ValidateUpdateResource(obj.hard, old.used)
        /\ ValidateAllocatableResources(obj.hard, has, project.hard, project.used, ClusterOf[n])

NewNamespace(n, hard) ==
    [phase |-> "Pending", uid |-> namespaces[n].uid + 1, hard |-> hard, used |-> Nothing]

------------------------------------------------------------------------------
(* Properties of the store.                                                *)

(* A project never has less quota than it has handed out, nor a negative   *)
(* ledger entry, whichever of the controllers' workers and the users wrote *)
(* it last.                                                                *)
WithinHard(obj) ==
    \A c \in DOMAIN obj.used :
        /\ obj.used[c] >= 0
        /\ c \in DOMAIN obj.hard => obj.used[c] <= obj.hard[c]

UsedWithinHard == \A p \in Projects : WithinHard(projects[p])
==============================================================================
