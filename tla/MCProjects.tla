------------------------------ MODULE MCProjects ------------------------------
EXTENDS ProjectLedger, TLC

CONSTANTS root, a, b, x, y, u1, u2

MCProjectsSet == {root, a, b}
MCPairSet == {root, a}
MCParent == (root :> NoProject) @@ (a :> root) @@ (b :> root)
MCChain == (root :> NoProject) @@ (a :> root) @@ (b :> a)
MCPair == (root :> NoProject) @@ (a :> root)
MCNone == [n \in {} |-> root]
Quota(n) == [bound |-> {x}, hard |-> x :> n]
Unlimited(cs) == [bound |-> cs, hard |-> Nothing]
MCTwo == {Quota(2)}
MCOne == {Quota(1)}
MCNoQuota == {Unlimited({x}), Quota(1)}
MCTwoClusters == {Unlimited({x, y}), Unlimited({x})}
MCSpecs == {Quota(1), Quota(2)}

(* The root project exists with quota 2 and the controller has settled.    *)
MCRoot == [phase |-> "Active", uid |-> 1, fin |-> TRUE, locked |-> FALSE,
           bound |-> {x}, hard |-> x :> 2, used |-> Nothing, kids |-> {}, nss |-> {}]
MCInit ==
    /\ projects = [p \in Projects |-> IF p = root THEN MCRoot ELSE NoObject(0)]
    /\ namespaces = [n \in Namespaces |-> NoNamespace(0)]
    /\ listed = projects
    /\ dirty = {}
    /\ cached = projects
    /\ sync = [p \in Projects |-> Idle]
    /\ user = [u \in Users |-> NoWrite]
    /\ edits = 0
    /\ faults = 0
MCSpec == MCInit /\ [][Next]_vars

MCFairSpec == MCSpec /\ Fairness
FairSpec == Spec /\ Fairness

Symm == Permutations({a, b})
==============================================================================
