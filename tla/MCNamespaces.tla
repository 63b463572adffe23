---------------------------- MODULE MCNamespaces ----------------------------
EXTENDS NamespaceLedger, TLC

CONSTANTS p, q, a, b, x, t, s, none

MCRoots == (p :> none) @@ (q :> none)
MCRoot == p :> none

MCRival == (a :> p) @@ (b :> q)
MCSame == (a :> p) @@ (b :> p)
MCLone == a :> p

MCOnX == (a :> x) @@ (b :> x)
MCLoneOnX == a :> x

MCShared == (a :> t) @@ (b :> t)
MCApart == (a :> t) @@ (b :> s)
MCLoneTarget == a :> t

Limit(n) == x :> n
MCUnused == {Nothing}
MCUsed == {Nothing, Limit(2)}
MCOne == {Limit(1)}
MCTwo == {Limit(2)}
MCOneTwo == {Limit(1), Limit(2)}
MCTwoThree == {Limit(2), Limit(3)}
MCFour == {Limit(4)}
MCUnlimited == {Nothing}

(* Only a has a choice of quotas. *)
MCPlain == namespaces[b].hard \in {Nothing, Limit(1)}

MCFairSpec == Spec /\ Fairness
==============================================================================
