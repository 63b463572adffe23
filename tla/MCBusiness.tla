----------------------------- MODULE MCBusiness -----------------------------
EXTENDS Business, TLC

CONSTANTS p, k, a, x, t, none

MCFamily == (p :> none) @@ (k :> p)
MCRoot == p :> none

MCIn == a :> p
MCOnX == a :> x
MCAt == a :> t

Limit(n) == x :> n
MCUnused == {Nothing}
Spec1(n) == [bound |-> {x}, hard |-> Limit(n)]
MCSpecs == {Spec1(1), Spec1(2)}
MCTwo == {Spec1(2)}
MCOne == {Limit(1)}
MCOneTwo == {Limit(1), Limit(2)}
MCNone == {}

(* A fault, or a lock by a user, but not both. *)
MCOneTrouble == edits + faults <= 1

MCFairSpec == Spec /\ Fairness
==============================================================================
