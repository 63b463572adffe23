----------------------------- MODULE MCElection -----------------------------
EXTENDS LeaderElection, TLC

CONSTANTS c1, c2

Symmetry == Permutations(Candidates)
==============================================================================
