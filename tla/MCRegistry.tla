----------------------------- MODULE MCRegistry -----------------------------
EXTENDS RegistryNotification, TLC

CONSTANTS r, s, t, u, h1, h2

MCSymmetry == Permutations({h1, h2})
==============================================================================
