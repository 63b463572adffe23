------------------------------- MODULE MCAddon -------------------------------
EXTENDS AddonController, TLC

CONSTANTS a1, a2, k1, t1, t2
==============================================================================
