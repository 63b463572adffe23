------------------------------- MODULE MCNotify -------------------------------
EXTENDS NotifyController, TLC

CONSTANTS m1, c1, v1, w1

MCChannelOf == m1 :> c1
MCDirect == m1 :> {v1}
MCGrouped == m1 :> {w1}
==============================================================================
