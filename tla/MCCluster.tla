------------------------------ MODULE MCCluster ------------------------------
EXTENDS ClusterController, TLC

CONSTANTS l1, l2
==============================================================================
