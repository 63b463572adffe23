SPECIFICATION FairSpec
CONSTANTS
    l1 = l1
    l2 = l2
    Loops = {l1, l2}
    Kinds = {"imported", "baremetal"}
    MaxUid = 1
    MaxEdits = 2
    MaxFaults = 1
    FaultKinds = {"down"}
PROPERTY DownIsReported
CHECK_DEADLOCK FALSE
