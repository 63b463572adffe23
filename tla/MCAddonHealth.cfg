SPECIFICATION FairSpec
CONSTANTS
    a1 = a1
    a2 = a2
    k1 = k1
    t1 = t1
    t2 = t2
    Addons = {a1}
    Tasks = {t1, t2}
    Clusters = {a1, k1}
    MaxVersion = 2
    VersionMap = {1}
    MaxRetry = 2
    MaxUid = 1
    MaxEdits = 0
    MaxFaults = 1
    FaultKinds = {"removed"}
PROPERTIES



    FailureAlwaysNoticed
CHECK_DEADLOCK FALSE
