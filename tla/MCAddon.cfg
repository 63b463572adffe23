SPECIFICATION FairSpec
CONSTANTS
    a1 = a1
    a2 = a2
    k1 = k1
    t1 = t1
    t2 = t2
    Addons = {a1}
    Tasks = {t1, t2}
    Clusters = {a1, k1}
    MaxVersion = 3
    VersionMap = {1, 2}
    MaxRetry = 2
    MaxUid = 1
    MaxEdits = 1
    MaxFaults = 2
    FaultKinds = {"create", "delete", "client", "call", "lost", "restart", "sick", "removed"}
INVARIANTS
    DeployedIsInstalled
PROPERTIES
    PhaseOrder
    Converges
CHECK_DEADLOCK FALSE
