SPECIFICATION MCFairSpec
CONSTANTS
    p = p
    q = q
    a = a
    b = b
    x = x
    t = t
    s = s
    none = none
    Projects = {p}
    NoProject = none
    Parent <- MCRoot
    Clusters = {x}
    Namespaces = {a}
    Targets = {t}
    ProjectOf <- MCLone
    ClusterOf <- MCLoneOnX
    TargetOf <- MCLoneTarget
    NsQuotas <- MCOneTwo
    ProjectQuotas <- MCUnlimited
    Usages <- MCUsed
    Namesakes = {}
    MaxUid = 1
    MaxEdits = 1
    MaxFaults = 2
    FaultKinds = {"lost", "restart", "cluster", "removed"}
    MaxLoops = 2
    Users = {1}
PROPERTIES
    PendingEnds
    FailureNoticed
    ContentRemoved
    ProvisionedAsAsked
CHECK_DEADLOCK FALSE
