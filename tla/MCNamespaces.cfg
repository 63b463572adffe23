SPECIFICATION Spec
CONSTANTS
    p = p
    q = q
    a = a
    b = b
    x = x
    t = t
    s = s
    none = none
    Projects = {p, q}
    NoProject = none
    Parent <- MCRoots
    Clusters = {x}
    Namespaces = {a, b}
    Targets = {t}
    ProjectOf <- MCRival
    ClusterOf <- MCOnX
    TargetOf <- MCShared
    NsQuotas <- MCOneTwo
    ProjectQuotas <- MCTwo
    Usages <- MCUnused
    Namesakes = {a}
    MaxUid = 2
    MaxEdits = 0
    MaxFaults = 1
    FaultKinds = {"call", "lost", "restart", "cluster", "purge"}
    MaxLoops = 1
    Users = {1}
CONSTRAINT MCPlain
INVARIANTS
    OneProjectPerTarget
    ProvisionedIsCounted
    LedgerCovers
CHECK_DEADLOCK FALSE
