SPECIFICATION Spec
CONSTANTS
    p = p
    k = k
    a = a
    x = x
    t = t
    none = none
    Projects = {p, k}
    NoProject = none
    Parent <- MCFamily
    Clusters = {x}
    Namespaces = {a}
    ProjectOf <- MCIn
    ClusterOf <- MCOnX
    Specs <- MCTwo
    Deletable = {k}
    Workers = 2
    Targets = {t}
    TargetOf <- MCAt
    NsQuotas <- MCOne
    ProjectQuotas <- MCNone
    Usages <- MCUnused
    Namesakes = {}
    FaultKinds = {"call", "lost", "restart", "cluster", "removed"}
    MaxLoops = 1
    MaxUid = 1
    MaxEdits = 1
    MaxFaults = 1
    Users = {1}
    Locking = TRUE
CONSTRAINT MCOneTrouble
INVARIANTS
    NothingUncounted
    UsedWithinHard
PROPERTIES
    EntriesAreKept
CHECK_DEADLOCK FALSE
