SPECIFICATION Spec
CONSTANTS
    p = p
    k = k
    a = a
    x = x
    t = t
    none = none
    Projects = {p}
    NoProject = none
    Parent <- MCRoot
    Clusters = {x}
    Namespaces = {a}
    ProjectOf <- MCIn
    ClusterOf <- MCOnX
    Specs <- MCTwo
    Deletable = {p}
    Workers = 2
    Targets = {t}
    TargetOf <- MCAt
    NsQuotas <- MCOne
    ProjectQuotas <- MCNone
    Usages <- MCUnused
    Namesakes = {}
    FaultKinds = {}
    MaxLoops = 1
    MaxUid = 1
    MaxEdits = 0
    MaxFaults = 0
    Users = {1}
    Locking = FALSE
INVARIANTS
    ProjectOutlivesNamespaces
CHECK_DEADLOCK FALSE
