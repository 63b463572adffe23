SPECIFICATION Spec
CONSTANTS
    p = p
    q = q
    a = a
    b = b
    x = x
    t = t
    s = s
    none = none
    Projects = {p}
    NoProject = none
    Parent <- MCRoot
    Clusters = {x}
    Namespaces = {a}
    Targets = {t}
    ProjectOf <- MCLone
    ClusterOf <- MCLoneOnX
    TargetOf <- MCLoneTarget
    NsQuotas <- MCOne
    ProjectQuotas <- MCTwo
    Usages <- MCUnused
    Namesakes = {}
    MaxUid = 1
    MaxEdits = 0
    MaxFaults = 1
    FaultKinds = {"lost"}
    MaxLoops = 1
    Users = {1}
INVARIANTS
    NsLedgerExact
CHECK_DEADLOCK FALSE
