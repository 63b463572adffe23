SPECIFICATION Spec
CONSTANTS
    p = p
    q = q
    a = a
    b = b
    x = x
    t = t
    s = s
    none = none
    Projects = {p}
    NoProject = none
    Parent <- MCRoot
    Clusters = {x}
    Namespaces = {a}
    Targets = {t}
    ProjectOf <- MCLone
    ClusterOf <- MCLoneOnX
    TargetOf <- MCLoneTarget
    NsQuotas <- MCOneTwo
    ProjectQuotas <- MCTwoThree
    Usages <- MCUsed
    Namesakes = {a}
    MaxUid = 3
    MaxEdits = 1
    MaxFaults = 2
    FaultKinds = {"lost", "restart", "purge"}
    MaxLoops = 1
    Users = {1}
INVARIANTS
    UsedWithinHard
CHECK_DEADLOCK FALSE
