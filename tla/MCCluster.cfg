SPECIFICATION FairSpec
CONSTANTS
    l1 = l1
    l2 = l2
    Loops = {l1, l2}
    Kinds = {"imported", "baremetal"}
    MaxUid = 2
    MaxEdits = 2
    MaxFaults = 1
    FaultKinds = {"call", "lost", "restart", "step", "sick", "down"}
INVARIANTS
    RunningHasCredential
    ContentGoesFirst
PROPERTIES
    TerminatingIsFinal
    Completes
    PhaseFollowsHealth
CHECK_DEADLOCK FALSE
