SPECIFICATION FairSpec
CONSTANTS
    m1 = m1
    c1 = c1
    v1 = v1
    w1 = w1
    Requests = {m1}
    Receivers = {v1, w1}
    Channels = {c1}
    ChannelOf <- MCChannelOf
    Direct <- MCDirect
    Grouped <- MCGrouped
    Shapes = {"own", "early", "late"}
    MaxUid = 2
    MaxEdits = 1
    MaxFaults = 2
    FaultKinds = {"call", "lost", "restart", "group", "list", "get", "archive"}
    Most = 2
INVARIANTS
    SentReachedAll
    SettledIsArchived
PROPERTIES
    KeepsPromise
    Settles
    ChannelDeletionCompletes
CHECK_DEADLOCK FALSE
