SPECIFICATION FairSpec
CONSTANTS
    m1 = m1
    c1 = c1
    v1 = v1
    w1 = w1
    Requests = {m1}
    Receivers = {v1, w1}
    Channels = {c1}
    ChannelOf <- MCChannelOf
    Direct <- MCDirect
    Grouped <- MCGrouped
    Shapes = {"own", "early", "late"}
    MaxUid = 2
    MaxEdits = 0
    MaxFaults = 1
    FaultKinds = {"list"}
    Most = 2
INVARIANT SentIsTrue
CHECK_DEADLOCK FALSE
