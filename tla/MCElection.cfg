SPECIFICATION FairSpec
CONSTANTS
    c1 = c1
    c2 = c2
    Candidates = {c1, c2}
    Lease = 5
    Renew = 2
    Retry = 1
    Tolerance = 1
    Delay = 1
    MaxFaults = 2
    FaultKinds = {"call", "lost", "crash", "stall", "hang"}
    NoLock = NoLock
    Gone = Gone
INVARIANTS
    OneLeader
    NoFalseAlarm
PROPERTIES
    LeaderEmerges
    SplitEnds
