SPECIFICATION FairSpec
CONSTANTS
    r = r
    s = s
    t = t
    u = u
    h1 = h1
    h2 = h2
    Repos = {r, s}
    Tags = {t}
    Handlers = {h1, h2}
    MaxBatch = 2
    MaxEvents = 3
    MaxObjects = 3
    MaxFaults = 2
    FaultKinds = {"call", "late", "restart", "created", "deleted"}
INVARIANTS
    CountIsEarned
PROPERTIES
    NothingForgotten
    StatusIsTrue
CHECK_DEADLOCK FALSE
