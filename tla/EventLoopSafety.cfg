CONSTANTS
    c1 = c1
    c2 = c2
    Clients = {c1, c2}
    MaxOps = 1
    MaxLoopPosts = 2
    MaxRuns = 1
    HasWakeupFd = TRUE
    NoOne = NoOne
SPECIFICATION Spec
SYMMETRY Symmetry
INVARIANTS
    TypeOK
    NoSleepOnWork
    SyncCallsServed
    SetupExcludesLoop
    FifoOnce
CHECK_DEADLOCK FALSE
