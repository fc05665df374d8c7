CONSTANTS
    c1 = c1
    c2 = c2
    Clients = {c1, c2}
    MaxOps = 1
    MaxLoopPosts = 0
    MaxRuns = 2
    HasWakeupFd = FALSE
    NoOne = NoOne
SPECIFICATION FairSpec
PROPERTIES
    QueuesAreMailboxes
    QuitStops
    BlockingCallsReturn
CHECK_DEADLOCK FALSE
