CONSTANTS
    w1 = w1
    s1 = s1
    Workers = {w1}
    Submitters = {s1}
    Waiters = {}
    MaxSubmits = 1
    MaxWaits = 0
    MaxStarts = 1
    MaxQueueSize = 0
    CallerRuns = FALSE
    NoOne = NoOne
SPECIFICATION FairSpec
PROPERTIES
    ShutdownReturns
CHECK_DEADLOCK FALSE
