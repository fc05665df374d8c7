CONSTANTS
    w1 = w1
    w2 = w2
    s1 = s1
    s2 = s2
    a1 = a1
    Workers = {w1, w2}
    Submitters = {s1, s2}
    Waiters = {a1}
    MaxSubmits = 1
    MaxWaits = 1
    MaxStarts = 2
    MaxQueueSize = 1
    CallerRuns = TRUE
    NoOne = NoOne
SPECIFICATION FairSpec
PROPERTIES
    PromiseSetOnce
    FuturesBecomeReady
    StopReturns
CHECK_DEADLOCK FALSE
