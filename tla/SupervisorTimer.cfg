CONSTANTS
    w1 = w1
    w2 = w2
    Workers = {w1, w2}
    SupEnvs <- MCSupEnvs
    Backoff = 1
    RetryBackoff = 2
    FailureWindow = 3
    CircuitBackoff = 3
    MaxFailures = 3
    t1 = t1
    t2 = t2
    Timers = {t1, t2}
    Timeouts = {1, 3}
    Repeats <- AllRepeats
    IdleTimeout = 3
    Cap = 2
    StaleLimit = 1
    MaxTime = 4
    NoTimer = NoTimer
SPECIFICATION MCSpec
CHECK_DEADLOCK FALSE
INVARIANTS
    NoneLeftRunning
    HeapAgrees
    PollEndsInTime
PROPERTIES
    NoStartWhenHeld
    WorkersRecover
    KeepsContract
    DueTimersFire
