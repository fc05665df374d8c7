CONSTANTS
    t1 = t1
    t2 = t2
    Timers = {t1, t2}
    Timeouts = {0, 4, 10}
    CallbackTimeouts = {1}
    Repeats <- Short
    Count = 3
    MaxWheels = 4
    MaxElapsed = 2
    MaxTime = 10
    NoTimer = NoTimer
SYMMETRY Symmetry
SPECIFICATION Spec
INVARIANTS
    LinkedOnce
    NothingOverdue
PROPERTIES
    KeepsContract
