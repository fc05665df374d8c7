CONSTANTS
    Sizes = {2, 7}
    OutputLimit = 4
    SendRoom = 2
    DrainMax = 2
    PacketMax = 3
    MaxCalls = 2
    MaxInput = 1
    DepEnvs <- MCDepEnvs
SPECIFICATION MCSpec
CHECK_DEADLOCK FALSE
INVARIANTS
    StreamInOrder
    EdgesBringBack
    ClosedIsUnregistered
    PlanIsExact
    NoPortClash
    StartedAreStopped
PROPERTIES
    FinFollowsOutput
    ClosingEnds
    ShutdownEnds
