CONSTANTS
    r = r
    w = w
    Coroutines <- MCCoroutines
    Envs <- MCEnvs
    MaxAwaits = 2
    MaxInput = 2
    x = x
    y = y
    Calls = {x, y}
    RpcEnvs <- MCRpcEnvs
    c1 = c1
    c2 = c2
    Clients = {c1, c2}
    MaxRuns = 2
    EarlyCalls = TRUE
    NoOne = NoOne
SPECIFICATION MCSpec
CHECK_DEADLOCK FALSE
INVARIANTS
    NoneForgotten
    AwaitersOutliveCallbacks
    ResumedOnceWithOwnAnswer
    LostOnlyIfRefused
PROPERTIES
    AwaitsReturn
    TimedCallsReturn
    CallsReturn
