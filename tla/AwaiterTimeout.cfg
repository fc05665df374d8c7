SPECIFICATION StreamSpec
CONSTANTS
    r = r
    w = w
    Coroutines <- MCCoroutines
    Envs <- MCEnvs
    MaxAwaits = 2
    MaxInput = 1
INVARIANT
    ResumedOnce
