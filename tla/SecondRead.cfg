SPECIFICATION StreamSpec
CONSTANTS
    r = r
    w = w
    Coroutines <- MCCoroutines
    Envs <- TwoReaders
    MaxAwaits = 2
    MaxInput = 1
INVARIANT
    FirstReadCompletes
