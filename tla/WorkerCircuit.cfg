CONSTANTS
    w1 = w1
    w2 = w2
    Workers = {w1, w2}
    SupEnvs <- CircuitEnvs
    Backoff = 1
    RetryBackoff = 2
    FailureWindow = 3
    CircuitBackoff = 3
    MaxFailures = 3
SPECIFICATION SupFairSpec
CHECK_DEADLOCK FALSE
PROPERTY
    RecoveryResumes
