SPECIFICATION FairSpec

CONSTANTS
    Workers = {w1, w2}
    MaxAttempts = 2
    MaxRetries = 1
    MaxCrashes = 0
    MaxStalls = 0

PROPERTIES
    RetryIsSettled

CHECK_DEADLOCK FALSE
