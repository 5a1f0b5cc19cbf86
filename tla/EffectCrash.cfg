SPECIFICATION FairSpec

CONSTANTS
    Workers = {w1, w2}
    MaxAttempts = 2
    MaxRetries = 0
    MaxCrashes = 1
    MaxStalls = 0

PROPERTIES
    DispatchedIsSettled

CHECK_DEADLOCK FALSE
