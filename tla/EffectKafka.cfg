SPECIFICATION Spec

CONSTANTS
    Workers = {w1, w2}
    MaxAttempts = 2
    MaxRetries = 0
    MaxCrashes = 0
    MaxStalls = 0

INVARIANTS
    StreamSentSafely
    SucceededHasLanded

CHECK_DEADLOCK FALSE
