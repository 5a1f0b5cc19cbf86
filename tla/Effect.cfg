SPECIFICATION FairSpec

CONSTANTS
    Workers = {w1, w2}
    MaxAttempts = 2
    MaxRetries = 2
    MaxCrashes = 2
    MaxStalls = 2

INVARIANTS
    EffectInv
    SentSafely

PROPERTIES
    DeliveriesAreTakenOver

CHECK_DEADLOCK FALSE
