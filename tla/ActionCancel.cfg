SPECIFICATION Spec

CONSTANTS
    Workers = {w1, w2}
    Callers = {c1}
    NoWorker = NoWorker
    MaxAttempts = 2
    MaxDeliveries = 3
    Settings <- InProcess
    MaxMishaps = 2

INVARIANTS
    CancelClosesRetries

CHECK_DEADLOCK FALSE
