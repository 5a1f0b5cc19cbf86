SPECIFICATION FairSpec

CONSTANTS
    Workers = {w1}
    Callers = {c1}
    NoWorker = NoWorker
    MaxAttempts = 3
    MaxDeliveries = 3
    Settings <- InProcess
    MaxMishaps = 1

PROPERTIES
    AbandonedIsTakenOver

CHECK_DEADLOCK FALSE
