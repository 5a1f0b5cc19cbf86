SPECIFICATION FairSpec

CONSTANTS
    Workers = {w1}
    Callers = {c1}
    NoWorker = NoWorker
    MaxAttempts = 3
    MaxDeliveries = 3
    Settings <- InChild
    MaxMishaps = 0

PROPERTIES
    RetriesAreRedelivered

CHECK_DEADLOCK FALSE
