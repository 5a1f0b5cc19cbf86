SPECIFICATION FairSpec

CONSTANTS
    Workers = {w1, w2}
    Callers = {c1}
    NoWorker = NoWorker
    MaxAttempts = 2
    MaxDeliveries = 2
    Settings <- ChildOrEffect
    MaxMishaps = 2

INVARIANTS
    ActionInv
    CommittedOnce
    SentOnce
    CommitAfterEffect

PROPERTIES
    StatusForward
    CancellationsSettle
    DispatchIsRecovered

CHECK_DEADLOCK FALSE
