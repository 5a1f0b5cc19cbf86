SPECIFICATION Spec

CONSTANTS
    Tickers = {t1, t2}
    Versions = {v1}
    Threshold = 3
    MaxClock = 2
    MaxEdits = 0
    MaxMishaps = 1

INVARIANTS
    FailuresCountedOnce

CHECK_DEADLOCK FALSE
