SPECIFICATION Spec

CONSTANTS
    Tickers = {t1}
    Versions = {v1}
    Threshold = 1
    MaxClock = 2
    MaxEdits = 0
    MaxMishaps = 0

PROPERTIES
    AutoPauseHolds

CHECK_DEADLOCK FALSE
