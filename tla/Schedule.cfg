SPECIFICATION FairSpec

CONSTANTS
    Tickers = {t1, t2}
    Versions = {v1}
    Threshold = 2
    MaxClock = 2
    MaxEdits = 1
    MaxMishaps = 1

INVARIANTS
    ScheduleInv

PROPERTIES
    SlotsInOrder
    ManualPauseHolds
    AutoPauseYieldsToOwner
    DueSlotsRun

CHECK_DEADLOCK FALSE
