SPECIFICATION Spec

CONSTANTS
    w1 = w1
    w2 = w2
    r1 = r1
    r2 = r2
    r3 = r3
    Workers = {w1, w2}
    Runs = {r1, r2, r3}
    GivenRuns = {r1}
    NewRun <- OneEach
    Events = {e1, e2}
    Watchdogs = {}
    NoWorker = NoWorker
    NoRun = NoRun
    NoEvent = NoEvent
    MaxCrashes = 0

INVARIANTS
    AppendsServed

CHECK_DEADLOCK FALSE
