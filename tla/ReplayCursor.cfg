SPECIFICATION Spec

CONSTANTS
    Archivers = {a1}
    Callers = {c1}
    Keys = {k1}
    MaxOffset = 3
    Bad = {1}
    Fatal = {}
    MaxErrorPercent = 100
    Limit = 2
    NoKey = NoKey
    NoCaller = NoCaller
    MaxRequests = 1
    MaxCrashes = 0
    MaxTakeovers = 0

INVARIANTS
    ArchivedOnce

CHECK_DEADLOCK FALSE
