SPECIFICATION FairSpec

CONSTANTS
    Archivers = {a1, a2}
    Callers = {c1, c2}
    Keys = {k1, k2}
    MaxOffset = 2
    Bad = {2}
    Fatal = {}
    MaxErrorPercent = 50
    Limit = 2
    NoKey = NoKey
    NoCaller = NoCaller
    MaxRequests = 2
    MaxCrashes = 1
    MaxTakeovers = 1

INVARIANTS
    ReplayInv
    NothingSkipped

PROPERTIES
    ReplaysAreDecided
    StallsOnlyOnBadBatches

CHECK_DEADLOCK FALSE
