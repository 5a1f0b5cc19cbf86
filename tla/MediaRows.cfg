SPECIFICATION Spec

CONSTANTS
    Txs = {t1, t2}
    Sessions = {s1, s2}
    Committers = {c1, c2}
    None = None
    MaxRequests = 2

INVARIANTS
    NoStagedLeftBehind
    VisibleHasBytes

PROPERTIES
    RetentionProtects

CHECK_DEADLOCK FALSE
