SPECIFICATION Spec

CONSTANTS
    Txs = {t1, t2}
    Sessions = {s1}
    Committers = {c1, c2}
    None = None
    MaxRequests = 1

INVARIANTS
    HeadIsStored

CHECK_DEADLOCK FALSE
