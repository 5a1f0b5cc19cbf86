SPECIFICATION Spec

CONSTANTS
    Txs = {t1}
    Sessions = {s1, s2}
    Committers = {c1, c2}
    None = None
    MaxRequests = 0

PROPERTIES
    PublishedHasBytes

CHECK_DEADLOCK FALSE
