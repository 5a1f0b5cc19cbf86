SPECIFICATION Spec
CONSTANTS
  Nodes = {1, 2}
  Upstream <- Chain
  Outputs = {1, 2}
  MaxAttempts <- TwiceOnce
  RunLease = 2
  AttemptLease = 2
  MaxBegins = 1
  MaxUnknown = 0
  MaxStalls = 1
INVARIANTS
  TypeOK
  RunInv
  EvidenceAgrees
  DownstreamAfterUpstream
PROPERTIES
  TerminalEvidenceFrozen
  CancelWins
  CancelBlocksWork
CHECK_DEADLOCK FALSE
