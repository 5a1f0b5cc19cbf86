SPECIFICATION Spec
CONSTANTS
  Nodes = {1, 2}
  Upstream <- Chain
  Outputs = {2}
  MaxAttempts <- TwiceOnce
  RunLease = 2
  AttemptLease = 2
  MaxBegins = 1
  MaxUnknown = 0
  MaxStalls = 0
INVARIANTS
  OwnersPassTheContract
CHECK_DEADLOCK FALSE
