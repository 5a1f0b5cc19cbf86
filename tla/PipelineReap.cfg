SPECIFICATION Spec
CONSTANTS
  Nodes = {1}
  Upstream <- Single
  Outputs = {1}
  MaxAttempts <- Once
  RunLease = 2
  AttemptLease = 2
  MaxBegins = 1
  MaxUnknown = 0
  MaxStalls = 0
INVARIANTS
  LapsedLeaseIsACrash
CHECK_DEADLOCK FALSE
