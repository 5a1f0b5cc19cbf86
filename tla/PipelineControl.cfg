SPECIFICATION FairSpec

CONSTANTS
    Nodes = {1}
    Upstream <- Single
    Outputs = {1}
    MaxAttempts <- Once
    RunLease = 2
    AttemptLease = 2
    MaxBegins = 2
    MaxUnknown = 1
    MaxStalls = 1

PROPERTIES
    RunTerminates

CHECK_DEADLOCK FALSE
