SPECIFICATION Spec
CONSTANTS
    MaxSegments = 2
    Last = {}
    MaxStreams = 1
    MaxTimers = 2
    MaxPending = 2
    Capacity = 1
    MaxFailures = 0
INVARIANTS NoStrandedPending
CHECK_DEADLOCK FALSE
