SPECIFICATION EgressSpec
CONSTANTS
    MaxSegments = 2
    Last = {}
    MaxStreams = 1
    MaxTimers = 1
    MaxPending = 1
    Capacity = 1
    MaxFailures = 0
    MaxInterrupts = 1
INVARIANTS SurvivesTransition
CHECK_DEADLOCK FALSE
