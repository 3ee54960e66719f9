SPECIFICATION MCEgressSpec
CONSTANTS
    MaxSegments = 2
    Last = {}
    MaxStreams = 2
    MaxTimers = 1
    MaxPending = 1
    Capacity = 1
    MaxFailures = 0
    MaxInterrupts = 1
INVARIANTS EgressTypeOK RequestsServed SynthsRegistered
CHECK_DEADLOCK FALSE
