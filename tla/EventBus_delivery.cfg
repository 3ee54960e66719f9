SPECIFICATION Spec
CONSTANTS
    Publishers = {p1, p2}
    MaxEvents = 2
    BufferSize = 1
    MaxOverflow = 1
    Policies = {"drop-oldest", "drop-newest", "overflow"}
    Foreign = {2}
INVARIANTS TypeOK ClosedSafely NoSilentLoss NoLostWakeup
PROPERTIES ImplementsLossyFifo
CHECK_DEADLOCK FALSE
