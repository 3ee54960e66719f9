SPECIFICATION FairSpec
CONSTANTS
    Publishers = {p1, p2}
    MaxEvents = 1
    BufferSize = 1
    MaxOverflow = 1
    Policies = {"drop-oldest", "drop-newest", "overflow"}
    Foreign = {}
PROPERTIES NothingHangs
CHECK_DEADLOCK FALSE
