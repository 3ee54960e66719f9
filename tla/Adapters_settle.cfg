SPECIFICATION FairSpec
CONSTANTS
    x1 = x1
    x2 = x2
    y1 = y1
    X = X
    Y = Y
    None = None
    Prints = {x1, y1}
    First = x1
    AdapterOf <- MCAdapterOf
    Loops = {w}
    Callers = {c}
    MaxPorts = 1
    MaxEdits = 1
    MaxFaults = 1
    MaxEvents = 2
    ErrorLimit = 1
    CanRefuse = TRUE
INVARIANTS PublishedInTurn RouterFollows
PROPERTIES Settles
CHECK_DEADLOCK FALSE
