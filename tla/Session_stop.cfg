SPECIFICATION FairSpec
CONSTANTS
    Killers = {k1, k2}
    Clients = {}
    Obedience = {TRUE}
    CanHangup = TRUE
INVARIANTS ExitIsReaped EndsAreReal
PROPERTIES StopReturns ExitSettles
CHECK_DEADLOCK FALSE
