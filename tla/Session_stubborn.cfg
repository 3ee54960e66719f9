SPECIFICATION FairSpec
CONSTANTS
    Killers = {k1}
    Clients = {}
    Obedience = {FALSE}
    CanHangup = FALSE
PROPERTIES StopReturns
CHECK_DEADLOCK FALSE
