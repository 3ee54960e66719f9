SPECIFICATION SessionsSpec
CONSTANTS
    user1 = user1
    user2 = user2
    Killers = {k1}
    Clients <- MCClients
    Obedience = {TRUE}
    CanHangup = TRUE
    Loggers <- MCClients
    JournalThreshold = 0
    MaxLogged = 2
    Days = {0, 1}
    MaxOld = 1
    MaxJournalFaults = 1
    Visitors <- MCClients
    NoVisitor = NoVisitor
    MaxMinutes = 1
    MaxStarts = 3
INVARIANTS SessionsTypeOK SinksCounted JournalSound AwarenessSound
CHECK_DEADLOCK FALSE
SYMMETRY Symmetry
