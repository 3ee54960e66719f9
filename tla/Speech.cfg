SPECIFICATION SpeechSpec
CONSTANTS
    key1 = key1
    key2 = key2
    MaxSegments = 3
    Last = {2}
    MaxStreams = 2
    MaxTimers = 2
    MaxPending = 1
    Capacity = 1
    MaxFailures = 2
    Playbacks <- MCPlaybacks
    NoPlayback = NoPlayback
    Cooldown = 2
    QuietPeriod = 1
    MaxHeard = 3
    MaxTriggers = 1
    MaxTime = 3
    SegSize = 2
    Lengths = {1, 3}
    Enders = {"e", "f"}
    MaxOpens = 2
    MaxLength = 4
    Subscriptions <- MCSubscriptions
    DedupWindow = 2
    SendSlots = 2
    CleanupThreshold = 1
    DedupHardCap = 1
    MaxNotices = 3
    MaxWall = 3
    Targets <- MCPlaybacks
    NoTarget = NoTarget
    MaxRounds = 2
    MaxCommands = 1
INVARIANTS SpeechTypeOK SegmentsFlow StreamsRegistered BargesFit StreamsWhole RouterSound NotifiedOnce
PROPERTY ImplementsDelivery
CHECK_DEADLOCK FALSE
SYMMETRY Symmetry
