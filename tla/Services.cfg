SPECIFICATION Spec
CONSTANTS
    user1 = user1
    user2 = user2
    None = None
    Bindings <- MCBindings
    Ports = {1}
    Threshold = 2
    Budget = 1
    MaxTurns = 6
    MaxLogFaults = 2
    MaxStale = 1
    OutputInterval = 2
    BypassInterval = 1
    MaxDetaches = 2
    MaxUpdates = 2
    MaxRenewals = 1
    MaxHostFaults = 1
    MaxProcesses = 4
    MaxGenerations = 2
    MaxReloads = 1
    MaxCrashes = 2
    MaxPluginFaults = 2
    Attempts = 2
    Viewers <- MCViewers
    Tools = {"x", "y"}
    NoTool = NoTool
    HistorySize = 2
    ChangeCap = 1
    MaxOutputs = 3
    Calls = {"x", "y", "z"}
    Limited = {"x"}
    SocketSize = 1
    Commands = {1, 2, 3}
    MaxRecords = 2
INVARIANTS ServicesTypeOK TurnKept NothingKept ServesConfig PluginsFound CallsAnswered InstalledWhole SessionFollowed
PROPERTIES CallsAreRemote InstallsAtomically
CHECK_DEADLOCK FALSE
SYMMETRY Symmetry
