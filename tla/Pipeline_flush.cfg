SPECIFICATION MCSpec
CONSTANTS
    MaxChunks = 3
    MaxSize = 2
    MaxTools = 1
    Lifecycle = {"stopped"}
INVARIANTS TypeOK OutputFlows
CHECK_DEADLOCK FALSE
