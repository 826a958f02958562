INIT MCInit
NEXT MCNext
CONSTANTS
    Paths <- MCPaths
    Subsystem <- MCSubsystem
    Above <- MCAbove
    NodeName <- MCNodeName
    Labels <- MCLabels
    InitDevices <- MCInitDevices
    BootDevice = TRUE
    SocketRoom = 3
    Swaps = 3
    Dm = "dm"
    Fb0 = "fb0"
    Data = "data"
CHECK_DEADLOCK FALSE
INVARIANTS
    DevFollows
    HandsOverClean
    NobodyLeftToKill
