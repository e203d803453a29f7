SPECIFICATION DevicesSpec
CONSTANTS
    Topics = {1, 2}
    Uris = {1, 2}
    SymPorts = {1}
    Program <- MCProgram
    MaxClients = 2
    MaxNodes = 2
    MaxConns = 3
    QueueLen = 1
    MaxUris = 1
    MaxUpdates = 1
    MaxOuterSubs = 2
    MaxMsgs = 2
    MaxThreads = 2
    Modes = {"plain", "hakoniwa"}
INVARIANTS
    TablesSound
    OneLateRun
    LateSigtermIsClean
PROPERTIES
    AdvertiseReturns
    DeliveredInOrder
    StartRuns
    SigtermEnds
CHECK_DEADLOCK FALSE
