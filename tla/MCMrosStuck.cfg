SPECIFICATION MrosSpec
CONSTANTS
    Topics = {1, 2}
    Program <- MCProgram
    Uris = {1, 2}
    SymPorts = {1}
    MaxClients = 2
    MaxNodes = 2
    MaxConns = 3
    QueueLen = 1
    MaxUris = 2
    MaxUpdates = 0
    MaxOuterSubs = 0
    MaxMsgs = 0
PROPERTY SubscribeReturns
CHECK_DEADLOCK FALSE
