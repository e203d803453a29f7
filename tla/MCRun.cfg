SPECIFICATION RunSpec
CONSTANTS
    Byte = {b1, b2}
    Sizes = {1, 2, 3}
    MaxLen = 4
    N = 2
    BatchLen = 1
    MaxFd = 3
    DirMax = 1
    Coordinated = TRUE
    Apis <- MCApis
INVARIANTS
    ResourcesSound
    
    
    BatchEventsOnTime
PROPERTIES
    IsQueue
    WatchStopsExact
CHECK_DEADLOCK FALSE
