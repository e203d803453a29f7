SPECIFICATION LoopFairSpec
CONSTANTS
    EndClock = 6
    MaxBatch = 1
    EnableSkip = TRUE
    Mhz = 2
    MaxDelay = 1
    WorldMax = 3
    EventMax = 3
    Timers = TRUE
PROPERTIES
    ValidPdusRun
