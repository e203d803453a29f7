SPECIFICATION LoopSpec
CONSTANTS
    EndClock = 4
    MaxBatch = 3
    EnableSkip = TRUE
    Mhz = 1
    MaxDelay = 1
    WorldMax = 3
    EventMax = 3
    Timers = FALSE
INVARIANTS
    NeverAhead
