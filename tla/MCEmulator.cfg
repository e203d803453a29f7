SPECIFICATION EmulatorSpec
CONSTANTS
    EndClock = 6
    MaxBatch = 1
    EnableSkip = TRUE
    Mhz = 2
    MaxDelay = 1
    WorldMax = 3
    EventMax = 3
    Timers = TRUE
    BufferSize = 1
    DevSize = 2
    RdIntOff = 1
    WrIntOff = 1
    Delay = 1
    Gap = 1
    MaxOut = 3
    MaxIn = 2
    Addr = {0, 1, 2}
    BreakSlots = 2
    CoreNum = 2
    ClocksMax = 0
    ExecCap = 2
INVARIANTS
    NeverAhead
    EventsOnTime
    FifoSound
    TargetAsReported
PROPERTIES
    Lockstep
    RunsToEnd
    CommandsNoticed
    Delivered
    TxInterrupts
    BreakPointsHonoured
    StopsAnswered
    LostClientParks
