SPECIFICATION FairSpec
CONSTANTS
    Addr = {0, 1}
    BreakSlots = 2
    CoreNum = 2
    ClocksMax = 2
    ExecCap = 3
    DriftMax = 1
    Sessions <- MCSessions
INVARIANTS
    ResumesBounded
    DebuggerKeepsControl
PROPERTIES
    ResumeRuns
    CommandsReturn
