SPECIFICATION Spec
CONSTANTS
    Addr = {0, 1}
    BreakSlots = 3
    CoreNum = 1
    ClocksMax = 1
    ExecCap = 2
    DriftMax = 1
    Sessions <- ReturnBreaks
INVARIANTS
    UserBreakPointsStop
