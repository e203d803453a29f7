SPECIFICATION Spec
CONSTANTS
    Addr = {0, 1}
    BreakSlots = 1
    CoreNum = 1
    ClocksMax = 0
    ExecCap = 2
INVARIANTS
    StepExact
