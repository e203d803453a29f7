SPECIFICATION SyscallsSpec
CONSTANTS
    N = 1
    BatchLen = 2
    MaxFd = 2
    DirMax = 1
    Coordinated = TRUE
    Apis = {"socket", "open", "read", "close"}
INVARIANT CallsServed
CHECK_DEADLOCK FALSE
