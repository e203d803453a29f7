SPECIFICATION LoadSpec
CONSTANTS
    Images <- MCImages
    Word = 32
    Ident = 1
    EhdrSize <- MCHeaderSize
    PhdrSize <- MCHeaderSize
    ShdrSize <- MCHeaderSize
    SymSize <- MCHeaderSize
    VersionEnd = 2
    SizeTop = 16
    ElfSymbols <- MCElfSymbols
    MaxSymbols = 3
    AddrTop = 5
    Configs <- MCConfigs
    Environment <- MCEnvironment
    MaxParams = 3
    Targets <- MCTargets
    Funcs <- MCFuncs
    HostSymbols <- MCHostSymbols
    Libraries <- MCLibraries
    HostMax = 1
    AddrMax = 5
    Ram = {4, 5}
    Rom = {2, 3}
    Pcs = {2, 4}
    MaxAccesses = 2
INVARIANTS
    ReadsInside
    LookupExact
    LinesExact
    RegionsExact
    HeapSound
    StartsAsAsked
    AnswersExact
    HostCallsSound
PROPERTIES
    BytesKept
CHECK_DEADLOCK FALSE
