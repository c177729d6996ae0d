CONSTANTS
    Mod = 8000
    DivLatency = 5
    SharedAddrBase = 128
    LoadBase = 20
    EntryVectorSize = 3
    StorageSize = 128
    EnableIrsToAddrLoad = TRUE
    Numerals <- MCNumerals
    Programs <- MCPrograms
    Words <- MCWords
SPECIFICATION Spec
INVARIANTS RunsAsWritten EmittedIsAllowed NothingIsPending
PROPERTY EveryProgramEnds
\* A program that has ended takes no more steps.
CHECK_DEADLOCK FALSE
