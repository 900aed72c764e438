SPECIFICATION MCLiveSpec
CONSTANTS
    BufSz = 2
    MaxLine = 1
    Block = {0, 1, 2}
    FlashProgram = 1
    Environments <- MCEnvironments
    MaxOpens = 2
    MaxBreaks = 1
INVARIANTS
    KeptIsWhole
    StoredIsBeginning
    CompletedIsKept
PROPERTIES
    TransfersEnd
CHECK_DEADLOCK FALSE
