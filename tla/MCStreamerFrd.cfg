SPECIFICATION MCLiveSpec
CONSTANTS
    Block = {0, 1, 2}
    Defaults = 2
    BufSz = 3
    MaxLine = 1
    Environments <- MCEnvironments
    MaxOpens = 2
    MaxBreaks = 1
INVARIANTS
    
    CleanTransferSucceeds
    RingHoldsUnread
PROPERTIES
    TransfersEnd
CHECK_DEADLOCK FALSE
