SPECIFICATION FairSpec
CONSTANTS
    MaxFrameNr = 4
    MaxLine = 3
    MaxSent = 6
    Environments <- MCEnvironments
    MaxDisturbs = 3
    MaxSessions = 4
INVARIANTS
    FramesInTurn
PROPERTIES
    Reconnects
CHECK_DEADLOCK FALSE
