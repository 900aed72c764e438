SPECIFICATION MCSpec
CONSTANTS
    Client = {"c1", "c2"}
    MaxIx = 2
    Environments <- MCEnvironments
    MaxBreaks = 1
    MaxKeepAlives = 1
INVARIANT
    LockReleased
CHECK_DEADLOCK FALSE
