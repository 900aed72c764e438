SPECIFICATION MCSpec
CONSTANTS
    UpNames = {"x", "y"}
    DownNames = {"y"}
    OwnNames <- MCOwnNames
    PackN = 2
    MaxFrames = 2
    MaxAdds = 2
    MaxCloses = 0
    Patience = {FALSE}
INVARIANTS
    RemovalsReachTop
CHECK_DEADLOCK FALSE
