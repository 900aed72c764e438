SPECIFICATION MCLiveSpec
CONSTANTS
    UpNames = {"x", "y"}
    DownNames = {"y"}
    OwnNames <- MCOwnNames
    PackN = 2
    MaxFrames = 2
    MaxAdds = 3
    MaxCloses = 1
    Patience = {TRUE, FALSE}
INVARIANTS
    TypeOK
    NoCrossWiring
    PatientRemovals
    PatientData
PROPERTIES
    PatientLinked
CHECK_DEADLOCK FALSE
