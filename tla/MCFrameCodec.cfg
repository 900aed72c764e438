SPECIFICATION MCSpec
CONSTANTS
    NBytes = 9
    ByteMod = 2
    MaxRun = 3
    MaxData = 7
INVARIANTS
    CarriesRange
    FrameFits
PROPERTIES
    RangeArrives
CHECK_DEADLOCK FALSE
