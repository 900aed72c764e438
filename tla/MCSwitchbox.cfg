SPECIFICATION FairSpec
CONSTANTS
    Client = {"c1", "c2"}
    MaxIx = 2
    Environments <- MCEnvironments
    MaxBreaks = 1
    MaxKeepAlives = 1
INVARIANTS
    StreamsApart
    RingsFramed
PROPERTIES
    Arrives
CHECK_DEADLOCK FALSE
