SPECIFICATION MCLiveSpec
CONSTANTS
    NBytes = 2
    ByteMod = 3
    CheckLimit = 1
    MaxFrames = 2
    Budgets <- MCBudgets
INVARIANTS
    TypeOK
    NoLostWrite
    DeltaCoherence
    TargetRangesCover
    StreamInv
    QuiescentEqual
PROPERTIES
    SnapshotsInOrder
    EventuallyEqual
