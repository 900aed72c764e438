SPECIFICATION LiveSpec
CONSTANTS
    Wrap = 8
    AckSz = 1
    MaxFrame = 1
    AckLimit = 2
    MaxInAir = 2
    MaxAckInAir = 5
    InitAck = 5
    MaxKeepalive = 1
INVARIANTS
    TypeOK
    InAirExact
    RxBufferBound
PROPERTIES
    NoLockup
