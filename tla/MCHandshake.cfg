SPECIFICATION FairSpec
CONSTANTS
    Cert <- MCCert
    Content <- MCContent
    Starts <- MCStarts
INVARIANTS
    NameArrives
    InStep
    AuthIntact
PROPERTIES
    Completes
CHECK_DEADLOCK FALSE
