SPECIFICATION FairSpec
CONSTANTS
    MaxRetries = 2
    MaxCalls = 2
CHECK_DEADLOCK FALSE
INVARIANTS
    TypeOK
PROPERTIES
    IdentitySettles
    KeepsContract
    CallsReturn
    CancelEndsCalls
