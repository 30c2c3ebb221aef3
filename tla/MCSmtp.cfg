SPECIFICATION FairSpec
CONSTANTS
    r1 = r1
    r2 = r2
    r3 = r3
    Recipients = {r1, r2, r3}
    StartTLS = TRUE
    HasUsername = TRUE
CHECK_DEADLOCK FALSE
INVARIANTS
    TypeOK
PROPERTIES
    HonoursContract
    NotifyReturns
    VerdictIsTaken
