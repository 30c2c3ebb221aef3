SPECIFICATION Spec
CONSTANTS
    NoRegex = NoRegex
    p1 = p1
    p2 = p2
    Pods = {p1, p2}
    Rules <- TwoRules
    Listings <- CoreListing
    Answers <- ChangingAnswers
    ConcurrencyPolicy = "Forbid"
    Persistent = TRUE
    RetentionDays = 1
    Day = 1
    HalfRange = 8
    MaxFaults = 2
    MaxTime = 2
    MaxSends = 4
SYMMETRY PodSymmetry
CHECK_DEADLOCK FALSE
INVARIANTS
    TypeOK
    RecordedWasDelivered
    LinesAreBuyable
    RepeatsHaveAReason
PROPERTIES
    PrunesOnlyExpired
    KeepsTheLedger
