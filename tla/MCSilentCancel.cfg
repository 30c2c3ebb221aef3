SPECIFICATION Spec
CONSTANTS
    NoRegex = NoRegex
    p1 = p1
    Pods = {p1}
    Rules <- TwoRules
    Listings <- OneListing
    Answers <- InStockAnswers
    ConcurrencyPolicy = "Forbid"
    Persistent = TRUE
    RetentionDays <- NoPruning
    Day = 1
    HalfRange = 8
    MaxFaults = 1
    MaxTime = 0
    MaxSends = 1
CHECK_DEADLOCK FALSE
INVARIANTS
    NilMeansComplete
