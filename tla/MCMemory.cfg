SPECIFICATION Spec
CONSTANTS
    NoRegex = NoRegex
    p1 = p1
    Pods = {p1}
    Rules <- TwoRules
    Listings <- OneListing
    Answers <- InStockAnswers
    ConcurrencyPolicy = "Forbid"
    Persistent = FALSE
    RetentionDays <- NoPruning
    Day = 1
    HalfRange = 100
    MaxFaults = 0
    MaxTime = 2
    MaxSends = 3
CHECK_DEADLOCK FALSE
INVARIANTS
    MemoryRenotifies
