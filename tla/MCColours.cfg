SPECIFICATION Spec
CONSTANTS
    NoRegex = NoRegex
    p1 = p1
    Pods = {p1}
    Rules <- TwoRules
    Listings <- TwoColours
    Answers <- InStockAnswers
    ConcurrencyPolicy = "Forbid"
    Persistent = TRUE
    RetentionDays <- NoPruning
    Day = 1
    HalfRange = 8
    MaxFaults = 0
    MaxTime = 0
    MaxSends = 3
CHECK_DEADLOCK FALSE
INVARIANTS
    NeverAnnouncedTwice
