SPECIFICATION FairSpec
CONSTANTS
    NoRegex = NoRegex
    p1 = p1
    p2 = p2
    Pods = {p1, p2}
    Rules <- OnlyShirtsInM
    Listings <- ShirtOnly
    Answers <- InStockAnswers
    ConcurrencyPolicy = "Allow"
    Persistent = TRUE
    RetentionDays = 1
    Day = 1
    HalfRange = 8
    MaxFaults = 1
    MaxTime = 2
    MaxSends = 7
CHECK_DEADLOCK FALSE
INVARIANTS
    RecordedWasDelivered
    RepeatsHaveAReason
PROPERTIES
    EventuallyRecorded
