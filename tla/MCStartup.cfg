SPECIFICATION Spec
CONSTANTS
    NoRegex = NoRegex
    FileUnfit <- NoneOrOne
    FileRules <- ListsOfTwo
    FileNumbers <- AlikeNumbers
    Regex <- SmallRegex
CHECK_DEADLOCK FALSE
INVARIANTS
    TypeOK
    RunsAsAssumed
    FailsForAReason
