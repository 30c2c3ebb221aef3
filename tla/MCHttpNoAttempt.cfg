SPECIFICATION Spec
CONSTANTS
    MaxRetries <- MinusOne
    MaxCalls = 1
CHECK_DEADLOCK FALSE
INVARIANTS
    NilMeansAnswered
