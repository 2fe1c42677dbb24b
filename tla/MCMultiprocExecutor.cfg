SPECIFICATION Spec
CONSTANTS
    W = 2
    OutputRank = 1
    Capacity = 1
    AsyncOutput = TRUE
    FaultTolerance = TRUE
    Deaths = TRUE
    MaxCalls = 3
    MaxPending = 2
CHECK_DEADLOCK FALSE
INVARIANTS AnswersMatched
PROPERTIES ResultReturns
