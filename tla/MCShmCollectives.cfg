SPECIFICATION Spec
CONSTANTS
    G = 3
    StampMod = 5
    Programs <- MCPrograms
CHECK_DEADLOCK FALSE
INVARIANTS BuffersSafe
PROPERTIES OperationsComplete
