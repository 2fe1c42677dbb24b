SPECIFICATION MCSpec
CONSTANTS
    N = 2
    Blocks = 2
    Builds <- MCBuilds
    Programs <- MCPrograms
    MaxSize = 2
    LamportPrograms <- MCLamportPrograms
CHECK_DEADLOCK FALSE
INVARIANTS BuffersStable StagesSound
PROPERTIES KernelsEnd
