SPECIFICATION Spec
CONSTANTS
    N = 2
    SyncInterval = 2
    PauseModes <- MCModes
    RedundantResume = FALSE
    MaxAdds = 2
    MaxCalls = 2
    MaxSteps = 1
CHECK_DEADLOCK FALSE
INVARIANTS Lockstep PausedStaysPaused CoordinatorAgrees
PROPERTIES WavesProgress CallsReturn
