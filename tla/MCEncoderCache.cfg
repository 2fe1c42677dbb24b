SPECIFICATION Spec
CONSTANTS
    NumReqs = 3
    Items <- Repeated
    Prompt <- Lengths
    Size <- Sizes
    CacheSize = 2
    Budget = 2
    Priority = FALSE
    disable_chunked_mm_input = FALSE
    Depth = 2
    MaxPreemptions = 1
    MaxResets = 1
CHECK_DEADLOCK FALSE
INVARIANTS CacheAccounted NoCacheMiss WorkerWithinCapacity
