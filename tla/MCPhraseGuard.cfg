SPECIFICATION Spec
CONSTANTS
    Setups <- MCSetups
    MAX_RETRIES = 2
    MAX_ZERO_WIDTH_TOKENS = 2
    Depth = 2
    MaxPreemptions = 1
CHECK_DEADLOCK FALSE
INVARIANTS NothingBannedSent JournalSound FramesContinueOutput NoTokenRejectedTwice
PROPERTIES RequestEnds
