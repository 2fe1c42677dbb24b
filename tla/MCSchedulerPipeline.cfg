CONSTANTS
    r1 = r1
    r2 = r2
    a = a
    b = b
    e = e
    Req <- MCReq
    Token <- MCToken
    Sampled <- MCSampledA
    Eos = e
    NoToken = NoToken
    Prompt <- MCPromptShared
    MaxTokens = 3
    TokenBudget = 4
    LongPrefill = 0
    MaxSeqs = 2
    BatchQueueSize = 3
    DecodeStagger = 2
    Modes <- FCFS
    Rank <- MCRank
    AllowReset = TRUE
    Block <- MCBlock3
    BlockOrder <- MCBlockOrder3
    NullBlock = 0
    NoKey = NoKey
    EnableCaching = TRUE
    EnableEvents = FALSE
    BlockSize = 2
    MaxModelLen = 6
    Watermark = 0
    ReserveFullISL = TRUE
SPECIFICATION Spec
INVARIANTS
    CountersAccounted
    StepReadsOwnKV
    DeliveredInContext
    CachedContentsSound
    ResetSucceeds
