CONSTANTS
    r1 = r1
    r2 = r2
    a = a
    b = b
    e = e
    Req <- MCReq
    Token <- MCToken
    Sampled <- MCSampled
    Eos = e
    NoToken = NoToken
    Prompt <- MCLongPrompt
    MaxTokens = 1
    TokenBudget = 3
    LongPrefill = 2
    MaxSeqs = 2
    BatchQueueSize = 1
    DecodeStagger = 1
    Modes <- SyncPriority
    Rank <- MCRank
    AllowReset = FALSE
    Block <- MCBlock8
    BlockOrder <- MCBlockOrder8
    NullBlock = 0
    NoKey = NoKey
    EnableCaching = TRUE
    EnableEvents = FALSE
    BlockSize = 1
    MaxModelLen = 8
    Watermark = 0
    ReserveFullISL = FALSE
SPECIFICATION Spec
INVARIANT StepReadsOwnKV
CHECK_DEADLOCK FALSE
