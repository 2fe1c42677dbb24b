CONSTANTS
    r1 = r1
    r2 = r2
    a = a
    b = b
    e = e
    Req <- MCReq
    Token <- MCToken
    Sampled <- MCSampled
    Eos = e
    NoToken = NoToken
    Prompt <- MCLongPrompt
    MaxTokens = 2
    TokenBudget = 3
    LongPrefill = 2
    MaxSeqs = 2
    BatchQueueSize = 2
    DecodeStagger = 1
    Modes <- BothPolicies
    Rank <- MCRank
    AllowReset = FALSE
    Block <- MCBlock5
    BlockOrder <- MCBlockOrder5
    NullBlock = 0
    NoKey = NoKey
    EnableCaching = TRUE
    EnableEvents = FALSE
    BlockSize = 2
    MaxModelLen = 9
    Watermark = 0
    ReserveFullISL = FALSE
SPECIFICATION FairSpec
INVARIANTS
    BatchConsistent
    PrefixClosed
PROPERTY
    RequestsFinish
CHECK_DEADLOCK FALSE
