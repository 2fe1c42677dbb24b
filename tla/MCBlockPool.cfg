CONSTANTS
    c1 = c1
    c2 = c2
    d1 = d1
    k1 = k1
    k2 = k2
    Block <- MCBlock
    NullBlock = 0
    NoKey = NoKey
    EnableCaching = TRUE
    EnableEvents = TRUE
    Client <- MCClient
    Copy <- MCCopy
    Key <- MCKey
    KeyTokens <- MCKeyTokens
    BlockOrder <- MCBlockOrder
    MaxHit = 1
    MaxTable = 2
SYMMETRY ClientSymmetry
SPECIFICATION Spec
INVARIANTS
    TypeOK
    FreeIsUnreferenced
    RefCountsHolders
    MapMatchesBlocks
    SubscriberAgrees
PROPERTY
    WatchersFireOnReuse
