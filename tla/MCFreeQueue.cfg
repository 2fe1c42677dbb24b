CONSTANTS
    Order <- MCOrder
    Head0 = Head0
    Tail0 = Tail0
    None = None
SPECIFICATION Spec
INVARIANT LinksConsistent
PROPERTY ImplementsFreeQueue
