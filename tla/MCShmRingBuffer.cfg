SPECIFICATION Spec
CONSTANTS
    x = x
    y = y
    Reader <- MCReader
    MaxChunks = 2
    MaxMsgs = 3
    Large = {1, 3}
    StoresInOrder = TRUE
    Hasty <- MCHasty
    Stoppable <- MCStoppable
INVARIANTS RingSafe
PROPERTIES ImplementsBroadcast WriterNotStuck ShutdownEnds
