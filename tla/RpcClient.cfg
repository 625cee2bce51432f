SPECIFICATION Spec
CONSTANTS
    call = call
    otherCall = otherCall
    batchCall = batchCall
    sub = sub
    k1 = k1
    NoOp = NoOp
    Call <- MCCallOrBatch
    Size <- MCSize
    Sub <- MCSub
    Closer <- MCClosers
    Cancellable = {}
    Repeated <- MCRepeated
    MaxConn = 2
    MaxNote = 2
    MaxBuffer = 1
    Breaks = TRUE
    WriteFaults = TRUE
CONSTRAINT LightTraffic
CHECK_DEADLOCK FALSE
INVARIANTS
    TypeOK
    ConnectionsKept
    DispatchNotBlocked
    NoCallerForgotten
    NotesInOrder
PROPERTIES
    KeepsPromise
