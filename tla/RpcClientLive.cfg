SPECIFICATION FairSpec
CONSTANTS
    call = call
    otherCall = otherCall
    batchCall = batchCall
    sub = sub
    k1 = k1
    NoOp = NoOp
    Call <- MCOneCall
    Size <- MCSize
    Sub <- MCSub
    Closer <- MCClosers
    Cancellable <- MCOneCall
    Repeated = {}
    MaxConn = 2
    MaxNote = 1
    MaxBuffer = 1
    Breaks = TRUE
    WriteFaults = FALSE
CHECK_DEADLOCK FALSE
INVARIANTS
    Signalled
PROPERTIES
    CallsReturn
    CloseReturns
    UnsubscribeReturns
