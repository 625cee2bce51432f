SPECIFICATION FairSpec
CONSTANTS
    call = call
    otherCall = otherCall
    batchCall = batchCall
    sub = sub
    k1 = k1
    NoOp = NoOp
    Call <- MCCalls
    Size <- MCSize
    Sub = {}
    Closer <- MCClosers
    Cancellable = {}
    Repeated = {}
    MaxConn = 2
    MaxNote = 0
    MaxBuffer = 1
    Breaks = FALSE
    WriteFaults = TRUE
CHECK_DEADLOCK FALSE
PROPERTIES
    CloseCloses
