SPECIFICATION FairSpec
CONSTANTS
    r1 = r1
    r2 = r2
    a1 = a1
    Subscription <- MCMixed
    TypeOf <- MCTypeOf
    EvChanSize <- MCEvChanSize
    SubChanSize = 1
    MaxEvents = 2
    MayStop = TRUE
CHECK_DEADLOCK FALSE
INVARIANTS
    TypeOK
    NothingMissed
PROPERTIES
    KeepsPromise
    SilentAfterUnsubscribe
    ResultsUnsubscribe
    EventsArrive
