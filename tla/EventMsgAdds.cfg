SPECIFICATION FairSpec
CONSTANTS
    r1 = r1
    r2 = r2
    a1 = a1
    Subscription <- MCAdds
    TypeOf <- MCTypeOf
    EvChanSize <- MCEvChanSize
    SubChanSize = 1
    MaxEvents = 4
    MayStop = FALSE
CHECK_DEADLOCK FALSE
PROPERTIES
    UnsubscribeReturns
