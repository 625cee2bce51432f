SPECIFICATION Schedule
CONSTANTS
    ID = {t1, t2}
    MaxSlot = 3
    Interval = 1
    Delays <- MCDelays
    R = 2
    Args <- MCArgs
    MaxWait = 1
    MaxMissed = 1
SYMMETRY Alike
INVARIANTS
    TypeOK
    Consistent
    DueOnTime
PROPERTIES
    ImplementsDelayQueue
