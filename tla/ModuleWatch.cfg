SPECIFICATION FairSpec
CONSTANTS
    File <- MCFile
    Default <- MCDefault
    NotifySize = 1
    EventSize = 1
    MaxChanges = 3
CHECK_DEADLOCK FALSE
INVARIANTS
    TypeOK
    InStep
PROPERTIES
    Settles
    WatcherEnds
