SPECIFICATION Spec
CONSTANTS
    Task = {t1, t2, t3}
    NoID = NoID
    Job <- MCJob
    Module <- MCModule
    Versioned <- MCVersioned
    NoContents = "none"
    MaxAge = 3
    StoreFaults = TRUE
SYMMETRY Symmetry
INVARIANTS
    TypeOK
    AtMostOnce
    NoTaskLost
    DiskKept
PROPERTIES
    DeletedNeverRuns
    NearlyOnTime
