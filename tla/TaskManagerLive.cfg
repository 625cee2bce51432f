SPECIFICATION FairSpec
CONSTANTS
    Task = {t1, t2}
    NoID = NoID
    Job <- MCScriptJob
    Module = {}
    Versioned <- MCNoVersioned
    NoContents = "none"
    MaxAge = 3
    StoreFaults = FALSE
INVARIANTS
    PublishedIsStored
PROPERTIES
    TaskCompletes
