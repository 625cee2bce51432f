SPECIFICATION Spec
CONSTANTS
    Task = {t1, t2}
    NoID = NoID
    Job <- MCPluginJob
    Module <- MCModule
    Versioned <- MCVersioned
    NoContents = "none"
    MaxAge = 3
    StoreFaults = FALSE
INVARIANT
    ResultNamesItsTask
