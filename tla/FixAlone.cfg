CONSTANTS
    NULL = NULL
    Runs = {r1}
    Projects <- AllProjects
    Drafts <- NoDrafts
    Faults = {}
    MaxEdits = 0
SPECIFICATION Spec
INVARIANTS
    TypeOK
    CleanUnlessUnsafe
    FailedFixIsUndone
    StaleHasACause
PROPERTIES
    ImplementsFixes
CHECK_DEADLOCK FALSE
