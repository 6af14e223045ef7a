CONSTANTS
    NULL = NULL
    Runs = {r1}
    Projects <- UnixProjects
    Drafts <- NoDrafts
    Faults = {"disk"}
    MaxEdits = 0
SPECIFICATION Spec
INVARIANTS
    FailedFixIsUndone
CHECK_DEADLOCK FALSE
