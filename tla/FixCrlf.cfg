CONSTANTS
    NULL = NULL
    Runs = {r1}
    Projects <- CrlfProjects
    Drafts <- NoDrafts
    Faults = {}
    MaxEdits = 0
SPECIFICATION Spec
INVARIANTS
    StaleMeansDrift
CHECK_DEADLOCK FALSE
