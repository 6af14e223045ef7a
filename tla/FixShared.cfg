\* Two runs and an editor on one file with several defects, a disk that may
\* fill up, and kills.
CONSTANTS
    NULL = NULL
    Runs = {r1,r2}
    Projects <- SharedProjects
    Drafts <- SharedDrafts
    Faults = {"disk", "crash"}
    MaxEdits = 1
SYMMETRY Symmetric
SPECIFICATION Spec
INVARIANTS
    StaleMeansDrift
    DamageIsReported
    VerifiedHolds
CHECK_DEADLOCK FALSE
