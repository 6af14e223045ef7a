CONSTANTS
    NULL = NULL
    Verifications <- AVerifications
    CauseSets <- ACauseSets
    Drafts <- ADrafts
    Bodies <- ABodies
    Audits <- AAudits
    SectionLists <- ASectionLists
SPECIFICATION Spec
INVARIANTS
    ReadyMeansAllGates
    ReadyPlansExecute
PROPERTIES
    AnyChangeMakesStale
