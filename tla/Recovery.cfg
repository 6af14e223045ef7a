\* Recovery on a project that a person changes twice, before, during or after
\* a run of the CLI: a fix and an attestation, or two fixes between two of the
\* readings one report is made of.
CONSTANTS
    NULL = NULL
    DataTypes = {"CAMERA"}
    ShortCodes = {"CAMERA"}
    Keys = {"k1"}
    Sizes = {48}
    ArbKeys = {"title"}
    MaxChanges = 2
    ProjectSet <- AProjects
    AreaSet <- AAreas
    AttestationSet <- AAttestations
    RejectionSet <- ARejections
    FlagSet <- AFlags
SPECIFICATION Spec
INVARIANTS
    TypeOK
    VerifiedIsTrue
    ExitZeroIsEarned
    PhasesAgree
    OnlyContradictionTurnsBack
PROPERTIES
    YesIsBacked
