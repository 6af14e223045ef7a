\* Privacy and design review of an app that a person changes up to twice
\* before, during and after runs: answers, edits and measurements.
CONSTANTS
    NULL = NULL
    DataTypes = {"LOCATION", "CONTACTS", "CAMERA"}
    ShortCodes = {"LOCATION", "CONTACTS"}
    Keys = {"k1", "k2"}
    Sizes = {8, 44, 320, 568}
    ArbKeys = {"title", "body"}
    MaxChanges = 2
    SourceSet <- ASources
    FactSet <- AFacts
SPECIFICATION Spec
INVARIANTS
    TypeOK
    FactsAreAttributed
    DisputesSurface
    BlockedMeansDefect
    GateIsWorstArea
PROPERTIES
    AnswersSettle
    MeasuringOnlyDecides
