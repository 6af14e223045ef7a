\* Three runs, one after another or at once, any of which may be killed, and
\* three other keychains: one whose name contains this one's, one whose path has
\* a space, and one like any other.
CONSTANTS
    NULL = NULL
    Runs = {r1, r2, r3}
    Others = {o1, o2, o3}
    Alike = {o2}
    Spaced = {o3}
    MaxChanges = 1
SYMMETRY Symmetric
SPECIFICATION Spec
INVARIANTS
    TypeOK
    FailsOnOrphanOnly
PROPERTIES
    ReadyIsUsable
    OthersStayListed
\* Three runs may all have ended.
CHECK_DEADLOCK FALSE
