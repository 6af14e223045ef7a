\* A run that is killed, and one after it; no other keychains.
CONSTANTS
    NULL = NULL
    Runs = {r1, r2}
    Others = {o1}
    Alike = {}
    Spaced = {}
    MaxChanges = 0
SPECIFICATION Spec
INVARIANTS
    CreatesOrReuses
CHECK_DEADLOCK FALSE
