SPECIFICATION Spec
CONSTANTS
    Base = 5
    Word = 2
    Long = 2
    Amount = {0, 3, 7}
    Drifted = FALSE
INVARIANTS
    StoredInvariant
    KeysDiffer
CHECK_DEADLOCK FALSE
