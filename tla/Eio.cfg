SPECIFICATION Spec
CONSTANTS
    Reqs = {r1, r2}
    Blocks = {b1, b2, b3, b4, b5}
    NULL = NULL
SYMMETRY Symmetry
CHECK_DEADLOCK FALSE
INVARIANTS TypeOK NoDangling NothingLost FreesMatch CallbackReads
