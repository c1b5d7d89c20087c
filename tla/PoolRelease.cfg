SPECIFICATION Spec
CONSTANTS
    NThreads = 2
    Rounds = 1
CHECK_DEADLOCK FALSE
INVARIANT ReleasedUnused
