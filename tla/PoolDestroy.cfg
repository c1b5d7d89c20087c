SPECIFICATION FairSpec
CONSTANTS
    NThreads = 2
    Rounds = 1
CHECK_DEADLOCK FALSE
PROPERTY DestroyReturns
