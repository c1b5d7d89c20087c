SPECIFICATION FairSpec
CONSTANTS
    NThreads = 2
    Rounds = 3
CHECK_DEADLOCK FALSE
INVARIANTS TypeOK StatusMeaning OneOwner InOrder ReleaseLast
PROPERTIES TasksLeave EndsOrSelfLocked
