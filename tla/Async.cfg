SPECIFICATION FairSpec
CONSTANTS
    Workers = {w1, w2, w3}
    Reqs = {r1, r2, r3}
    NoReq = NoReq
CHECK_DEADLOCK FALSE
INVARIANTS TypeOK WorkConserving CompletionAnnounced OneOwner
PROPERTY AnsweredWhenQuiet
