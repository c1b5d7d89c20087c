SPECIFICATION Spec
CONSTANTS
    Workers = {w1, w2, w3}
    Main = Main
    NoOne = NoOne
    Reqs = {r1, r2, r3, r4}
    NoReq = NoReq
SYMMETRY Symmetry
INVARIANTS
    TypeOK
    WaitCount
    WorkConserving
    CompletionAnnounced
    OneOwner
    LivePending
PROPERTY ImplementsExecutor
