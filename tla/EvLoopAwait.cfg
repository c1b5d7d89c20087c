SPECIFICATION FairSpec
CONSTANTS
    Workers = {w1, w2}
    Main = Main
    NoOne = NoOne
    Reqs = {r1, r2}
    NoReq = NoReq
PROPERTY ModuleFinishes
