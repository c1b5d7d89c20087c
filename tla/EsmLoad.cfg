SPECIFICATION Spec
CONSTANTS
    Files = {a, b, c}
    Entry = a
    MaxImports = 2
    MaxLoads = 5
CHECK_DEADLOCK FALSE
INVARIANTS TypeOK ReferrerFound PathsFreed OneLoadPerChain CyclesFail
