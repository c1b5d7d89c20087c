SPECIFICATION Spec
CONSTANTS
    Files = {a, b}
    Entry = a
    MaxImports = 2
    MaxLoads = 3
CHECK_DEADLOCK FALSE
INVARIANT FreedOnce
