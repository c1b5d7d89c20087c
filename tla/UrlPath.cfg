SPECIFICATION Spec
CONSTANTS
  Names = {"a", "bb"}
  HostTail = "ost"
  MaxDots = 3
  MaxDepth = 4
  MaxImports = 3
INVARIANTS TypeOK LengthFits FitsIsRight ProtoResolves
CHECK_DEADLOCK FALSE
