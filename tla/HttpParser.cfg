SPECIFICATION Spec
CONSTANTS
  MaxFields = 2
  MaxChunks = 2
  MaxHeaders = {1, 2}
INVARIANTS TypeOK RequestRight CutNeverAnswered NamesInOrder ChunksRight
CHECK_DEADLOCK FALSE
