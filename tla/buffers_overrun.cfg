SPECIFICATION Spec
CONSTANTS
  READ_BUF_SIZE = 2
  Bytes = {0, 1, 2}
  MaxPiece = 3
  MaxFill = 6
INVARIANTS
  PossibleToWrite
CHECK_DEADLOCK FALSE
