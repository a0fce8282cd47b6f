SPECIFICATION BuffersSpec
CONSTANTS
  READ_BUF_SIZE = 2
  Bytes = {0, 1, 2}
  MaxPiece = 3
  MaxFill = 6
  Capacity = 4
  Values = {0, 1, 2}
INVARIANTS
  TypeOK
  WithinOneByte
  ContentsKept
  GrowthIsDriven
  BufferInv
  RingInv
PROPERTIES
  OnePieceFits
  IsFifo
CHECK_DEADLOCK FALSE
