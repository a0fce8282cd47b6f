SPECIFICATION Spec
CONSTANTS
  Kinds <- PlainBackend
  ClientTokens = 4
  BackendTokens = 0
  Chunk = 4
  Room = 2
  MaxDrains = 3
  HangUps = {}
  Early = FALSE
INVARIANTS
  OnlyPlainData
CHECK_DEADLOCK FALSE
