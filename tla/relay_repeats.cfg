SPECIFICATION Spec
CONSTANTS
  Kinds <- NewTls
  ClientTokens = 2
  BackendTokens = 0
  Chunk = 4
  Room = 12
  MaxDrains = 0
  HangUps = {}
  Early = TRUE
INVARIANTS
  WrittenOnce
CHECK_DEADLOCK FALSE
