SPECIFICATION Spec
CONSTANTS
  Kinds <- NewTls
  ClientTokens = 2
  BackendTokens = 1
  Chunk = 4
  Room = 2
  MaxDrains = 3
  HangUps = {}
  Early = TRUE
INVARIANTS
  OnlyQueuedBytes
CHECK_DEADLOCK FALSE
