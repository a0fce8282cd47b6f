SPECIFICATION FairSpec
CONSTANTS
  Kinds <- Mixed
  ClientTokens = 2
  BackendTokens = 1
  Chunk = 4
  Room = 12
  MaxDrains = 0
  HangUps = {"client"}
  Early = FALSE
INVARIANTS
  ExactlyOnce
  CalmInv
PROPERTIES
  IsChannel
  HandshakesFinish
  Delivered
CHECK_DEADLOCK FALSE
