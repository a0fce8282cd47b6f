SPECIFICATION Spec
CONSTANTS
  Kinds <- AllKinds
  ClientTokens = 2
  BackendTokens = 2
  Chunk = 2
  Room = 2
  MaxDrains = 2
  HangUps = {"client", "backend"}
  Early = TRUE
INVARIANTS
  TypeOK
  StreamIntegrity
  HandshakeFirst
  PlainWrittenOnce
  RelayInv
CHECK_DEADLOCK FALSE
