SPECIFICATION FairSpec
CONSTANTS
  c1 = c1
  c2 = c2
  Conns = {c1, c2}
  Fds = {1, 2, 3, 4}
  MaxEvents = 10
  Faults = {}
PROPERTIES
  IdleIsReaped
  QueuedIsAccepted
