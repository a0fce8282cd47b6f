SPECIFICATION Spec
CONSTANTS
  c1 = c1
  c2 = c2
  Conns = {c1, c2}
  Fds = {1, 2, 3, 4, 5, 6}
  MaxEvents = 2
  Faults = {"connect"}
INVARIANTS
  OpenSideOwnsNumber
  WaitFindsNoRemains
  StrayOnlyAfterClose
  OnlyTimerLeaks
SYMMETRY Symmetry
