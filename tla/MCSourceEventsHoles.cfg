CONSTANTS
  p1 = p1
  p2 = p2
  c1 = c1
  Processes = {p1, p2}
  Readers = {c1}
  Scripts <- MCShortScripts
  MaxBatch = 2
  MaxTries = 1
  MaxHandlers = 2
SPECIFICATION Spec
INVARIANTS
  NothingMissed
CHECK_DEADLOCK FALSE
