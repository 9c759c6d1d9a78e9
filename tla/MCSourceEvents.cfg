CONSTANTS
  p1 = p1
  p2 = p2
  c1 = c1
  Processes = {p1, p2}
  Readers = {c1}
  Scripts <- MCScripts
  MaxBatch = 2
  MaxTries = 1
  MaxHandlers = 2
SPECIFICATION LiveSpec
INVARIANTS
  TypeOK
  SourceExactlyOnce
  StoryIsWhole
  ReadersInOrder
PROPERTIES
  EndReachesReaders
CHECK_DEADLOCK FALSE
