CONSTANTS
  executor = executor
  recovery = recovery
  r1 = r1
  r2 = r2
  NoWorker = NoWorker
  Workers = {executor, recovery}
  Executors = {executor}
  Requests = {r1, r2}
  MaxDecisions = 2
  MaxFaults = 1
SPECIFICATION LiveSpec
INVARIANTS
  LifecycleTypeOK
  EndsWithOneEvent
  RowsMatchStatus
PROPERTIES
  CompletedByHolder
  RunIsLeft
CHECK_DEADLOCK FALSE
