CONSTANTS
  u1 = u1
  c1 = c1
  c2 = c2
  Users <- MCUsers
  Calls <- MCCalls
  Owner <- MCOwner
  LastMonth = 2
  MCP_POINTS_COST = 10
  WelcomeGrant = 20
  AdjustKeys = {}
  Deltas = {}
  Limits = {20}
  ScanLimit = 2
SPECIFICATION MCDurableSpec
INVARIANTS
  RowsAreTrue
  CallIsSafe
  SettledReplayable
PROPERTIES
  TerminalIsFinal
  KeepsContract
  NobodyIsLeft
CHECK_DEADLOCK FALSE
