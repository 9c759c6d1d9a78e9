CONSTANTS
  u1 = u1
  c1 = c1
  h1 = h1
  h2 = h2
  Users = {u1}
  Calls = {c1}
  Owner <- MCOwner
  Hooks = {h1, h2}
  CallOf <- MCSameCall
  LastMonth = 2
  MCP_POINTS_COST = 10
  WelcomeGrant = 10
  AdjustKeys = {}
  Deltas = {}
  Limits = {10}
  q1 = q1
  q2 = q2
  q3 = q3
  NoReq = NoReq
  Reqs = {q1, q2, q3}
  MaxExpiries = 1
  e1 = e1
  e2 = e2
  e3 = e3
  Exporters = {e1, e2, e3}
  MaxSlow = 1
  MaxDamage = 1
  w1 = w1
  w2 = w2
  w3 = w3
  k1 = k1
  NoKey = NoKey
  Workers = {w1, w2, w3}
  Keys = {k1}
  Threshold = 2
  MaxConcurrency = 1
  MaxSends = 6
SPECIFICATION ServicesSpec
INVARIANTS
  ServicesTypeOK
  PiCallIsSafe
  ChargesAreDeserved
  ServicesAreSound
PROPERTIES
  PiKeepsContract
  PiNeverStuckRunning
  ServicesAnswer
CHECK_DEADLOCK FALSE
