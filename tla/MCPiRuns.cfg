CONSTANTS
  s1 = s1
  s2 = s2
  s3 = s3
  s4 = s4
  u1 = u1
  u2 = u2
  u3 = u3
  g1 = g1
  g2 = g2
  Runs = {1, 2, 3}
  Sessions = {s1, s2, s3, s4}
  Users = {u1, u2, u3}
  Tenants = {1, 2}
  SessionUser <- MCSessionUser
  UserTenant <- MCUserTenant
  Layouts <- MCLayouts
  Gateways = {g1, g2}
  Capacity = 2
  TenantLimit = 1
  UserLimit = 1
  Suspendable = {1}
  Drainable = {g1}
  LastSecond = 2
SPECIFICATION LiveSpec
INVARIANTS
  TypeOK
  CounterMatchesClaims
  RunsAreExclusive
  OrderlyQueueKeepsLimits
PROPERTIES
  CancellationWins
  LostRunsAreTaken
CHECK_DEADLOCK FALSE
