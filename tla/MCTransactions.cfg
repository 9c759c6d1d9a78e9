CONSTANTS
  u1 = u1
  u2 = u2
  x1 = x1
  x2 = x2
  key1 = key1
  Users = {u1, u2}
  Calls = {x1, x2}
  Owner <- MCOwner
  LastMonth = 2
  MCP_POINTS_COST = 10
  WelcomeGrant = 15
  AdjustKeys = {key1}
  Deltas <- MCDeltas
  Limits = {10, 20}
  main = main
  detail = detail
  NoPubRun = NoPubRun
  PubRuns = {main, detail}
  PiPubRuns = {main}
  MainRuns = {main}
  Arts = {x1, x2}
  MaxRevisions = 2
  MaxCalls = 3
  k1 = k1
  NoIdemKey = NoIdemKey
  Callers = {x1, x2}
  IdemKeys = {k1}
  MaxRuns = 3
  MaxArrivals = 3
  CvWorkers = {1, 2}
  MaxPicks = 2
  s1 = s1
  s2 = s2
  t1 = t1
  t2 = t2
  e1 = e1
  pi1 = pi1
  NoSig = NoSig
  Tools = {t1, t2}
  Sigs = {s1, s2}
  Reviewed <- MCReviewed
  Processes = {1, 2}
  Engines = {e1}
  PiRunIds = {pi1}
  MaxStarts = 2
  Requests = {x1, x2}
  MaxWrites = 2
  MaxConfigs = 2
  MaxLicenses = 2
  MaxTenantRuns = 1
  low = low
  high = high
  Everyone = Everyone
  SkillTenants = {low, high}
  BucketOf <- MCBucketOf
  Percents = {0, 50, 100}
  MaxSkillRevisions = 3
  MaxActivations = 3
  f1 = f1
  f2 = f2
  ToolWorkers = {x1, x2}
  Errors = {f1, f2}
  MaxEvidence = 1
  MaxToolCalls = 4
SPECIFICATION TransactionsSpec
INVARIANTS
  TransactionsTypeOK
  PointsAreAccounted
  UserCountersMatchRows
  PublicationIsSound
  ConductIsSound
  AdministrationIsSound
  CatalogIsSound
PROPERTIES
  SpendingIsBounded
  RunsStartRight
SYMMETRY TransactionsSymmetry
CHECK_DEADLOCK FALSE
