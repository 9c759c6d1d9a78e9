CONSTANTS
  r1 = r1
  Runs = {r1}
  Capacity = 2
  MaxClaims = 2
  Lease = 6
  AbortGrace = 1
  HeartbeatInterval = 2
  ControlTimeout = 2
  InitTime = 3
SPECIFICATION MCGatewaySpec
INVARIANTS
  GatewayIsSound
PROPERTIES
  PlacesComeBack
CHECK_DEADLOCK FALSE
