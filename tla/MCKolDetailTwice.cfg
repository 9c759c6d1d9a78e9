CONSTANTS
  q1 = q1
  q2 = q2
  q3 = q3
  NoReq = NoReq
  Reqs = {q1, q2, q3}
  MaxExpiries = 1
SPECIFICATION KdSpec
INVARIANT OneInTheEngine
CHECK_DEADLOCK FALSE
