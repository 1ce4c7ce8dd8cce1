CONSTANTS
  b1 = b1
  b2 = b2
  b3 = b3
  b4 = b4
  Bids = {b1, b2, b3, b4}
  MaxInFlight = 2
  MaxTime = 5
  EnvMaxSockets = 2
  Unset = Unset
  PerSecond = 2
  Ttl = 5
SPECIFICATION Spec
SYMMETRY BidSymmetry
INVARIANT TypeOK
INVARIANT RefusedForCause
INVARIANT SerialLimit
INVARIANT OverrunIsBounded
CHECK_DEADLOCK FALSE
