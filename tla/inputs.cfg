CONSTANTS
  Request = {r1, r2, r3}
  Holder = {h1, h2}
  NoHolder = NoHolder
  NoToken = NoToken
  Reentrant = TRUE
  MaxDepth = 2
  DefaultTTL = 1
  AutoCleanup = 1
  MinTTL = 1
  MaxTTL = 2
  ReleasedCap = 3
  RandMayFail = TRUE
  CallOp = {"acquire", "renew", "release", "steal", "delete"}
  RefusedInput = TRUE
  TTLRequest = {2, 3}
  LastStart = 2
  MaxClock = 4
SPECIFICATION Spec
SYMMETRY Symmetry
INVARIANTS TypeOK IInv HInv DepthCounts RememberedWereReleased
PROPERTIES FailureLeavesLease NoBarging NoEarlyRevocation
