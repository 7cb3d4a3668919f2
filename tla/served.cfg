CONSTANTS
  Request = {r1, r2, r3}
  Holder = {h1}
  NoHolder = NoHolder
  NoToken = NoToken
  Reentrant = FALSE
  MaxDepth = 2
  DefaultTTL = 1
  AutoCleanup = 0
  MinTTL = 1
  MaxTTL = 2
  ReleasedCap = 4
  RandMayFail = FALSE
  CallOp = {"acquire", "release", "steal", "delete"}
  RefusedInput = FALSE
  TTLRequest = {0}
  LastStart = 1
  MaxClock = 3
SPECIFICATION FairSpec
PROPERTIES NoWaiterStranded ExpiredLeaseEnds EveryCallReturns
