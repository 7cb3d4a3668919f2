CONSTANTS
  Request = {r1, r2, r3}
  Holder = {h1}
  NoHolder = NoHolder
  NoToken = NoToken
  Reentrant = FALSE
  MaxDepth = 1
  DefaultTTL = 1
  AutoCleanup = 0
  MinTTL = 1
  MaxTTL = 2
  ReleasedCap = 5
  RandMayFail = FALSE
  CallOp = {"acquire", "release"}
  RefusedInput = FALSE
  TTLRequest = {0}
  LastStart = 1
  MaxClock = 3
SPECIFICATION Spec
SYMMETRY Symmetry
PROPERTIES NoOrphanLease
