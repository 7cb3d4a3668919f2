CONSTANTS
  Request = {r1, r2, r3, r4}
  Holder = {h1}
  NoHolder = NoHolder
  NoToken = NoToken
  Reentrant = FALSE
  MaxDepth = 1
  DefaultTTL = 1
  AutoCleanup = 1
  MinTTL = 1
  MaxTTL = 2
  ReleasedCap = 4
  RandMayFail = FALSE
  CallOp = {"acquire", "release", "steal", "delete"}
  RefusedInput = FALSE
  TTLRequest = {0}
  LastStart = 2
  MaxClock = 3
SPECIFICATION Spec
SYMMETRY Symmetry
INVARIANTS QueueExact SendNeverBlocks NoOvertaking NoWaiterBehindFreeLock LeaseReachesItsOwner
PROPERTIES DeletedStaysDead LockedMeansHeld RetriedReleaseIsRepeated ImplementsFairLock
