CONSTANTS
  Request = {r1, r2, r3}
  Holder = {h1}
  NoHolder = NoHolder
  NoToken = NoToken
  Reentrant = FALSE
  MaxDepth = 2
  DefaultTTL = 1
  AutoCleanup = 1
  MinTTL = 1
  MaxTTL = 2
  ReleasedCap = 4
  RandMayFail = FALSE
  CallOp = {"acquire", "release"}
  RefusedInput = FALSE
  TTLRequest = {0}
  LastStart = 1
  MaxClock = 2
  Watcher = {w1}
  Expirer = Expirer
  WatchBuffer = 1
SPECIFICATION FairNotifySpec
PROPERTIES WatchersAreTold
