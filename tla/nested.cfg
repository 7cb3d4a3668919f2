CONSTANTS
  Request = {t1, t2}
  Holder = {me, other}
  NoHolder = NoHolder
  NoToken = NoToken
  Reentrant = TRUE
  MaxDepth = 2
  DefaultTTL = 5
  AutoCleanup = 0
  MinTTL = 1
  MaxTTL = 30
  ReleasedCap = 4
  RandMayFail = FALSE
  User = me
  TTLRequest = {30}
  Retries = 1
  MinBase = 1
  Second = 2
  Delay = 0
  MaxCall = 3
  Pace = 14
  LastAct = 15
  MaxClock = 45
SPECIFICATION ClientSpec
PROPERTIES KeptAlive
CHECK_DEADLOCK FALSE
