CONSTANTS
  c1 = c1
  s1 = s1
  s2 = s2
  n1 = n1
  n2 = n2
  Call = {c1}
  Expirer = Expirer
  Emitter = {c1, Expirer}
  Stream = {s1, s2}
  Namespace = {n1, n2}
  AnyNamespace = AnyNamespace
  Filter <- MCFilter
  Room = 1
  MaxEvent = 2
SPECIFICATION FairServerSpec
INVARIANTS ServerTypeOK OrderKept StreamExact
PROPERTIES BusMoves SignalEnds
CHECK_DEADLOCK FALSE
