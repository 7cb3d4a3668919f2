CONSTANTS
  n1 = n1
  n2 = n2
  n3 = n3
  n4 = n4
  sA = sA
  sB = sB
  sDenied = sDenied
  Proc = {p1, p2, p3, p4}
  Name = {n1, n2, n3, n4}
  Namespace = {sA, sB}
  NamespaceOf <- MCNamespaceOf
  Quota = 1
  MaxRecord = 3
SPECIFICATION FairRegistrySpec
INVARIANTS RegistryTypeOK CountsMatch NoGhostLock
PROPERTIES WorksOnRegistered ListIsComplete RegistryCallsReturn
CHECK_DEADLOCK FALSE
