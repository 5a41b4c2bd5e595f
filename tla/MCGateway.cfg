SPECIFICATION GFairSpec
CONSTANTS
  Clients = {c1}
  Tasks = {t1, t2}
  Unit = 2
  Burst = 1
  Rate = 2
  Second = 1
  MaxClock = 1
  NoClient = NoClient
  MaxCalls = 2
  MaxRequests = 1
  MaxAdmins = 1
CHECK_DEADLOCK FALSE
INVARIANTS
  GTypeOK
  OnlyIssuedKeysHaveBuckets
  LoadBounded
  RevocationBites
PROPERTIES
  ShutdownCompletes
