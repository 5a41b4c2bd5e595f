SPECIFICATION Spec
CONSTANTS
  Clients = {c1}
  Tasks = {r1, r2, r3}
  Unit = 4
  Burst = 2
  Rate = 3
  Second = 2
  MaxClock = 7
  NoClient = NoClient
INVARIANTS
  RateHonoured
