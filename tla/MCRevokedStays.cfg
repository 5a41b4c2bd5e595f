SPECIFICATION Spec
CONSTANTS
  k1 = k1
  k2 = k2
  Keys = {k1}
  Ops = {"add", "delete"}
  Weights <- OneWeight
  U32 = 3
  Admins = {a1, a2}
  Configs <- OneConfigKey
  MaxOrphans = 1
  Absent = Absent
  NoKey = NoKey
INVARIANTS
  RevokedStaysBlocked
