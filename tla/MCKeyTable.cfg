SPECIFICATION Spec
CONSTANTS
  k1 = k1
  k2 = k2
  Keys = {k1, k2}
  Ops = {"add", "update", "delete"}
  Weights <- SomeWeights
  U32 = 3
  Admins = {a1, a2}
  Configs <- EditedConfig
  MaxOrphans = 1
  Absent = Absent
  NoKey = NoKey
SYMMETRY Symmetry
INVARIANTS
  TypeOK
  MemoryFollowsTable
  RevokedIsGone
