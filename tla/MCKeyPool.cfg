SPECIFICATION HFairSpec
CONSTANTS
  U32 = 4
  Keys = {k1, k2}
  Tasks = {t1, t2}
  Weights = {1, 3}
  Cooldown = 2
  MaxRecoveries = 2
  NoKey = NoKey
  MaxPicks = 2
INVARIANTS
  TypeOK
  CoolingKeyWillRecover
  ThresholdTrips
  LoopAlwaysFinds
  SteadyKeysDecide
PROPERTIES
  KeepsRotation
  CooldownHonoured
  EventuallyRecovers
