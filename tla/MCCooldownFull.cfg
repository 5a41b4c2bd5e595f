SPECIFICATION HSpec
CONSTANTS
  U32 = 4
  Keys = {k1, k2}
  Tasks = {t1, t2}
  Weights = {1}
  Cooldown = 2
  MaxRecoveries = 3
  NoKey = NoKey
  MaxPicks = 0
PROPERTIES
  CooldownFull
