SPECIFICATION FFairSpec
CONSTANTS
  U32 = 4
  Keys = {k1}
  Tasks = {t1, t2}
  Weights = {1}
  Cooldown = 1
  MaxRecoveries = 2
  NoKey = NoKey
  MaxRetries = 1
  Kinds = {"whole", "stream"}
  Outcomes = {"success", "retryable", "rejected", "transport"}
  MaxRequests = 2
PROPERTIES
  ImplementsContract
  CooledForCause
INVARIANTS
  FTypeOK
  
