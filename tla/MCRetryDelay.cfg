SPECIFICATION Spec
CONSTANTS
  W = 6
  MaxAttempt = 8
CHECK_DEADLOCK FALSE
INVARIANTS
  DTypeOK
  WaitBounded
  OverflowIsAgesAway
PROPERTIES
  BacksOff
