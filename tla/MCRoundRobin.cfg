SPECIFICATION RRSpec
CONSTANTS
  U32 = 7
  Keys = {k1, k2, k3}
  Weights = {0, 1, 2, 3}
  MaxPicks = 13
SYMMETRY Symmetry
INVARIANTS
  RRTypeOK
  ExactShare
