SPECIFICATION Spec
CONSTANTS
  Requests = {r1, r2, r3, r4, r5}
  Endpoints = {"/chat/completions", "/messages", "/completions", "/embeddings", "/models"}
  PageSize = 2
  Slots = {s1, s2}
  MaxShown = 4
SYMMETRY Symmetry
INVARIANTS
  TypeOK
  PagesCoverTheLog
  RepeatsAccounted
