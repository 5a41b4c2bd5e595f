------------------------------ MODULE MCKeyTable -----------------------------
(* KeyTable on a small instance. *)
EXTENDS KeyTable, TLC

CONSTANTS k1, k2

OneConfigKey  == {<<k1>>}
EditedConfig  == {<<k1>>, << >>}
SomeWeights   == {-1, 2}
OneWeight     == {1}

Symmetry == Permutations(Admins)
=============================================================================
