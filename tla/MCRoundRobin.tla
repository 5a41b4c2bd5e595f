---------------------------- MODULE MCRoundRobin -----------------------------
(* RoundRobin on a small instance. *)
EXTENDS RoundRobin, TLC

Symmetry == Permutations(Keys)
=============================================================================
