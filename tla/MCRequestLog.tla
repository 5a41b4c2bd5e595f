---------------------------- MODULE MCRequestLog -----------------------------
(* RequestLog on a small instance. *)
EXTENDS RequestLog, TLC

Symmetry == Permutations(Requests) \cup Permutations(Slots)
=============================================================================
