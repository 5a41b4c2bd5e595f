---------------------------- MODULE MCRateLimiter ----------------------------
(* RateLimiter on a small instance. *)
EXTENDS RateLimiter, TLC

Symmetry == Permutations(Tasks)
=============================================================================
