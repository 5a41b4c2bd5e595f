------------------------------ MODULE MCKeyPool -----------------------------
(* KeyPool, with its history variables, on a small instance. *)
EXTENDS KeyPoolHistory
=============================================================================
