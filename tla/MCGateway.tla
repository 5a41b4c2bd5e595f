------------------------------ MODULE MCGateway ------------------------------
(* Gateway on a small instance; no symmetry, liveness is checked. *)
EXTENDS Gateway
=============================================================================
