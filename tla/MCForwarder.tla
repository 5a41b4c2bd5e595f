---------------------------- MODULE MCForwarder ------------------------------
(* Forwarder on a small instance; no symmetry, liveness is checked. *)
EXTENDS Forwarder
=============================================================================
