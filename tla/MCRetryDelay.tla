---------------------------- MODULE MCRetryDelay -----------------------------
(* RetryDelay with a u64 of a few bits. *)
EXTENDS RetryDelay
=============================================================================
