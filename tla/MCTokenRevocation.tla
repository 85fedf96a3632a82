-------------------------- MODULE MCTokenRevocation --------------------------
(* TLC instance of TokenRevocation. *)
EXTENDS TokenRevocation
=============================================================================
