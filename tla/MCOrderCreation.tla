--------------------------- MODULE MCOrderCreation ---------------------------
(* TLC instance of OrderCreation. *)
EXTENDS OrderCreation, TLC

Symmetry == Permutations(Requests)
=============================================================================
