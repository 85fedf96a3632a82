------------------------- MODULE MCUserRegistration -------------------------
(* TLC instance of OrderCreation and UserRegistration together. *)
EXTENDS UserRegistration, TLC

Symmetry == Permutations(Requests) \union Permutations(Others)
=============================================================================
