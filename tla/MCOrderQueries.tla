---------------------------- MODULE MCOrderQueries ----------------------------
(* TLC instance of OrderQueries. *)
EXTENDS OrderQueries, TLC

Symmetry == Permutations(Users)
=============================================================================
