---------------------------- MODULE MCOrderStatus ----------------------------
(* TLC instance of OrderStatus. *)
EXTENDS OrderStatus, TLC

Symmetry == Permutations(Updates) \union Permutations(Orders)
=============================================================================
