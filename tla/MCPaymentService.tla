-------------------------- MODULE MCPaymentService --------------------------
(* TLC instance of PaymentService. *)
EXTENDS PaymentService, TLC

Symmetry == Permutations(Calls)
=============================================================================
