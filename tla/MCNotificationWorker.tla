------------------------ MODULE MCNotificationWorker ------------------------
(* TLC instance of NotificationWorker. *)
EXTENDS NotificationWorker, TLC

Symmetry == Permutations(Workers)
=============================================================================
