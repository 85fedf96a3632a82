---------------------------- MODULE MCDeployment ----------------------------
(* TLC instance of Deployment: four entries of three names, in pages of two. *)
EXTENDS Deployment, TLC

MCNameOf == <<2, 1, 1, 3>>
MCProducts == 1..4
=============================================================================
