------------------------------- MODULE WarmMC -------------------------------
(* Instances of Warm. *)
EXTENDS Warm

CONSTANTS p1, p2
=============================================================================
