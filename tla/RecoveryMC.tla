----------------------------- MODULE RecoveryMC -----------------------------
(***************************************************************************)
(* Recovery on small instances.                                            *)
(***************************************************************************)
EXTENDS Recovery, TLC

Symmetry == Permutations(Proc) \union Permutations(Row)
=============================================================================
