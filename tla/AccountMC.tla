----------------------------- MODULE AccountMC ------------------------------
(***************************************************************************)
(* Account with two sessions, one of which reports its reset a little late *)
(* of the other.  A unit of time is a third of the window, the wobble one  *)
(* unit.                                                                   *)
(***************************************************************************)
EXTENDS Account, TLC

CONSTANTS s1, s2

OneLate == (s1 :> {0}) @@ (s2 :> {1})
=============================================================================
