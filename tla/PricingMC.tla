----------------------------- MODULE PricingMC ------------------------------
(***************************************************************************)
(* Pricing over two weeks, read by one session.  Blocks of three units may *)
(* lie across the start of a week of three.                                *)
(***************************************************************************)
EXTENDS Pricing, TLC

CONSTANT s1
=============================================================================
