----------------------------- MODULE CaptureMC ------------------------------
(***************************************************************************)
(* Capture on small instances.  A unit of the clock is the throttle        *)
(* interval; a bad reading has a leaked epoch for a percentage and a       *)
(* sentinel far ahead for a reset.                                         *)
(***************************************************************************)
EXTENDS Capture, TLC

CONSTANTS p1, p2, s1, s2

\* The second session is shown in both windows.
Shared == (p1 :> {s1, s2}) @@ (p2 :> {s2})

Reading(wk, wkReset, ses, sesReset) ==
  [wk |-> wk, wkReset |-> wkReset, ses |-> ses, sesReset |-> sesReset]

\* The first reading's weekly reset is too far ahead to be stored at time 0, the
\* second one's also at time 1: readings that differ in the five-hour percentage
\* alone at 0, in the weekly reset as well later. Of the bad one the resets are a
\* sentinel and the five-hour percentage is a leaked epoch.
Moves  == { Reading(10, 5, 5, 2), Reading(10, 6, 6, 2) }
Bad    == { Reading(10, 99, 20000, 99) }

Readings == (s1 :> Moves) @@ (s2 :> Bad)
=============================================================================
