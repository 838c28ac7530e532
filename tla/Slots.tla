------------------------------- MODULE Slots --------------------------------
(***************************************************************************)
(* Short-lived processes.  A slot runs one command after another; main     *)
(* takes the time once, before anything else (main.go, dispatch).          *)
(***************************************************************************)
EXTENDS Integers, FiniteSets

CONSTANTS
  Proc,       \* process slots
  MaxClock    \* bound on the wall clock

VARIABLES clock, pc, now

slots == <<clock, pc, now>>

Idle(p) == pc[p] = "idle"

InitSlots ==
  /\ clock = 0
  /\ pc = [p \in Proc |-> "idle"]
  /\ now = [p \in Proc |-> 0]

Launch(p, l) ==
  /\ Idle(p)
  /\ pc' = [pc EXCEPT ![p] = l]
  /\ now' = [now EXCEPT ![p] = clock]
  /\ UNCHANGED clock

Goto(p, l) ==
  /\ pc' = [pc EXCEPT ![p] = l]
  /\ UNCHANGED <<clock, now>>

Leave(p) ==
  /\ pc' = [pc EXCEPT ![p] = "idle"]
  /\ now' = [now EXCEPT ![p] = 0]
  /\ UNCHANGED clock

Pass ==
  /\ clock < MaxClock
  /\ clock' = clock + 1
  /\ UNCHANGED <<pc, now>>

=============================================================================
