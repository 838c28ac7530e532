------------------------------ MODULE Account -------------------------------
(***************************************************************************)
(* What the readers of the history and of the snapshots conclude about the *)
(* account.  The account is used by all sessions and elsewhere; a session  *)
(* learns its state at an API turn and renders that reading until its next *)
(* one, so readings are stale, overlap, and disagree by a little in their  *)
(* reset.  A render here is one step: Capture has its interleavings.       *)
(*                                                                         *)
(*   internal/statusline/command.go   capture                              *)
(*   internal/status, report          what they read, at any moment        *)
(***************************************************************************)
EXTENDS Burn

CONSTANTS
  PoolJitter, MaxAhead,   \* of the pool's windows
  Week,        \* length of the weekly window
  Wobble,      \* by how much the resets a session reports may exceed the real one
  MaxUsed,     \* bound on the percentage
  MaxClock,    \* bound on the wall clock
  MaxRows,     \* bound on the rows of the history
  MaxDrops     \* how often the percentage is taken back within a window

Pool == INSTANCE Pool

ASSUME AccountAssumption ==
  /\ Week \in Nat \ {0} /\ Wobble \in [Session -> SUBSET Nat]
  /\ MaxUsed \in 0 .. 100 /\ {MaxClock, MaxRows, MaxDrops} \subseteq Nat
  /\ {PoolJitter, MaxAhead} \subseteq Nat

\* The program's constants fit the account: a wobble is within the jitters, the
\* jitters are short beside the window, the reset of the running window is not
\* too far ahead, and the rows of a window are kept while it runs. A missing
\* field is not a payload.
ASSUME PlausibleAssumption ==
  /\ \A x \in Session : \A j \in Wobble[x] :
       /\ j <= ResetJitter /\ j <= PoolJitter
       /\ Week + j <= MaxResetAhead /\ Week + j <= MaxAhead
  /\ 2 * ResetJitter < Week /\ 2 * PoolJitter < Week /\ Week <= KeepSecs
  /\ Nil \notin PayloadType

VARIABLES
  clock,
  account,   \* the percentage used in the current window
  drops,     \* how often it was taken back
  seen,      \* the reading each session shows, or none
  hist,      \* the history table
  snaps,     \* the snapshots table: session -> capture, or none
  peaks,     \* ghost: the most ever used in each window
  dropped    \* ghost: when the percentage was last taken back

vars  == <<clock, account, drops, seen, hist, snaps, peaks, dropped>>
world == <<clock, account, drops, peaks, dropped>>

NoReading  == [wk |-> Nil, wkReset |-> Nil, ses |-> Nil, sesReset |-> Nil]
NoSnapshot == [payload |-> Nil]
Never      == -1

Windows == 0 .. MaxClock \div Week
WindowOf(t) == t \div Week
\* The reset of the window that t is in.
ResetAt(t) == Week * (WindowOf(t) + 1)
\* The window that a reported reset belongs to.
WindowEnding(reset) == reset \div Week - 1

Taken == {snaps[x] : x \in {y \in Session : snaps[y] # NoSnapshot}}

Init ==
  /\ clock = 0 /\ account = 0 /\ drops = 0
  /\ seen = [x \in Session |-> NoReading]
  /\ hist = {}
  /\ snaps = [x \in Session |-> NoSnapshot]
  /\ peaks = [w \in Windows |-> 0]
  /\ dropped = Never

\* Some session, or another device, spends.
Use ==
  /\ account < MaxUsed
  /\ account' = account + 1
  /\ peaks' = [peaks EXCEPT ![WindowOf(clock)] = IF @ > account THEN @ ELSE account + 1]
  /\ UNCHANGED <<clock, drops, seen, hist, snaps, dropped>>

\* The percentage is taken back, the reset stays.
TakenBack ==
  /\ drops < MaxDrops
  /\ account > 0
  /\ account' = 0
  /\ drops' = drops + 1
  /\ dropped' = clock
  /\ UNCHANGED <<clock, seen, hist, snaps, peaks>>

\* Time passes; at its reset the window starts over.
Tick ==
  /\ clock < MaxClock
  /\ clock' = clock + 1
  /\ account' = IF WindowOf(clock') = WindowOf(clock) THEN account ELSE 0
  /\ UNCHANGED <<drops, seen, hist, snaps, peaks, dropped>>

\* An API turn of session x brings it a reading. A reading that is replaced
\* before it is rendered leaves no trace, so turns without a render are left out.
Turn(x) ==
  /\ snaps[x].payload = seen[x] \/ seen[x] = NoReading
  /\ \E j \in Wobble[x] :
       seen' = [seen EXCEPT ![x] = [wk |-> account, wkReset |-> ResetAt(clock) + j,
                                    ses |-> Nil, sesReset |-> Nil]]
  /\ UNCHANGED <<world, hist, snaps>>

\* Session x renders: its snapshot, and a row unless dedup drops it.
Render(x) ==
  LET r == PreparedRow(seen[x], clock, x) IN
  /\ snaps' = [snaps EXCEPT ![x] = [payload |-> seen[x]]]
  /\ IF Appends(hist, r)
     THEN NextId(hist) <= MaxRows /\ hist' = hist \union {[id |-> NextId(hist), r |-> r]}
     ELSE UNCHANGED hist
  /\ UNCHANGED <<world, seen>>

Next ==
  \/ Use \/ TakenBack \/ Tick
  \/ \E x \in Session : Turn(x) \/ Render(x)

Spec == Init /\ [][Next]_vars

-----------------------------------------------------------------------------
(***************************************************************************)
(* Correctness.                                                            *)
(***************************************************************************)
Envelope   == EnvelopeWeekly(hist, clock)
Projection == Project(Envelope)
WeeklyPool ==
  Pool!GetWindow({[used |-> s.payload.wk, reset |-> s.payload.wkReset] : s \in Taken},
                 clock, MaxAhead)

\* The query computes what burn.Envelope computes, on every history of stale
\* and wobbling readings (query.sql, "two-pass running-max mirror").
EnvelopeMirrorsGo == Envelope = EnvelopeInGo(hist, clock)

\* The envelope never reports more than the account has used in the window
\* that it claims to be about: no stale row of another window raises it.
EnvelopeIsOfItsWindow ==
  LET e == Envelope IN
  e # <<>> /\ Last(e).wkReset # Nil =>
    Last(e).wk <= peaks[WindowEnding(Last(e).wkReset)]

\* While a window is live, the snapshots and the history agree about it: the
\* same window and the same percentage, though one keeps the last reading of
\* every session and the other the maximum of all. status shows the one beside
\* a burn computed from the other (status.go).
PoolAgreesWithEnvelope ==
  LET pool == WeeklyPool
      e == Envelope
  IN pool.ok /\ dropped = Never /\ WindowEnding(pool.reset) = WindowOf(clock) =>
       /\ e # <<>>
       /\ WindowEnding(Last(e).wkReset) = WindowOf(clock)
       /\ Last(e).wk = pool.used

\* A projection is about one window: it starts after that window did, and its
\* climb is not more than was used in it (burn.go, reset-robust by design).
ProjectsOneWindow ==
  LET e == Envelope
      p == Project(e)
      w == WindowEnding(Last(e).wkReset)
  IN p.ok => p.firstT >= Week * w /\ p.dpct <= peaks[w]

\* A fall of the percentage restarts the clock: when the history has a reading
\* from before it and the last row of every session, from after it, is lower by
\* more than noise, no projection reaches back before it (burn.go, "it just
\* restarts the clock").
DropRestartsTheClock ==
  /\ \E s \in hist : s.r.t < dropped /\ s.r.wk > account + DropReset
  /\ \A x \in Session :
       /\ RowsOfSession(hist, x) # {}
       /\ LastSessionRow(hist, x).r.t > dropped
       /\ LastSessionRow(hist, x).r.wk = account
  => LET p == Projection IN p.ok => p.firstT >= dropped

=============================================================================
