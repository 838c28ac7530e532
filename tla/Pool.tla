-------------------------------- MODULE Pool --------------------------------
(***************************************************************************)
(* The account's windows as the snapshots of all sessions report them.  A  *)
(* window is a percentage and a reset; either may be missing.              *)
(*                                                                         *)
(*   internal/pool/pool.go       GetWindow, DataAge, Reported              *)
(***************************************************************************)
EXTENDS Integers, FiniteSets, FiniteSetsExt

CONSTANTS
  Nil,
  PoolJitter    \* resetJitter of this package

NoWindow == [ok |-> FALSE]

\* Mutant: a window counts until another one is reported.
Mutant_Lives(windows, now, maxAhead) ==
  {w \in windows :
     /\ w.used # Nil /\ w.used >= 0 /\ w.used < 10000
     /\ w.reset # Nil /\ w.reset <= now + maxAhead}

\* The windows that are plausible and not over.
Lives(windows, now, maxAhead) ==
  {w \in windows :
     /\ w.used # Nil /\ w.used >= 0 /\ w.used < 10000
     /\ w.reset # Nil /\ now < w.reset /\ w.reset <= now + maxAhead}

Newest(lives) == Max({w.reset : w \in lives})

\* Mutant: those with exactly the newest reset.
Mutant_Bucket(lives) == {w \in lives : w.reset = Newest(lives)}

\* Those whose reset is within the jitter of the newest.
Bucket(lives) == LET newest == Newest(lives) IN {w \in lives : newest - w.reset <= PoolJitter}

\* The newest reset, and the most that any snapshot of its window reports.
GetWindow(windows, now, maxAhead) ==
  LET lives == Lives(windows, now, maxAhead) IN
  IF lives = {} THEN NoWindow
  ELSE [ok |-> TRUE,
        reset |-> Newest(lives),
        used |-> Max({IF w.used > 100 THEN 100 ELSE w.used : w \in Bucket(lives)})]

\* Since the freshest snapshot of all sessions, whatever it has; or Nil.
DataAge(snaps, now) ==
  IF snaps = {} THEN Nil ELSE now - Max({s.at : s \in snaps})

\* A snapshot taken shortly before the newest one with rate limits has the
\* five-hour window: it is of the plan.
Reported(snaps, within) ==
  LET limited == {s \in snaps : s.wk # Nil \/ s.fh # Nil} IN
  \E s \in limited : s.fh # Nil /\ Max({u.at : u \in limited}) - s.at <= within

=============================================================================
