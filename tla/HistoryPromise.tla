--------------------------- MODULE HistoryPromise ---------------------------
(***************************************************************************)
(* What ccpool promises about the user's history of usage rows            *)
(* (docs/db-recovery-design.md): a capture adds a row; a rolling backup    *)
(* keeps rows and never forgets one it has; corruption of the database     *)
(* loses at most the rows written since the backup, never in silence: a    *)
(* notice is owed until a person is shown it.                              *)
(***************************************************************************)
CONSTANT Row

VARIABLES
  live,      \* the rows a reader of the history finds, now or after a heal
  saved,     \* the rows of the last good backup
  captured,  \* the rows captured so far
  owed,      \* a notice about a recovery is due
  shown      \* a person has just been shown one

vars == <<live, saved, captured, owed, shown>>

Init ==
  /\ live = {}
  /\ saved = {}
  /\ captured = {}
  /\ owed = FALSE
  /\ shown = FALSE

\* A row may be lost on the way only while a recovery is being surfaced.
Capture(r) ==
  /\ r \notin captured
  /\ captured' = captured \union {r}
  /\ live' = live \union {r} \/ (owed /\ live' = live)
  /\ UNCHANGED <<saved, owed, shown>>

\* A backup takes rows captured so far; what it holds can be brought back.
Save(s) ==
  /\ saved \subseteq s /\ s \subseteq captured
  /\ saved' = s
  /\ live' = live \union s
  /\ UNCHANGED <<captured, owed, shown>>

\* The database is corrupted: the rows of the backup survive.
Lose ==
  /\ live' = saved
  /\ owed' = TRUE
  /\ UNCHANGED <<saved, captured, shown>>

\* A person is shown the notice. That ends the debt, unless a new loss came in
\* the meantime.
Show ==
  /\ owed /\ ~ shown
  /\ shown' = TRUE
  /\ owed' \in {owed, FALSE}
  /\ UNCHANGED <<live, saved, captured>>

Shown ==
  /\ shown
  /\ shown' = FALSE
  /\ UNCHANGED <<live, saved, captured, owed>>

Next ==
  \/ \E r \in Row : Capture(r)
  \/ \E s \in SUBSET captured : Save(s)
  \/ Lose
  \/ Show
  \/ Shown

Spec == Init /\ [][Next]_vars
=============================================================================
