------------------------------ MODULE History -------------------------------
(***************************************************************************)
(* The rows of the usage history: what a payload becomes, which rows dedup *)
(* and throttle drop, which rowid a row gets.                              *)
(*                                                                         *)
(*   internal/history/history.go   Prepare, skip, sanePct                  *)
(*   internal/store                LastSessionRow, history.id              *)
(***************************************************************************)
EXTENDS Integers, FiniteSets, FiniteSetsExt

CONSTANTS
  Session,        \* Claude Code sessions
  Nil,            \* an absent or non-numeric field
  MinInterval,    \* CCPOOL_HISTORY_MIN_INTERVAL
  MaxResetAhead   \* how far ahead a reset may lie

ASSUME HistoryAssumption ==
  Nil \notin Int /\ {MinInterval, MaxResetAhead} \subseteq Nat

OptInt == Int \union {Nil}

\* rate_limits as rb.Num reads it: used_percentage and resets_at of the weekly
\* and of the five-hour window.
PayloadType == [wk : OptInt, wkReset : OptInt, ses : OptInt, sesReset : OptInt]

RowType == [t : Nat, wk : 0 .. 100, wkReset : OptInt,
            ses : 0 .. 100 \union {Nil}, sesReset : OptInt, session : Session]
StoredRow == [id : Nat, r : RowType]

-----------------------------------------------------------------------------
\* Mutant: no upper limit.
Mutant_sanePct(v) == IF v = Nil \/ v < 0 THEN Nil ELSE v

\* A negative percentage or one of 10000 and more is a leaked epoch; a small
\* overshoot is clamped.
sanePct(v) ==
  IF v = Nil \/ v < 0 \/ v >= 10000 THEN Nil
  ELSE IF v > 100 THEN 100 ELSE v

\* Mutant: the reset is stored as it came.
Mutant_saneReset(reset, at) == reset

saneReset(reset, at) ==
  IF reset # Nil /\ reset > at + MaxResetAhead THEN Nil ELSE reset

PreparedRow(pay, at, session) ==
  [t |-> at,
   wk |-> sanePct(pay.wk), wkReset |-> saneReset(pay.wkReset, at),
   ses |-> sanePct(pay.ses), sesReset |-> saneReset(pay.sesReset, at),
   session |-> session]

\* Mutant: the last row of any session.
Mutant_LastSessionRow(h, session) ==
  CHOOSE s \in h : \A u \in h : u.id <= s.id

RowsOfSession(h, session) == {s \in h : s.r.session = session}

\* ORDER BY id DESC LIMIT 1.
LastSessionRow(h, session) ==
  CHOOSE s \in RowsOfSession(h, session) :
    \A u \in RowsOfSession(h, session) : u.id <= s.id

\* Mutant: the throttle holds back every row, also one that moved the week.
Mutant_skip(last, r) ==
  \/ last.wk = r.wk /\ last.wkReset = r.wkReset /\ last.ses = r.ses
  \/ r.t - last.t < MinInterval

\* r is dropped after last: nothing moved, or only the five-hour percentage
\* did and the last write is too recent.
skip(last, r) ==
  /\ last.wk = r.wk /\ last.wkReset = r.wkReset
  /\ last.ses = r.ses \/ r.t - last.t < MinInterval

Appends(h, r) ==
  /\ r.wk # Nil
  /\ RowsOfSession(h, r.session) # {} =>
       ~ skip(LastSessionRow(h, r.session).r, r)

\* Mutant: the least rowid not in use.
Mutant_NextId(h) == Min((1 .. Cardinality(h) + 1) \ {s.id : s \in h})

\* The rowid SQLite assigns: one more than the greatest in the table.
NextId(h) == IF h = {} THEN 1 ELSE Max({s.id : s \in h}) + 1

=============================================================================
