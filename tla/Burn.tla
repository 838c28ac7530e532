-------------------------------- MODULE Burn --------------------------------
(***************************************************************************)
(* From the history to a burn rate: the envelope of the current window, in *)
(* SQL and in Go, and the projection over its current run.  Times and      *)
(* percentages are integers; a rate is the pair of its climb and its span. *)
(*                                                                         *)
(*   internal/store/query.sql, facade.go   EnvelopeWeekly                  *)
(*   internal/burn/burn.go                 Read, Envelope, Project         *)
(***************************************************************************)
EXTENDS History, SequencesExt

CONSTANTS
  KeepSecs,     \* rows older than this are not read
  ResetJitter,  \* resets this close belong to one window
  DropReset,    \* a fall bigger than this is a reset
  MinSpan,      \* a run this long
  MinDelta      \* and this steep is worth projecting

ASSUME BurnAssumption ==
  {KeepSecs, ResetJitter, DropReset, MinSpan, MinDelta} \subseteq Nat

Recent(h, now) == {s \in h : s.r.t >= now - KeepSecs}

\* ORDER BY t, id: also the order of the sorted log.
Earlier(s, u) == s.r.t < u.r.t \/ (s.r.t = u.r.t /\ s.id < u.id)

Before(rows, s) == {u \in rows : Earlier(u, s)}

\* As a sequence: row i is the one with i - 1 rows before it.
InOrder(rows) ==
  [i \in 1 .. Cardinality(rows) |->
     CHOOSE s \in rows : Cardinality(Before(rows, s)) = i - 1]

-----------------------------------------------------------------------------
(***************************************************************************)
(* EnvelopeWeekly: the weekly rows of the newest window, each with the     *)
(* maximum so far.                                                         *)
(***************************************************************************)
LatestReset(rows) ==
  IF {s \in rows : s.r.wkReset # Nil} = {} THEN Nil
  ELSE Max({s.r.wkReset : s \in {u \in rows : u.r.wkReset # Nil}})

\* Mutants: only rows with exactly the newest reset; rows of every window.
Mutant_KeptExact(rows) ==
  {s \in rows : s.r.wkReset = LatestReset(rows)}

Mutant_Kept(rows) ==
  {s \in rows : LatestReset(rows) # Nil => s.r.wkReset # Nil}

Kept(rows) ==
  LET latest == LatestReset(rows) IN
  IF latest = Nil THEN {s \in rows : s.r.wkReset = Nil}
  ELSE {s \in rows : s.r.wkReset # Nil /\ latest - s.r.wkReset <= ResetJitter}

EnvelopeWeekly(h, now) ==
  LET rows == Recent(h, now)
      latest == LatestReset(rows)
      kept == InOrder(Kept(rows))
  IN [i \in DOMAIN kept |->
        [t |-> kept[i].r.t,
         wk |-> Max({kept[j].r.wk : j \in 1 .. i}),
         wkReset |-> latest]]

(***************************************************************************)
(* burn.Envelope, the loop in Go that the query mirrors.                   *)
(***************************************************************************)
Later(latest, s) ==
  IF s.r.wkReset # Nil /\ (latest = Nil \/ s.r.wkReset > latest)
  THEN s.r.wkReset ELSE latest

LatestInGo(entries) ==
  LET latest[i \in 0 .. Len(entries)] ==
        IF i = 0 THEN Nil ELSE Later(latest[i - 1], entries[i])
  IN latest[Len(entries)]

OtherWindow(latest, s) ==
  \/ latest = Nil /\ s.r.wkReset # Nil
  \/ latest # Nil /\ (s.r.wkReset = Nil \/ latest - s.r.wkReset > ResetJitter)

AddEntry(out, latest, s) ==
  IF OtherWindow(latest, s) THEN out
  ELSE Append(out,
         [t |-> s.r.t,
          wk |-> IF out # <<>> /\ Last(out).wk >= s.r.wk
                 THEN Last(out).wk ELSE s.r.wk,
          wkReset |-> latest])

AddEntries(entries, latest) ==
  LET out[i \in 0 .. Len(entries)] ==
        IF i = 0 THEN <<>> ELSE AddEntry(out[i - 1], latest, entries[i])
  IN out[Len(entries)]

EnvelopeInGo(h, now) ==
  LET entries == InOrder(Recent(h, now))
  IN AddEntries(entries, LatestInGo(entries))

-----------------------------------------------------------------------------
(***************************************************************************)
(* Project.                                                                *)
(***************************************************************************)
\* A reset landed between entries i-1 and i.
Boundary(entries, i) ==
  \/ entries[i].wk < entries[i-1].wk - DropReset
  \/ entries[i].wkReset # entries[i-1].wkReset

RunStart(entries) ==
  CHOOSE k \in DOMAIN entries :
    /\ \A i \in k + 1 .. Len(entries) : ~ Boundary(entries, i)
    /\ k > 1 => Boundary(entries, k)

currentRun(entries) ==
  IF Len(entries) < 2 THEN entries
  ELSE SubSeq(entries, RunStart(entries), Len(entries))

NoProjection == [ok |-> FALSE]

Project(entries) ==
  LET run == currentRun(entries)
      climb == Last(run).wk - run[1].wk
      span  == Last(run).t - run[1].t
  IN IF Len(run) < 2 \/ span < MinSpan \/ climb < MinDelta THEN NoProjection
     ELSE [ok |-> TRUE, wk |-> Last(run).wk, firstT |-> run[1].t,
           lastT |-> Last(run).t, dpct |-> climb]

=============================================================================
