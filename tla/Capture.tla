------------------------------ MODULE Capture -------------------------------
(***************************************************************************)
(* What a statusline render writes: the snapshot of its session and, when  *)
(* something moved, a row of the usage history; and what prune deletes.    *)
(* Renders of all Claude Code windows run concurrently.  The last row of   *)
(* the session is read outside the transaction that appends the next one.  *)
(*                                                                         *)
(*   internal/history/history.go        Prepare (with History)             *)
(*   internal/statusline/command.go     capture, PruneCaches               *)
(*   internal/store/facade.go           CaptureAndAppend, PutSnapshot,     *)
(*                                      LastSessionRow, Prune*             *)
(*   internal/initcmd/prune.go, main.go prune [--history]                  *)
(***************************************************************************)
EXTENDS History

CONSTANTS
  Proc,           \* process slots
  SessionsOf,     \* the sessions a slot may render for
  PayloadOf,      \* the rate_limits the renders of a session may receive
  Pruners,        \* the slots that run prune as well
  KeepSnapshot,   \* CCPOOL_CACHE_KEEP_SECS
  KeepHistory,    \* CCPOOL_HISTORY_KEEP_DAYS, in clock units
  Faults,         \* the failures that may happen: a subset of {"read", "write"}
  MaxClock,       \* bound on the wall clock
  MaxId           \* bound on the rowids in use

ASSUME CaptureAssumption ==
  /\ IsFiniteSet(Proc)
  /\ SessionsOf \in [Proc -> SUBSET Session] /\ Pruners \subseteq Proc
  /\ {KeepSnapshot, KeepHistory} \subseteq Nat
  /\ MaxClock \in Nat /\ MaxId \in Nat
  /\ Faults \subseteq {"read", "write"}

Payload == UNION {PayloadOf[x] : x \in Session}

ASSUME PayloadAssumption == \A x \in Session : PayloadOf[x] \subseteq PayloadType

VARIABLES
  hist,    \* the history table: a set of rows with their rowid
  snaps,   \* the snapshots table: session -> the captured payload, or none
  clock,
  pc, now, job, row

vars  == <<hist, snaps, clock, pc, now, job, row>>
local == <<now, job, row>>

\* judged: the payload was compared with its session's last row (a history
\* variable: it says whether that row could be read).
Snapshot  == [at : Nat, payload : Payload, judged : BOOLEAN]
NoSnapshot == [at |-> Nil]

-----------------------------------------------------------------------------
NoJob == [session |-> Nil, payload |-> Nil]
NoRow == [t |-> 0]

Init ==
  /\ hist = {}
  /\ snaps = [s \in Session |-> NoSnapshot]
  /\ clock = 0
  /\ pc = [p \in Proc |-> "idle"]
  /\ now = [p \in Proc |-> 0]
  /\ job = [p \in Proc |-> NoJob]
  /\ row = [p \in Proc |-> NoRow]

Goto(p, l) == pc' = [pc EXCEPT ![p] = l]

\* INSERT ... ON CONFLICT DO UPDATE: the captured payload replaces the session's.
Upsert(p, judged) ==
  snaps' = [snaps EXCEPT ![job[p].session] =
              [at |-> now[p], payload |-> job[p].payload, judged |-> judged]]

Exit(p) ==
  /\ Goto(p, "idle")
  /\ now' = [now EXCEPT ![p] = 0]
  /\ job' = [job EXCEPT ![p] = NoJob]
  /\ row' = [row EXCEPT ![p] = NoRow]

\* A render starts with the payload on its stdin.
Render(p) ==
  /\ pc[p] = "idle"
  /\ \E x \in SessionsOf[p] : \E pay \in PayloadOf[x] :
       job' = [job EXCEPT ![p] = [session |-> x, payload |-> pay]]
  /\ now' = [now EXCEPT ![p] = clock]
  /\ Goto(p, "prepare")
  /\ UNCHANGED <<hist, snaps, clock, row>>

Prepared(p) == PreparedRow(job[p].payload, now[p], job[p].session)

\* Prepare: the row to append, judged against the last one there is now.
PrepareAppend(p) ==
  LET r == Prepared(p) IN
  /\ pc[p] = "prepare"
  /\ Appends(hist, r)
  /\ row' = [row EXCEPT ![p] = r]
  /\ Goto(p, "append")
  /\ UNCHANGED <<hist, snaps, clock, now, job>>

\* No weekly percentage, a leaked one, or a row that dedup or throttle drops.
PrepareSnapshot(p) ==
  LET r == Prepared(p) IN
  /\ pc[p] = "prepare"
  /\ ~ Appends(hist, r)
  /\ Goto(p, "snapshot")
  /\ UNCHANGED <<hist, snaps, clock, local>>

\* The last row cannot be read: this render writes its snapshot only.
PrepareFails(p) ==
  /\ "read" \in Faults
  /\ pc[p] = "prepare"
  /\ Goto(p, "unjudged")
  /\ UNCHANGED <<hist, snaps, clock, local>>

\* Snapshot and row in one transaction.
CaptureAndAppend(p) ==
  /\ pc[p] = "append"
  /\ NextId(hist) <= MaxId
  /\ Upsert(p, TRUE)
  /\ hist' = hist \union {[id |-> NextId(hist), r |-> row[p]]}
  /\ Exit(p)
  /\ UNCHANGED clock

PutSnapshot(p) ==
  /\ pc[p] \in {"snapshot", "unjudged"}
  /\ Upsert(p, pc[p] = "snapshot")
  /\ Exit(p)
  /\ UNCHANGED <<hist, clock>>

\* The write fails and is rolled back, or the process dies.
GivesUp(p) ==
  /\ "write" \in Faults
  /\ pc[p] # "idle"
  /\ Exit(p)
  /\ UNCHANGED <<hist, snaps, clock>>

-----------------------------------------------------------------------------
(***************************************************************************)
(* prune --history: two deletes, not in one transaction.  The first is     *)
(* also what CCPOOL_PRUNE=1 lets a render do.                              *)
(***************************************************************************)
Prune(p) ==
  /\ p \in Pruners
  /\ pc[p] = "idle"
  /\ now' = [now EXCEPT ![p] = clock]
  /\ Goto(p, "pruneSnapshots")
  /\ UNCHANGED <<hist, snaps, clock, job, row>>

PruneSnapshots(p) ==
  /\ pc[p] = "pruneSnapshots"
  /\ snaps' = [s \in Session |->
                 IF snaps[s] # NoSnapshot /\ snaps[s].at < now[p] - KeepSnapshot
                 THEN NoSnapshot ELSE snaps[s]]
  /\ Goto(p, "pruneHistory")
  /\ UNCHANGED <<hist, clock, local>>

\* prune without --history, and the render with CCPOOL_PRUNE=1, end here.
PruneEnds(p) ==
  /\ pc[p] = "pruneHistory"
  /\ Exit(p)
  /\ UNCHANGED <<hist, snaps, clock>>

PruneHistory(p) ==
  /\ pc[p] = "pruneHistory"
  /\ KeepHistory > 0
  /\ hist' = {s \in hist : ~ (s.r.t < now[p] - KeepHistory)}
  /\ Exit(p)
  /\ UNCHANGED <<snaps, clock>>

Tick ==
  /\ clock < MaxClock
  /\ clock' = clock + 1
  /\ UNCHANGED <<hist, snaps, pc, local>>

Next ==
  \/ \E p \in Proc :
       \/ Render(p) \/ PrepareAppend(p) \/ PrepareSnapshot(p) \/ PrepareFails(p)
       \/ CaptureAndAppend(p) \/ PutSnapshot(p) \/ GivesUp(p)
       \/ Prune(p) \/ PruneSnapshots(p) \/ PruneHistory(p) \/ PruneEnds(p)
  \/ Tick

Spec == Init /\ [][Next]_vars

-----------------------------------------------------------------------------
(***************************************************************************)
(* Correctness.                                                            *)
(***************************************************************************)

\* Every variable has its type; a rowid is used once in the table.
TypeOK ==
  /\ hist \subseteq StoredRow
  /\ \A s, u \in hist : s.id = u.id => s = u
  /\ snaps \in [Session -> Snapshot \union {NoSnapshot}]
  /\ clock \in 0 .. MaxClock
  /\ pc \in [Proc -> {"idle", "prepare", "append", "snapshot", "unjudged",
                      "pruneSnapshots", "pruneHistory"}]
  /\ now \in [Proc -> 0 .. MaxClock]
  /\ job \in [Proc -> [session : Session, payload : Payload] \union {NoJob}]
  /\ row \in [Proc -> RowType \union {NoRow}]

\* u is the next row of the same session after s.
Follows(u, s) ==
  /\ u.r.session = s.r.session /\ s.id < u.id
  /\ \A v \in hist : v.r.session = s.r.session => ~ (s.id < v.id /\ v.id < u.id)

WindowsOf(x) == {p \in Proc : x \in SessionsOf[p]}

\* The rows of the session that end with s and say what s says.
SameUpTo(s) ==
  LET before == {u \in RowsOfSession(hist, s.r.session) : u.id <= s.id}
      Alike(u) == u.r.wk = s.r.wk /\ u.r.wkReset = s.r.wkReset /\ u.r.ses = s.r.ses
  IN {u \in before : \A v \in before : v.id >= u.id => Alike(v)}

\* Nothing can have been compacted away yet.
Whole == Pruners = {} \/ KeepHistory = 0 \/ clock <= KeepHistory

\* The history holds no row that dedup and throttle should have dropped, also
\* after a prune. Where several windows render a session at once, each of them
\* may log a reading that the others log too, but only once (history.go, skip),
\* as long as no prune takes what stood between two such readings.
NoRepeatedRow ==
  /\ \A s, u \in hist :
       Follows(u, s) /\ Cardinality(WindowsOf(u.r.session)) = 1 => ~ skip(s.r, u.r)
  /\ Whole =>
       \A s \in hist : Cardinality(SameUpTo(s)) <= Cardinality(WindowsOf(s.r.session))

\* A snapshot that reports a weekly percentage agrees with its session's newest
\* row, whether that row was written with it or made it a repetition: a reader
\* never sees the one without the other (facade.go, CaptureAndAppend). Unless
\* the last row could not be read or two windows render the session, and until
\* the row is compacted away.
SnapshotMatchesRow ==
  \A x \in Session :
    Cardinality(WindowsOf(x)) = 1 /\ snaps[x] # NoSnapshot /\ snaps[x].judged =>
      LET r == PreparedRow(snaps[x].payload, snaps[x].at, x) IN
        r.wk # Nil =>
          IF RowsOfSession(hist, x) = {}
          THEN Pruners # {} /\ clock > KeepHistory
          ELSE /\ LastSessionRow(hist, x).r.wk = r.wk
               /\ LastSessionRow(hist, x).r.wkReset = r.wkReset

\* No reset is further ahead of its row than a window can last, and no leaked
\* epoch is stored as a percentage: either would become the envelope's newest
\* window or calibration's burn (history.go, maxResetAhead and sanePct).
NoPoison ==
  \A s \in hist :
    /\ s.r.wkReset # Nil => s.r.wkReset <= s.r.t + MaxResetAhead
    /\ s.r.sesReset # Nil => s.r.sesReset <= s.r.t + MaxResetAhead
    /\ s.r.wk \in 0 .. 100

\* Compaction never takes a row younger than the days it is asked to keep,
\* also when the prune is slow and its time is old (initcmd/prune.go).
PruneKeepsRecent ==
  [][\A s \in hist : s \notin hist' => s.r.t < clock - KeepHistory]_vars

\* Where one window renders a session its rows are in the order of their times:
\* rowid order and time order agree where dedup and the envelope rely on both,
\* also after a prune that empties the table (query.sql).
SessionInOrder ==
  \A s, u \in hist :
    /\ s.r.session = u.r.session /\ Cardinality(WindowsOf(s.r.session)) = 1
    /\ s.id < u.id
    => s.r.t <= u.r.t

=============================================================================
