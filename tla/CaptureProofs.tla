--------------------------- MODULE CaptureProofs ----------------------------
(***************************************************************************)
(* What holds of Capture for any number of windows and sessions, any       *)
(* payloads and any periods of keeping.                                    *)
(***************************************************************************)
EXTENDS Capture, NumberFacts

LEMMA Limits ==
  /\ Nil \notin Int /\ MaxResetAhead \in Nat /\ MinInterval \in Nat
  /\ KeepSnapshot \in Nat /\ KeepHistory \in Nat /\ MaxClock \in Nat /\ MaxId \in Nat
BY HistoryAssumption, CaptureAssumption

-----------------------------------------------------------------------------
(***************************************************************************)
(* Rows.                                                                   *)
(***************************************************************************)
Labels == {"idle", "prepare", "append", "snapshot", "unjudged", "pruneSnapshots", "pruneHistory"}
Jobs   == [session : Session, payload : Payload]
Rows   == [id : 1 .. MaxId, r : RowType]

LEMMA PreparedType ==
  ASSUME NEW pay \in Payload, NEW at \in Nat, NEW x \in Session
  PROVE  LET r == PreparedRow(pay, at, x) IN
         /\ r.wk # Nil => r \in RowType
         /\ r.session = x /\ r.t = at
         /\ r.wkReset # Nil => r.wkReset <= at + MaxResetAhead
         /\ r.sesReset # Nil => r.sesReset <= at + MaxResetAhead
<1> DEFINE r == PreparedRow(pay, at, x)
<1>1. pay \in PayloadType
  BY PayloadAssumption DEF Payload
<1>2. \A v \in OptInt : sanePct(v) \in 0 .. 100 \union {Nil}
  BY Limits DEF sanePct, OptInt
<1>3. \A v \in OptInt :
        /\ saneReset(v, at) \in OptInt
        /\ saneReset(v, at) # Nil => saneReset(v, at) <= at + MaxResetAhead
  BY Limits DEF saneReset, OptInt
<1>4. /\ pay.wk \in OptInt /\ pay.wkReset \in OptInt
      /\ pay.ses \in OptInt /\ pay.sesReset \in OptInt
  BY <1>1 DEF PayloadType
<1>5. r = [t |-> at, wk |-> sanePct(pay.wk), wkReset |-> saneReset(pay.wkReset, at),
           ses |-> sanePct(pay.ses), sesReset |-> saneReset(pay.sesReset, at), session |-> x]
  BY DEF PreparedRow
<1>6. r.wk # Nil => r \in RowType
  BY <1>2, <1>3, <1>4, <1>5 DEF RowType
<1> QED BY <1>3, <1>4, <1>5, <1>6

\* The next rowid is greater than all.
LEMMA NextIdIsGreater ==
  ASSUME NEW h \in SUBSET Rows
  PROVE  NextId(h) \in Nat \ {0} /\ \A s \in h : s.id < NextId(h)
<1>1. CASE h = {}
  BY <1>1 DEF NextId
<1>2. CASE h # {}
  <2> DEFINE ids == {s.id : s \in h}
  <2>1. ids \subseteq Nat /\ ids # {} /\ \A n \in ids : n <= MaxId
    BY <1>2, Limits DEF Rows
  <2>2. Max(ids) \in Nat /\ \A n \in ids : n <= Max(ids)
    BY <2>1, MaxIsIn, Limits
  <2>3. NextId(h) = Max(ids) + 1
    BY <1>2 DEF NextId
  <2> HIDE DEF ids
  <2>4. \A s \in h : s.id <= Max(ids) /\ s.id \in Nat
    BY <2>1, <2>2 DEF ids
  <2> QED BY <2>2, <2>3, <2>4
<1> QED BY <1>1, <1>2

-----------------------------------------------------------------------------
(***************************************************************************)
(* Types.                                                                  *)
(***************************************************************************)
TypeInv ==
  /\ hist \subseteq Rows
  /\ \A s, u \in hist : s.id = u.id => s = u
  /\ snaps \in [Session -> Snapshot \union {NoSnapshot}]
  /\ clock \in 0 .. MaxClock
  /\ pc \in [Proc -> Labels]
  /\ now \in [Proc -> 0 .. MaxClock]
  /\ job \in [Proc -> Jobs \union {NoJob}]
  /\ row \in [Proc -> RowType \union {NoRow}]

Renders(p) == pc[p] \in {"prepare", "append", "snapshot", "unjudged"}

\* A render has a job of its window, and what it appends was prepared from it.
JobsFit ==
  \A p \in Proc :
    /\ now[p] <= clock
    /\ Renders(p) => job[p] \in Jobs /\ job[p].session \in SessionsOf[p]
    /\ pc[p] = "append" => row[p] = Prepared(p) /\ row[p].wk # Nil

LEMMA TypeInit == Init => TypeInv /\ JobsFit
BY Limits DEF Init, TypeInv, JobsFit, Renders, Labels

LEMMA TypeExit ==
  ASSUME TypeInv, JobsFit, NEW p \in Proc, Exit(p), clock' = clock
  PROVE  /\ pc' \in [Proc -> Labels] /\ now' \in [Proc -> 0 .. MaxClock]
         /\ job' \in [Proc -> Jobs \union {NoJob}] /\ row' \in [Proc -> RowType \union {NoRow}]
         /\ JobsFit'
<1>1. 0 \in 0 .. MaxClock /\ "idle" \in Labels /\ clock \in Nat
  BY Limits DEF Labels, TypeInv
<1>2. /\ pc' \in [Proc -> Labels] /\ now' \in [Proc -> 0 .. MaxClock]
      /\ job' \in [Proc -> Jobs \union {NoJob}] /\ row' \in [Proc -> RowType \union {NoRow}]
  BY <1>1 DEF Exit, Goto, TypeInv
<1>3. /\ pc'[p] = "idle" /\ now'[p] = 0
      /\ \A q \in Proc \ {p} :
           pc'[q] = pc[q] /\ now'[q] = now[q] /\ job'[q] = job[q] /\ row'[q] = row[q]
  BY DEF Exit, Goto, TypeInv
<1>4. JobsFit'
  BY <1>1, <1>3 DEF JobsFit, Renders, Prepared
<1> QED BY <1>2, <1>4

LEMMA UpsertType ==
  ASSUME TypeInv, NEW p \in Proc, NEW judged \in BOOLEAN, job[p] \in Jobs, Upsert(p, judged)
  PROVE  snaps' \in [Session -> Snapshot \union {NoSnapshot}]
<1>1. [at |-> now[p], payload |-> job[p].payload, judged |-> judged] \in Snapshot
  BY Limits DEF Snapshot, Jobs, TypeInv
<1> QED BY <1>1 DEF Upsert, TypeInv

LEMMA TypeNext == ASSUME TypeInv, JobsFit, [Next]_vars PROVE TypeInv' /\ JobsFit'
<1> USE DEF local
<1>1. CASE UNCHANGED vars
  BY <1>1 DEF vars, TypeInv, JobsFit, Renders, Prepared
<1>2. ASSUME NEW p \in Proc, Render(p) PROVE TypeInv' /\ JobsFit'
  <2>0. PICK x \in SessionsOf[p] :
          \E pay \in PayloadOf[x] :
            job' = [job EXCEPT ![p] = [session |-> x, payload |-> pay]]
    BY <1>2 DEF Render
  <2>1. PICK pay \in PayloadOf[x] :
          job' = [job EXCEPT ![p] = [session |-> x, payload |-> pay]]
    BY <2>0
  <2>2. x \in Session
    BY CaptureAssumption
  <2>3. [session |-> x, payload |-> pay] \in Jobs
    BY <2>2 DEF Jobs, Payload
  <2>4. job' \in [Proc -> Jobs \union {NoJob}]
    BY <2>1, <2>3 DEF TypeInv
  <2>5. /\ UNCHANGED <<hist, snaps, clock, row>>
        /\ pc' = [pc EXCEPT ![p] = "prepare"] /\ now' = [now EXCEPT ![p] = clock]
    BY <1>2 DEF Render, Goto
  <2>6. TypeInv'
    BY <2>4, <2>5 DEF TypeInv, Labels
  <2>7. /\ job'[p] \in Jobs /\ job'[p].session \in SessionsOf[p]
        /\ \A q \in Proc \ {p} : job'[q] = job[q]
    BY <2>1, <2>3 DEF TypeInv, Jobs
  <2>8. JobsFit'
    BY <2>5, <2>7, Limits DEF JobsFit, Renders, Prepared, TypeInv
  <2> QED BY <2>6, <2>8
<1>3. ASSUME NEW p \in Proc, PrepareAppend(p) PROVE TypeInv' /\ JobsFit'
  <2>1. /\ UNCHANGED <<hist, snaps, clock, now, job>> /\ pc[p] = "prepare"
        /\ row' = [row EXCEPT ![p] = Prepared(p)] /\ Prepared(p).wk # Nil
        /\ pc' = [pc EXCEPT ![p] = "append"]
    BY <1>3 DEF PrepareAppend, Goto, Appends
  <2>2. job[p].payload \in Payload /\ job[p].session \in Session /\ now[p] \in Nat
    BY <2>1, Limits DEF JobsFit, Renders, Jobs, TypeInv
  <2>3. Prepared(p) \in RowType
    BY <2>1, <2>2, PreparedType DEF Prepared
  <2>4. TypeInv'
    BY <2>1, <2>3 DEF TypeInv, Labels
  <2>5. JobsFit'
    BY <2>1 DEF JobsFit, Renders, Prepared, TypeInv
  <2> QED BY <2>4, <2>5
<1>4. ASSUME NEW p \in Proc, PrepareSnapshot(p) \/ PrepareFails(p) PROVE TypeInv' /\ JobsFit'
  <2>1. /\ UNCHANGED <<hist, snaps, clock, local>> /\ pc[p] = "prepare"
        /\ \E l \in {"snapshot", "unjudged"} : pc' = [pc EXCEPT ![p] = l]
    BY <1>4 DEF PrepareSnapshot, PrepareFails, Goto
  <2> QED BY <2>1 DEF TypeInv, Labels, JobsFit, Renders, Prepared
<1>5. ASSUME NEW p \in Proc, CaptureAndAppend(p) PROVE TypeInv' /\ JobsFit'
  <2> DEFINE s == [id |-> NextId(hist), r |-> row[p]]
  <2>1. /\ pc[p] = "append" /\ NextId(hist) <= MaxId /\ Upsert(p, TRUE)
        /\ hist' = hist \union {s} /\ Exit(p) /\ clock' = clock
    BY <1>5 DEF CaptureAndAppend
  <2>2. job[p] \in Jobs /\ row[p] \in RowType
    <3>1. job[p] \in Jobs /\ row[p] = Prepared(p) /\ row[p].wk # Nil /\ now[p] \in Nat
      BY <2>1, Limits DEF JobsFit, Renders, TypeInv
    <3> QED BY <3>1, PreparedType DEF Prepared, Jobs
  <2>3. NextId(hist) \in 1 .. MaxId /\ \A u \in hist : u.id < NextId(hist)
    BY <2>1, NextIdIsGreater, Limits DEF TypeInv
  <2>4. s \in Rows /\ s.id = NextId(hist)
    BY <2>2, <2>3 DEF Rows
  <2> HIDE DEF s
  <2>5. hist' \subseteq Rows
    BY <2>1, <2>4 DEF TypeInv
  <2>6. \A v, u \in hist' : v.id = u.id => v = u
    <3>1. \A u \in hist : u.id \in Nat
      BY DEF TypeInv, Rows
    <3> QED BY <2>1, <2>3, <2>4, <3>1 DEF TypeInv
  <2>7. snaps' \in [Session -> Snapshot \union {NoSnapshot}]
    BY <2>1, <2>2, UpsertType
  <2> QED BY <2>1, <2>5, <2>6, <2>7, TypeExit DEF TypeInv
<1>6. ASSUME NEW p \in Proc, PutSnapshot(p) PROVE TypeInv' /\ JobsFit'
  <2>1. /\ Upsert(p, pc[p] = "snapshot") /\ Exit(p) /\ UNCHANGED <<hist, clock>>
        /\ job[p] \in Jobs
    BY <1>6 DEF PutSnapshot, JobsFit, Renders
  <2>2. snaps' \in [Session -> Snapshot \union {NoSnapshot}]
    BY <2>1, UpsertType
  <2> QED BY <2>1, <2>2, TypeExit DEF TypeInv
<1>7. ASSUME NEW p \in Proc, GivesUp(p) \/ PruneEnds(p) PROVE TypeInv' /\ JobsFit'
  <2>1. Exit(p) /\ UNCHANGED <<hist, snaps, clock>>
    BY <1>7 DEF GivesUp, PruneEnds
  <2> QED BY <2>1, TypeExit DEF TypeInv
<1>8. ASSUME NEW p \in Proc, Prune(p) PROVE TypeInv' /\ JobsFit'
  <2>1. /\ UNCHANGED <<hist, snaps, clock, job, row>>
        /\ now' = [now EXCEPT ![p] = clock] /\ pc' = [pc EXCEPT ![p] = "pruneSnapshots"]
    BY <1>8 DEF Prune, Goto
  <2> QED BY <2>1, Limits DEF TypeInv, Labels, JobsFit, Renders, Prepared
<1>9. ASSUME NEW p \in Proc, PruneSnapshots(p) PROVE TypeInv' /\ JobsFit'
  <2>1. /\ UNCHANGED <<hist, clock, local>> /\ pc' = [pc EXCEPT ![p] = "pruneHistory"]
        /\ snaps' \in [Session -> Snapshot \union {NoSnapshot}]
    BY <1>9 DEF PruneSnapshots, Goto, TypeInv
  <2> QED BY <2>1 DEF TypeInv, Labels, JobsFit, Renders, Prepared
<1>10. ASSUME NEW p \in Proc, PruneHistory(p) PROVE TypeInv' /\ JobsFit'
  <2>1. hist' \subseteq hist /\ Exit(p) /\ UNCHANGED <<snaps, clock>>
    BY <1>10 DEF PruneHistory
  <2> QED BY <2>1, TypeExit DEF TypeInv
<1>11. CASE Tick
  BY <1>11, Limits DEF Tick, TypeInv, JobsFit, Renders, Prepared
<1> QED BY <1>1, <1>2, <1>3, <1>4, <1>5, <1>6, <1>7, <1>8, <1>9, <1>10, <1>11 DEF Next

LEMMA TypeInvariant == Spec => [](TypeInv /\ JobsFit)
<1>1. TypeInv /\ JobsFit /\ [Next]_vars => (TypeInv /\ JobsFit)'
  BY TypeNext
<1> QED BY <1>1, TypeInit, PTL DEF Spec

\* Every variable has its type; a rowid is used once in the table.
THEOREM TypeCorrect == Spec => []TypeOK
<1>1. TypeInv => TypeOK
  <2>1. Rows \subseteq StoredRow
    BY Limits DEF Rows, StoredRow
  <2> QED BY <2>1 DEF TypeInv, TypeOK, Labels, Jobs
<1> QED BY <1>1, TypeInvariant, PTL

-----------------------------------------------------------------------------
(***************************************************************************)
(* What a step does to the table.                                          *)
(***************************************************************************)
LEMMA HistSteps ==
  ASSUME [Next]_vars
  PROVE  \/ hist' = hist
         \/ \E p \in Proc : CaptureAndAppend(p) \/ PruneHistory(p)
BY DEF Next, vars, Render, PrepareAppend, PrepareSnapshot, PrepareFails, PutSnapshot,
       GivesUp, Prune, PruneSnapshots, PruneEnds, Tick

\* The row that an append adds.
LEMMA Appended ==
  ASSUME TypeInv, JobsFit, NEW p \in Proc, CaptureAndAppend(p)
  PROVE  \E s \in Rows :
           /\ hist' = hist \union {s}
           /\ s.id = NextId(hist) /\ \A u \in hist : u.id < s.id
           /\ s.r = Prepared(p) /\ s.r.wk # Nil
           /\ s.r.session = job[p].session /\ s.r.t = now[p]
           /\ p \in WindowsOf(s.r.session)
<1> DEFINE s == [id |-> NextId(hist), r |-> row[p]]
<1>1. /\ pc[p] = "append" /\ NextId(hist) <= MaxId /\ hist' = hist \union {s}
  BY DEF CaptureAndAppend
<1>2. /\ job[p] \in Jobs /\ job[p].session \in SessionsOf[p] /\ row[p] = Prepared(p)
      /\ row[p].wk # Nil /\ now[p] \in Nat
  BY <1>1, Limits DEF JobsFit, Renders, TypeInv
<1>3. row[p] \in RowType /\ row[p].session = job[p].session /\ row[p].t = now[p]
  BY <1>2, PreparedType DEF Prepared, Jobs
<1>4. NextId(hist) \in 1 .. MaxId /\ \A u \in hist : u.id < NextId(hist)
  BY <1>1, NextIdIsGreater, Limits DEF TypeInv
<1>5. s \in Rows /\ s.id = NextId(hist) /\ s.r = row[p]
  BY <1>3, <1>4 DEF Rows
<1>6. p \in WindowsOf(job[p].session)
  BY <1>2 DEF WindowsOf
<1> QED BY <1>1, <1>2, <1>3, <1>4, <1>5, <1>6

\* No sentinel reset and no leaked epoch is ever stored.
THEOREM HistoryIsSane == Spec => []NoPoison
<1>1. Init => NoPoison
  BY DEF Init, NoPoison
<1>2. TypeInv /\ JobsFit /\ NoPoison /\ [Next]_vars => NoPoison'
  <2> SUFFICES ASSUME TypeInv, JobsFit, NoPoison, [Next]_vars PROVE NoPoison'
    OBVIOUS
  <2>1. CASE hist' = hist
    BY <2>1 DEF NoPoison
  <2>2. ASSUME NEW p \in Proc, CaptureAndAppend(p) PROVE NoPoison'
    <3>1. PICK s \in Rows : hist' = hist \union {s} /\ s.r = Prepared(p)
      BY <2>2, Appended
    <3>2. job[p] \in Jobs /\ now[p] \in Nat
      BY <2>2, Limits DEF CaptureAndAppend, JobsFit, Renders, TypeInv
    <3>3. /\ s.r.wk \in 0 .. 100 /\ s.r.t = now[p]
          /\ s.r.wkReset # Nil => s.r.wkReset <= now[p] + MaxResetAhead
          /\ s.r.sesReset # Nil => s.r.sesReset <= now[p] + MaxResetAhead
      BY <3>1, <3>2, PreparedType DEF Prepared, Jobs, Rows, RowType
    <3> QED BY <3>1, <3>3 DEF NoPoison
  <2>3. ASSUME NEW p \in Proc, PruneHistory(p) PROVE NoPoison'
    BY <2>3 DEF PruneHistory, NoPoison
  <2> QED BY <2>1, <2>2, <2>3, HistSteps
<1> QED BY <1>1, <1>2, TypeInvariant, PTL DEF Spec

\* Compaction never takes a row younger than the days it is asked to keep.
THEOREM RecentRowsStay == Spec => PruneKeepsRecent
<1>1. TypeInv /\ JobsFit /\ [Next]_vars =>
        [\A s \in hist : s \notin hist' => s.r.t < clock - KeepHistory]_vars
  <2> SUFFICES ASSUME TypeInv, JobsFit, [Next]_vars, NEW s \in hist, s \notin hist'
               PROVE  s.r.t < clock - KeepHistory
    OBVIOUS
  <2>1. PICK p \in Proc : CaptureAndAppend(p) \/ PruneHistory(p)
    BY HistSteps
  <2>2. PruneHistory(p)
    BY <2>1 DEF CaptureAndAppend
  <2>3. s.r.t < now[p] - KeepHistory
    BY <2>2 DEF PruneHistory
  <2>4. now[p] <= clock /\ now[p] \in Nat /\ clock \in Nat /\ s.r.t \in Nat
    BY Limits DEF JobsFit, TypeInv, Rows, RowType
  <2> QED BY <2>3, <2>4, Limits
<1> QED BY <1>1, TypeInvariant, PTL DEF Spec, PruneKeepsRecent

-----------------------------------------------------------------------------
(***************************************************************************)
(* Sessions that one window renders.                                       *)
(***************************************************************************)
Alone(p, x) == WindowsOf(x) = {p}

LEMMA OneWindow ==
  ASSUME NEW x, Cardinality(WindowsOf(x)) = 1
  PROVE  \E p \in Proc : Alone(p, x)
<1>1. IsFiniteSet(WindowsOf(x))
  BY CaptureAssumption, FS_Subset DEF WindowsOf
<1>2. PICK p : WindowsOf(x) = {p}
  BY <1>1, FS_Singleton
<1> QED BY <1>2 DEF WindowsOf, Alone

\* A render runs on with what it has, or has just started.
Continues(p) == Renders(p) /\ now'[p] = now[p] /\ job'[p] = job[p]
Begins(p)    == pc'[p] = "prepare" /\ now'[p] = clock

LEMMA RenderSteps ==
  ASSUME TypeInv, [Next]_vars
  PROVE  /\ clock <= clock' /\ clock \in Nat
         /\ \A q \in Proc : Renders(q)' => Begins(q) \/ Continues(q)
<1> USE DEF local, Renders, Begins, Continues
<1>1. clock \in Nat
  BY Limits DEF TypeInv
<1>2. CASE UNCHANGED vars
  BY <1>1, <1>2 DEF vars
<1>3. CASE Tick
  BY <1>1, <1>3 DEF Tick
<1>4. ASSUME NEW p \in Proc, Render(p)
      PROVE  clock' = clock /\ \A q \in Proc : Renders(q)' => Begins(q) \/ Continues(q)
  BY <1>4 DEF Render, Goto, TypeInv
<1>5. ASSUME NEW p \in Proc,
             \/ PrepareAppend(p) \/ PrepareSnapshot(p) \/ PrepareFails(p)
             \/ Prune(p) \/ PruneSnapshots(p)
      PROVE  clock' = clock /\ \A q \in Proc : Renders(q)' => Begins(q) \/ Continues(q)
  BY <1>5 DEF PrepareAppend, PrepareSnapshot, PrepareFails, Prune, PruneSnapshots, Goto, TypeInv
<1>6. ASSUME NEW p \in Proc,
             \/ CaptureAndAppend(p) \/ PutSnapshot(p) \/ GivesUp(p)
             \/ PruneHistory(p) \/ PruneEnds(p)
      PROVE  clock' = clock /\ \A q \in Proc : Renders(q)' => Begins(q) \/ Continues(q)
  <2>1. Exit(p) /\ clock' = clock
    BY <1>6 DEF CaptureAndAppend, PutSnapshot, GivesUp, PruneHistory, PruneEnds
  <2> QED BY <2>1 DEF Exit, Goto, TypeInv
<1> QED BY <1>1, <1>2, <1>3, <1>4, <1>5, <1>6 DEF Next

\* The rows are in the order of their times, and before the next one's.
InOrder ==
  \A p \in Proc : \A s \in hist : Alone(p, s.r.session) =>
    /\ \A u \in hist : u.r.session = s.r.session /\ s.id < u.id => s.r.t <= u.r.t
    /\ s.r.t <= clock
    /\ Renders(p) => s.r.t <= now[p]

LEMMA InOrderNext == ASSUME TypeInv, JobsFit, InOrder, [Next]_vars PROVE InOrder'
<1>1. /\ clock <= clock' /\ clock \in Nat
      /\ \A q \in Proc : Renders(q)' => Begins(q) \/ Continues(q)
  BY RenderSteps
<1>2. ASSUME hist' \subseteq hist PROVE InOrder'
  <2>1. \A s \in hist : s.r.t \in Nat
    BY DEF TypeInv, Rows, RowType
  <2>2. clock' \in Nat
    BY TypeNext, Limits DEF TypeInv
  <2> QED BY <1>1, <1>2, <2>1, <2>2 DEF InOrder, Alone, WindowsOf, Begins, Continues
<1>3. ASSUME NEW p \in Proc, CaptureAndAppend(p) PROVE InOrder'
  <2>1. PICK s \in Rows :
          /\ hist' = hist \union {s} /\ \A u \in hist : u.id < s.id
          /\ s.r.t = now[p] /\ p \in WindowsOf(s.r.session)
    BY <1>3, Appended
  <2>2. /\ Renders(p) /\ ~ Renders(p)' /\ clock' = clock
        /\ \A q \in Proc \ {p} : Renders(q)' = Renders(q) /\ now'[q] = now[q]
    BY <1>3 DEF CaptureAndAppend, Exit, Goto, Renders, TypeInv
  <2>3. \A q \in Proc : Alone(q, s.r.session) => q = p
    BY <2>1 DEF Alone
  <2>4. now[p] <= clock /\ \A u \in hist : u.id \in Nat
    BY DEF JobsFit, TypeInv, Rows
  <2>5. s.id \in Nat
    BY DEF Rows
  <2>6. \A q \in Proc, x \in Session : Alone(q, x)' = Alone(q, x)
    BY DEF Alone, WindowsOf
  <2> QED BY <2>1, <2>2, <2>3, <2>4, <2>5, <2>6 DEF InOrder, Alone, WindowsOf
<1>4. ASSUME NEW p \in Proc, PruneHistory(p) PROVE hist' \subseteq hist
  BY <1>4 DEF PruneHistory
<1> QED BY <1>2, <1>3, <1>4, HistSteps

LEMMA OrderInvariant == Spec => [](TypeInv /\ JobsFit /\ InOrder)
<1>1. Init => InOrder
  BY DEF Init, InOrder
<1>2. TypeInv /\ JobsFit /\ InOrder /\ [Next]_vars => InOrder'
  BY InOrderNext
<1> QED BY <1>1, <1>2, TypeInvariant, PTL DEF Spec

\* Where one window renders a session its rows are in the order of their times.
THEOREM RowsInOrder == Spec => []SessionInOrder
<1>1. TypeInv /\ InOrder => SessionInOrder
  BY OneWindow DEF InOrder, SessionInOrder
<1> QED BY <1>1, OrderInvariant, PTL

-----------------------------------------------------------------------------
(***************************************************************************)
(* Snapshots and rows.                                                     *)
(***************************************************************************)
LEMMA LastRow ==
  ASSUME NEW h \in SUBSET Rows, NEW x, RowsOfSession(h, x) # {}
  PROVE  /\ LastSessionRow(h, x) \in RowsOfSession(h, x)
         /\ \A u \in RowsOfSession(h, x) : u.id <= LastSessionRow(h, x).id
<1> DEFINE rows == RowsOfSession(h, x)
           ids == {s.id : s \in rows}
<1>1. ids \subseteq Nat /\ ids # {} /\ \A n \in ids : n <= MaxId
  BY Limits DEF RowsOfSession, Rows
<1>2. Max(ids) \in ids /\ \A n \in ids : n <= Max(ids)
  BY <1>1, MaxIsIn, Limits
<1>3. \E s \in rows : \A u \in rows : u.id <= s.id
  BY <1>2
<1> QED BY <1>3 DEF LastSessionRow

LEMMA LastIs ==
  ASSUME NEW h \in SUBSET Rows, \A s, u \in h : s.id = u.id => s = u,
         NEW x, NEW s \in RowsOfSession(h, x), \A u \in RowsOfSession(h, x) : u.id <= s.id
  PROVE  LastSessionRow(h, x) = s
<1>1. /\ LastSessionRow(h, x) \in RowsOfSession(h, x)
      /\ \A u \in RowsOfSession(h, x) : u.id <= LastSessionRow(h, x).id
  BY LastRow
<1>2. \A u \in RowsOfSession(h, x) : u \in h /\ u.id \in Nat
  BY DEF RowsOfSession, Rows
<1> QED BY <1>1, <1>2

\* The newest row of the session says what r says, or is compacted away.
Agrees(h, at, x, r) ==
  IF RowsOfSession(h, x) = {}
  THEN Pruners # {} /\ at > KeepHistory
  ELSE /\ LastSessionRow(h, x).r.wk = r.wk
       /\ LastSessionRow(h, x).r.wkReset = r.wkReset

Captured(snap, x) == PreparedRow(snap.payload, snap.at, x)

SnapshotsAgree ==
  \A p \in Proc, x \in Session :
    Alone(p, x) /\ snaps[x] # NoSnapshot /\ snaps[x].judged
    /\ Captured(snaps[x], x).wk # Nil
      => Agrees(hist, clock, x, Captured(snaps[x], x))

\* What was judged and not appended repeats the newest row.
JudgedAgree ==
  /\ \A p \in Proc : pc[p] \in {"pruneSnapshots", "pruneHistory"} => p \in Pruners
  /\ \A p \in Proc : \A x \in Session :
       pc[p] = "snapshot" /\ job[p].session = x /\ Alone(p, x) /\ Prepared(p).wk # Nil
         => Agrees(hist, clock, x, Prepared(p))

MatchInv == SnapshotsAgree /\ JudgedAgree

LEMMA MatchInit == Init => MatchInv
BY DEF Init, MatchInv, SnapshotsAgree, JudgedAgree, NoSnapshot

\* The last row of a session goes only with all others.
LEMMA PruneTakesAll ==
  ASSUME TypeInv, JobsFit, InOrder, JudgedAgree, NEW p \in Proc, PruneHistory(p),
         NEW q \in Proc, NEW x \in Session, Alone(q, x), NEW r,
         Agrees(hist, clock, x, r)
  PROVE  Agrees(hist', clock', x, r)
<1>1. /\ hist' = {s \in hist : ~ (s.r.t < now[p] - KeepHistory)} /\ clock' = clock
      /\ p \in Pruners
  BY DEF PruneHistory, JudgedAgree
<1>2. /\ now[p] \in Nat /\ clock \in Nat /\ now[p] <= clock /\ KeepHistory \in Nat
      /\ \A s \in hist : s.r.t \in Nat /\ s.id \in Nat
  BY Limits DEF TypeInv, JobsFit, Rows, RowType
<1>3. hist \in SUBSET Rows /\ hist' \in SUBSET Rows
      /\ \A s, u \in hist' : s.id = u.id => s = u
  BY <1>1 DEF TypeInv
<1>4. CASE RowsOfSession(hist, x) = {}
  BY <1>1, <1>4 DEF Agrees, RowsOfSession
<1>5. CASE RowsOfSession(hist, x) # {} /\ RowsOfSession(hist', x) = {}
  <2>1. PICK s \in RowsOfSession(hist, x) : s \notin hist'
    BY <1>5 DEF RowsOfSession
  <2>2. s \in hist /\ s.r.t < now[p] - KeepHistory
    BY <1>1, <2>1 DEF RowsOfSession
  <2>3. clock > KeepHistory
    BY <1>2, <2>2
  <2> QED BY <1>1, <1>5, <2>3 DEF Agrees
<1>6. CASE RowsOfSession(hist', x) # {}
  <2> DEFINE l == LastSessionRow(hist, x)
  <2>1. PICK s \in RowsOfSession(hist', x) : TRUE
    BY <1>6
  <2>2. s \in hist /\ s.r.session = x /\ ~ (s.r.t < now[p] - KeepHistory)
    BY <1>1 DEF RowsOfSession
  <2>3. s \in RowsOfSession(hist, x)
    BY <2>2 DEF RowsOfSession
  <2>4. l \in RowsOfSession(hist, x) /\ \A u \in RowsOfSession(hist, x) : u.id <= l.id
    BY <1>3, <2>3, LastRow
  <2> HIDE DEF l
  <2>5. l \in hist /\ l.r.session = x /\ s.id <= l.id
    BY <2>3, <2>4 DEF RowsOfSession
  <2>6. s.r.t <= l.r.t
    <3>1. CASE s.id = l.id
      BY <1>2, <2>2, <2>5, <3>1 DEF TypeInv
    <3>2. CASE s.id < l.id
      BY <2>2, <2>5, <3>2 DEF InOrder
    <3> QED BY <1>2, <2>2, <2>5, <3>1, <3>2
  <2>7. l \in hist'
    BY <1>1, <1>2, <2>2, <2>5, <2>6
  <2>8. l \in RowsOfSession(hist', x) /\ \A u \in RowsOfSession(hist', x) : u.id <= l.id
    BY <1>1, <2>4, <2>5, <2>7 DEF RowsOfSession
  <2>9. LastSessionRow(hist', x) = l
    BY <1>3, <2>8, LastIs
  <2> QED BY <1>6, <2>3, <2>9 DEF Agrees, l
<1> QED BY <1>4, <1>5, <1>6

LEMMA AgreesStays ==
  ASSUME NEW h, NEW at \in Nat, NEW later \in Nat, at <= later, NEW x, NEW r,
         Agrees(h, at, x, r)
  PROVE  Agrees(h, later, x, r)
BY Limits DEF Agrees

\* An append of another session does not matter.
LEMMA AgreesBeside ==
  ASSUME NEW h, NEW s, NEW at, NEW x, s.r.session # x, NEW r, Agrees(h, at, x, r)
  PROVE  Agrees(h \union {s}, at, x, r)
<1>1. RowsOfSession(h \union {s}, x) = RowsOfSession(h, x)
  BY DEF RowsOfSession
<1> QED BY <1>1 DEF Agrees, LastSessionRow

LEMMA MatchNext ==
  ASSUME TypeInv, JobsFit, InOrder, MatchInv, [Next]_vars
  PROVE  MatchInv'
<1> USE DEF local
<1>1. /\ pc \in [Proc -> Labels] /\ clock \in Nat
      /\ \A p, q \in Proc, x \in Session : Alone(p, x) /\ q \in WindowsOf(x) => q = p
  BY Limits DEF TypeInv, Alone
<1>2. \A p \in Proc : Renders(p) => job[p].session \in Session /\ p \in WindowsOf(job[p].session)
  BY DEF JobsFit, Jobs, WindowsOf
<1>3. clock' \in Nat /\ clock <= clock'
  BY RenderSteps, TypeNext, Limits DEF TypeInv
\* What holds of all, from what holds of each.
<1>s. ASSUME \A p \in Proc, x \in Session :
               Alone(p, x) /\ snaps'[x] # NoSnapshot /\ snaps'[x].judged
               /\ Captured(snaps'[x], x).wk # Nil
                 => Agrees(hist', clock', x, Captured(snaps'[x], x))
      PROVE  SnapshotsAgree'
  BY <1>s DEF SnapshotsAgree, Alone, WindowsOf
<1>j. ASSUME \A p \in Proc : pc'[p] \in {"pruneSnapshots", "pruneHistory"} => p \in Pruners,
             \A p \in Proc, x \in Session :
               pc'[p] = "snapshot" /\ job'[p].session = x /\ Alone(p, x) /\ Prepared(p)'.wk # Nil
                 => Agrees(hist', clock', x, Prepared(p)')
      PROVE  JudgedAgree'
  BY <1>j DEF JudgedAgree, Alone, WindowsOf
\* Nobody comes to the snapshot or to prune, and the table stays.
<1>4. ASSUME hist' = hist,
             \A x \in Session : snaps'[x] \in {snaps[x], NoSnapshot},
             \A p \in Proc :
               /\ pc'[p] \in {"pruneSnapshots", "pruneHistory"} => p \in Pruners
               /\ pc'[p] = "snapshot" =>
                    pc[p] = "snapshot" /\ job'[p] = job[p] /\ now'[p] = now[p]
      PROVE  MatchInv'
  <2>1. SnapshotsAgree'
    <3> SUFFICES ASSUME NEW p \in Proc, NEW x \in Session, Alone(p, x),
                        snaps'[x] # NoSnapshot, snaps'[x].judged,
                        Captured(snaps'[x], x).wk # Nil
                 PROVE  Agrees(hist', clock', x, Captured(snaps'[x], x))
      BY <1>s
    <3>1. snaps'[x] = snaps[x]
      BY <1>4
    <3>2. Agrees(hist, clock, x, Captured(snaps[x], x))
      BY <3>1 DEF MatchInv, SnapshotsAgree
    <3> QED BY <1>1, <1>3, <1>4, <3>1, <3>2, AgreesStays
  <2>2. JudgedAgree'
    <3> SUFFICES ASSUME NEW p \in Proc, NEW x \in Session, pc'[p] = "snapshot",
                        job'[p].session = x, Alone(p, x), Prepared(p)'.wk # Nil
                 PROVE  Agrees(hist', clock', x, Prepared(p)')
      BY <1>4, <1>j
    <3>1. Prepared(p)' = Prepared(p) /\ pc[p] = "snapshot" /\ job[p].session = x
      BY <1>4 DEF Prepared
    <3>2. Agrees(hist, clock, x, Prepared(p))
      BY <3>1 DEF MatchInv, JudgedAgree
    <3> QED BY <1>1, <1>3, <1>4, <3>1, <3>2, AgreesStays
  <2> QED BY <2>1, <2>2 DEF MatchInv
<1>5. CASE UNCHANGED vars
  BY <1>4, <1>5 DEF vars, MatchInv, JudgedAgree
<1>6. CASE Tick
  BY <1>4, <1>6 DEF Tick, MatchInv, JudgedAgree
<1>7. ASSUME NEW p \in Proc, Render(p) \/ PrepareAppend(p) \/ PrepareFails(p) PROVE MatchInv'
  <2>1. \E l \in {"prepare", "append", "unjudged"} : Goto(p, l)
    BY <1>7 DEF Render, PrepareAppend, PrepareFails
  <2>2. /\ hist' = hist /\ snaps' = snaps
        /\ \A q \in Proc \ {p} : job'[q] = job[q] /\ now'[q] = now[q]
    <3>1. CASE Render(p)
      BY <3>1, TypeInv, <1>1 DEF Render, TypeInv
    <3>2. CASE PrepareAppend(p) \/ PrepareFails(p)
      BY <3>2 DEF PrepareAppend, PrepareFails
    <3> QED BY <1>7, <3>1, <3>2
  <2>3. \A q \in Proc :
          /\ pc'[q] \in {"pruneSnapshots", "pruneHistory"} => q \in Pruners
          /\ pc'[q] = "snapshot" =>
               pc[q] = "snapshot" /\ job'[q] = job[q] /\ now'[q] = now[q]
    BY <1>1, <2>1, <2>2 DEF Goto, MatchInv, JudgedAgree
  <2> QED BY <1>4, <2>2, <2>3
<1>8. ASSUME NEW p \in Proc, Prune(p) \/ PruneSnapshots(p) PROVE MatchInv'
  <2>1. /\ hist' = hist /\ \A x \in Session : snaps'[x] \in {snaps[x], NoSnapshot}
        /\ pc' = [pc EXCEPT ![p] = pc'[p]] /\ pc'[p] \in {"pruneSnapshots", "pruneHistory"}
        /\ \A q \in Proc \ {p} : job'[q] = job[q] /\ now'[q] = now[q]
        /\ p \in Pruners
    BY <1>1, <1>8 DEF Prune, PruneSnapshots, Goto, MatchInv, JudgedAgree, TypeInv
  <2> QED BY <1>1, <1>4, <2>1 DEF MatchInv, JudgedAgree
<1>9. ASSUME NEW p \in Proc, GivesUp(p) \/ PruneEnds(p) PROVE MatchInv'
  <2>1. Exit(p) /\ UNCHANGED <<hist, snaps, clock>>
    BY <1>9 DEF GivesUp, PruneEnds
  <2>2. \A q \in Proc : pc'[q] # "idle" => pc'[q] = pc[q] /\ job'[q] = job[q] /\ now'[q] = now[q]
    BY <1>1, <2>1 DEF Exit, Goto
  <2> QED BY <1>4, <2>1, <2>2 DEF MatchInv, JudgedAgree
<1>10. ASSUME NEW p \in Proc, PrepareSnapshot(p) PROVE MatchInv'
  <2>1. /\ UNCHANGED <<hist, snaps, clock, local>> /\ ~ Appends(hist, Prepared(p))
        /\ pc[p] = "prepare" /\ pc' = [pc EXCEPT ![p] = "snapshot"]
    BY <1>10 DEF PrepareSnapshot, Goto
  <2>2. SnapshotsAgree'
    BY <1>s, <2>1 DEF MatchInv, SnapshotsAgree
  <2>3. ASSUME Prepared(p).wk # Nil
        PROVE  Agrees(hist, clock, job[p].session, Prepared(p))
    <3>1. Prepared(p).session = job[p].session
      BY DEF Prepared, PreparedRow
    <3> QED BY <2>1, <2>3, <3>1 DEF Appends, skip, Agrees
  <2>4. JudgedAgree'
    <3>1. \A q \in Proc : Prepared(q)' = Prepared(q)
      BY <2>1 DEF Prepared
    <3> QED BY <1>1, <1>j, <2>1, <2>3, <3>1 DEF MatchInv, JudgedAgree
  <2> QED BY <2>2, <2>4 DEF MatchInv
<1>11. ASSUME NEW p \in Proc, CaptureAndAppend(p) PROVE MatchInv'
  <2> DEFINE y == job[p].session
  <2>1. PICK s \in Rows :
          /\ hist' = hist \union {s} /\ \A u \in hist : u.id < s.id
          /\ s.r = Prepared(p) /\ s.r.session = y
    BY <1>11, Appended
  <2>2. /\ Upsert(p, TRUE) /\ Exit(p) /\ clock' = clock /\ Renders(p)
    BY <1>11 DEF CaptureAndAppend, Renders
  <2>3. y \in Session /\ p \in WindowsOf(y)
    BY <1>2, <2>2
  <2> HIDE DEF y
  <2>4. /\ snaps'[y] = [at |-> now[p], payload |-> job[p].payload, judged |-> TRUE]
        /\ \A x \in Session \ {y} : snaps'[x] = snaps[x]
    BY <2>2, <2>3 DEF Upsert, TypeInv, y
  <2>5. Captured(snaps'[y], y) = Prepared(p)
    BY <2>4 DEF Captured, Prepared, y
  <2>6. Agrees(hist', clock', y, Prepared(p))
    <3>1. hist' \in SUBSET Rows /\ \A v, u \in hist' : v.id = u.id => v = u
      BY <1>11, TypeNext DEF Next, TypeInv
    <3>2. s \in RowsOfSession(hist', y)
      BY <2>1 DEF RowsOfSession
    <3>3. \A u \in RowsOfSession(hist', y) : u.id <= s.id
      BY <2>1 DEF RowsOfSession, TypeInv, Rows
    <3>4. LastSessionRow(hist', y) = s
      BY <3>1, <3>2, <3>3, LastIs
    <3> QED BY <2>1, <3>2, <3>4 DEF Agrees
  <2>7. ASSUME NEW x \in Session \ {y}, NEW r, Agrees(hist, clock, x, r)
        PROVE  Agrees(hist', clock', x, r)
    BY <2>1, <2>2, <2>7, AgreesBeside
  <2>8. SnapshotsAgree'
    BY <1>s, <2>4, <2>5, <2>6, <2>7 DEF MatchInv, SnapshotsAgree
  <2>9. /\ pc'[p] = "idle"
        /\ \A q \in Proc \ {p} : pc'[q] = pc[q] /\ job'[q] = job[q] /\ now'[q] = now[q]
    BY <1>1, <2>2 DEF Exit, Goto
  <2>10. \A q \in Proc \ {p} : Prepared(q)' = Prepared(q)
    BY <2>9 DEF Prepared
  <2>11. \A q \in Proc \ {p} : ~ Alone(q, y)
    BY <1>1, <2>3
  <2>12. JudgedAgree'
    BY <1>j, <2>7, <2>9, <2>10, <2>11 DEF MatchInv, JudgedAgree
  <2> QED BY <2>8, <2>12 DEF MatchInv
<1>12. ASSUME NEW p \in Proc, PutSnapshot(p) PROVE MatchInv'
  <2> DEFINE y == job[p].session
  <2>1. /\ Upsert(p, pc[p] = "snapshot") /\ Exit(p) /\ UNCHANGED <<hist, clock>> /\ Renders(p)
    BY <1>12 DEF PutSnapshot, Renders
  <2>2. y \in Session /\ p \in WindowsOf(y)
    BY <1>2, <2>1
  <2> HIDE DEF y
  <2>3. /\ snaps'[y].at = now[p] /\ snaps'[y].payload = job[p].payload
        /\ snaps'[y].judged = (pc[p] = "snapshot")
        /\ \A x \in Session \ {y} : snaps'[x] = snaps[x]
    BY <2>1, <2>2 DEF Upsert, TypeInv, y
  <2>4. Captured(snaps'[y], y) = Prepared(p)
    BY <2>3 DEF Captured, Prepared, y
  <2>5. ASSUME pc[p] = "snapshot", Alone(p, y), Prepared(p).wk # Nil
        PROVE  Agrees(hist, clock, y, Prepared(p))
    BY <2>2, <2>5 DEF MatchInv, JudgedAgree, y
  <2>6. \A q \in Proc : Alone(q, y) => q = p
    BY <1>1, <2>2
  <2>7. SnapshotsAgree'
    BY <1>s, <2>1, <2>3, <2>4, <2>5, <2>6 DEF MatchInv, SnapshotsAgree
  <2>8. /\ pc'[p] = "idle"
        /\ \A q \in Proc \ {p} : pc'[q] = pc[q] /\ job'[q] = job[q] /\ now'[q] = now[q]
    BY <1>1, <2>1 DEF Exit, Goto
  <2>9. \A q \in Proc \ {p} : Prepared(q)' = Prepared(q)
    BY <2>8 DEF Prepared
  <2>10. JudgedAgree'
    BY <1>j, <2>1, <2>8, <2>9 DEF MatchInv, JudgedAgree
  <2> QED BY <2>7, <2>10 DEF MatchInv
<1>13. ASSUME NEW p \in Proc, PruneHistory(p) PROVE MatchInv'
  <2>1. snaps' = snaps /\ Exit(p)
    BY <1>13 DEF PruneHistory
  <2>2. ASSUME NEW q \in Proc, NEW x \in Session, Alone(q, x), NEW r, Agrees(hist, clock, x, r)
        PROVE  Agrees(hist', clock', x, r)
    BY <1>13, <2>2, PruneTakesAll DEF MatchInv
  <2>3. SnapshotsAgree'
    BY <1>s, <2>1, <2>2 DEF MatchInv, SnapshotsAgree
  <2>4. \A q \in Proc : pc'[q] # "idle" =>
          pc'[q] = pc[q] /\ job'[q] = job[q] /\ Prepared(q)' = Prepared(q)
    BY <1>1, <2>1 DEF Exit, Goto, Prepared
  <2>5. JudgedAgree'
    BY <1>j, <2>2, <2>4 DEF MatchInv, JudgedAgree
  <2> QED BY <2>3, <2>5 DEF MatchInv
<1> QED BY <1>5, <1>6, <1>7, <1>8, <1>9, <1>10, <1>11, <1>12, <1>13 DEF Next

\* Where one window renders a session its snapshot and its newest row agree.
THEOREM SnapshotsMatch == Spec => []SnapshotMatchesRow
<1>1. TypeInv /\ JobsFit /\ InOrder /\ MatchInv /\ [Next]_vars => MatchInv'
  BY MatchNext
<1>2. MatchInv => SnapshotMatchesRow
  BY OneWindow DEF MatchInv, SnapshotsAgree, SnapshotMatchesRow, Agrees, Captured
<1> QED BY <1>1, <1>2, MatchInit, OrderInvariant, PTL DEF Spec

-----------------------------------------------------------------------------
(***************************************************************************)
(* Rows that repeat one another.                                           *)
(***************************************************************************)
\* Sessions of one window: a row never repeats the one before it, nor does
\* the row that a render is about to append.
NextDoor(h) ==
  \A s, u \in h :
    /\ u.r.session = s.r.session /\ s.id < u.id
    /\ \A v \in h : v.r.session = s.r.session => ~ (s.id < v.id /\ v.id < u.id)
    /\ \E p \in Proc : Alone(p, u.r.session)
    => ~ skip(s.r, u.r)

Moved(h) ==
  \A p \in Proc :
    /\ pc[p] = "append" /\ Alone(p, job[p].session)
    /\ RowsOfSession(h, job[p].session) # {}
    => ~ skip(LastSessionRow(h, job[p].session).r, row[p])

RepeatInv == NextDoor(hist) /\ Moved(hist)

\* An append puts its row behind the last one, which it does not repeat.
LEMMA AppendIsMoved ==
  ASSUME TypeInv, JobsFit, RepeatInv, NEW p \in Proc, CaptureAndAppend(p)
  PROVE  RepeatInv'
<1>1. PICK n \in Rows :
        /\ hist' = hist \union {n} /\ \A u \in hist : u.id < n.id
        /\ n.r = Prepared(p) /\ n.r.session = job[p].session /\ p \in WindowsOf(n.r.session)
  BY Appended
<1>2. pc[p] = "append" /\ row[p] = n.r
  BY <1>1 DEF CaptureAndAppend, JobsFit
<1>3. /\ pc'[p] = "idle"
      /\ \A q \in Proc \ {p} : pc'[q] = pc[q] /\ job'[q] = job[q] /\ row'[q] = row[q]
  BY DEF CaptureAndAppend, Exit, Goto, TypeInv
<1>4. \A u \in hist : u.id \in Nat /\ u \in Rows
  BY Limits DEF TypeInv, Rows
<1>5. n.id \in Nat
  BY Limits DEF Rows
<1>6. \A q \in Proc : Alone(q, n.r.session) => q = p
  BY <1>1 DEF Alone
<1>7. ASSUME NEW s \in hist', NEW u \in hist',
             u.r.session = s.r.session, s.id < u.id,
             \A v \in hist' : v.r.session = s.r.session => ~ (s.id < v.id /\ v.id < u.id),
             NEW q \in Proc, Alone(q, u.r.session)
      PROVE  ~ skip(s.r, u.r)
  <2>1. s \in hist
    BY <1>1, <1>4, <1>5, <1>7
  <2>2. CASE u \in hist
    BY <1>1, <1>7, <2>1, <2>2 DEF RepeatInv, NextDoor
  <2>3. CASE u = n
    <3>1. s \in RowsOfSession(hist, n.r.session)
      BY <1>7, <2>1, <2>3 DEF RowsOfSession
    <3>2. \A v \in RowsOfSession(hist, n.r.session) : v.id <= s.id
      BY <1>1, <1>4, <1>7, <2>1, <2>3 DEF RowsOfSession
    <3>3. LastSessionRow(hist, n.r.session) = s
      BY <3>1, <3>2, LastIs DEF TypeInv
    <3>4. Alone(p, job[p].session)
      BY <1>1, <1>6, <1>7, <2>3
    <3>5. RowsOfSession(hist, job[p].session) # {}
      BY <1>1, <3>1
    <3>6. ~ skip(LastSessionRow(hist, job[p].session).r, row[p])
      BY <1>2, <3>4, <3>5 DEF RepeatInv, Moved
    <3> QED BY <1>1, <1>2, <2>3, <3>3, <3>6
  <2> QED BY <1>1, <2>2, <2>3
<1>8. NextDoor(hist')
  BY <1>7 DEF NextDoor
<1>9. ASSUME NEW q \in Proc, pc'[q] = "append", Alone(q, job'[q].session),
             RowsOfSession(hist', job'[q].session) # {}
      PROVE  ~ skip(LastSessionRow(hist', job'[q].session).r, row'[q])
  <2> DEFINE x == job[q].session
  <2>1. q # p /\ pc[q] = "append" /\ job'[q].session = x /\ row'[q] = row[q]
    BY <1>3, <1>9
  <2>2. n.r.session # x
    BY <1>6, <1>9, <2>1
  <2>3. RowsOfSession(hist', x) = RowsOfSession(hist, x)
    BY <1>1, <2>2 DEF RowsOfSession
  <2>4. LastSessionRow(hist', x) = LastSessionRow(hist, x)
    BY <2>3 DEF LastSessionRow
  <2>5. ~ skip(LastSessionRow(hist, x).r, row[q])
    BY <1>9, <2>1, <2>3 DEF RepeatInv, Moved
  <2> QED BY <2>1, <2>4, <2>5
<1>10. Moved(hist)'
  BY <1>9 DEF Moved, Alone, WindowsOf
<1>11. NextDoor(hist)'
  BY <1>8 DEF NextDoor, Alone, WindowsOf
<1> QED BY <1>10, <1>11 DEF RepeatInv

\* A prune takes the first rows of such a session: what stays next to each
\* other was so before, and the last row is the last of what stays.
LEMMA PruneKeepsMoved ==
  ASSUME TypeInv, JobsFit, InOrder, RepeatInv, NEW p \in Proc, PruneHistory(p)
  PROVE  RepeatInv'
<1> DEFINE Old(s) == s.r.t < now[p] - KeepHistory
<1>1. hist' = {s \in hist : ~ Old(s)}
  BY DEF PruneHistory
<1>2. /\ now[p] \in Nat /\ KeepHistory \in Nat
      /\ \A s \in hist : s.r.t \in Nat /\ s.id \in Nat
  BY Limits DEF TypeInv, Rows, RowType
<1>3. ASSUME NEW s \in hist, NEW u \in hist, NEW q \in Proc, Alone(q, s.r.session),
             u.r.session = s.r.session, s.id <= u.id, s \in hist'
      PROVE  u \in hist'
  <2>1. CASE s.id = u.id
    BY <1>3, <2>1 DEF TypeInv
  <2>2. CASE s.id < u.id
    <3>1. s.r.t <= u.r.t
      BY <1>3, <2>2 DEF InOrder
    <3> QED BY <1>1, <1>2, <1>3, <3>1
  <2> QED BY <1>2, <1>3, <2>1, <2>2
<1>4. ASSUME NEW s \in hist', NEW u \in hist',
             u.r.session = s.r.session, s.id < u.id,
             \A v \in hist' : v.r.session = s.r.session => ~ (s.id < v.id /\ v.id < u.id),
             NEW q \in Proc, Alone(q, u.r.session)
      PROVE  ~ skip(s.r, u.r)
  <2>1. s \in hist /\ u \in hist
    BY <1>1
  <2>2. \A v \in hist : v.r.session = s.r.session => ~ (s.id < v.id /\ v.id < u.id)
    <3> SUFFICES ASSUME NEW v \in hist, v.r.session = s.r.session, s.id < v.id, v.id < u.id
                 PROVE  FALSE
      OBVIOUS
    <3>1. s.id <= v.id
      BY <1>2, <2>1
    <3>2. v \in hist'
      BY <1>3, <1>4, <2>1, <3>1
    <3> QED BY <1>4, <3>2
  <2> QED BY <1>4, <2>1, <2>2 DEF RepeatInv, NextDoor
<1>5. /\ pc'[p] = "idle"
      /\ \A q \in Proc \ {p} : pc'[q] = pc[q] /\ job'[q] = job[q] /\ row'[q] = row[q]
  BY DEF PruneHistory, Exit, Goto, TypeInv
<1>6. ASSUME NEW q \in Proc, pc'[q] = "append", Alone(q, job'[q].session),
             RowsOfSession(hist', job'[q].session) # {}
      PROVE  ~ skip(LastSessionRow(hist', job'[q].session).r, row'[q])
  <2> DEFINE x == job[q].session
             l == LastSessionRow(hist, x)
  <2>1. q # p /\ pc[q] = "append" /\ job'[q].session = x /\ row'[q] = row[q]
    BY <1>5, <1>6
  <2>2. PICK s \in RowsOfSession(hist', x) : TRUE
    BY <1>6, <2>1
  <2>3. s \in hist' /\ s \in hist /\ s.r.session = x /\ s \in RowsOfSession(hist, x)
    BY <1>1 DEF RowsOfSession
  <2>4. l \in RowsOfSession(hist, x) /\ \A u \in RowsOfSession(hist, x) : u.id <= l.id
    BY <2>3, LastRow DEF TypeInv
  <2>5. ~ skip(l.r, row[q])
    BY <1>6, <2>1, <2>3 DEF RepeatInv, Moved
  <2> HIDE DEF l
  <2>6. l \in hist /\ l.r.session = x /\ s.id <= l.id
    BY <2>3, <2>4 DEF RowsOfSession
  <2>7. l \in hist'
    BY <1>3, <1>6, <2>1, <2>3, <2>6
  <2>8. l \in RowsOfSession(hist', x) /\ \A u \in RowsOfSession(hist', x) : u.id <= l.id
    BY <1>1, <2>4, <2>6, <2>7 DEF RowsOfSession
  <2>9. hist' \in SUBSET Rows /\ \A v, u \in hist' : v.id = u.id => v = u
    BY <1>1 DEF TypeInv
  <2>10. LastSessionRow(hist', x) = l
    BY <2>8, <2>9, LastIs
  <2> QED BY <2>1, <2>5, <2>10
<1>7. Moved(hist)'
  BY <1>6 DEF Moved, Alone, WindowsOf
<1>8. NextDoor(hist)'
  BY <1>4 DEF NextDoor, Alone, WindowsOf
<1> QED BY <1>7, <1>8 DEF RepeatInv

LEMMA RepeatNext ==
  ASSUME TypeInv, JobsFit, InOrder, RepeatInv, [Next]_vars
  PROVE  RepeatInv'
<1> USE DEF local
<1>1. ASSUME hist' = hist,
             \A q \in Proc : pc'[q] = "append" =>
               pc[q] = "append" /\ job'[q] = job[q] /\ row'[q] = row[q]
      PROVE  RepeatInv'
  BY <1>1 DEF RepeatInv, NextDoor, Moved, Alone, WindowsOf
<1>2. CASE UNCHANGED vars
  BY <1>1, <1>2 DEF vars
<1>3. CASE Tick
  BY <1>1, <1>3 DEF Tick
<1>4. ASSUME NEW p \in Proc,
             \/ Render(p) \/ PrepareSnapshot(p) \/ PrepareFails(p) \/ PutSnapshot(p)
             \/ GivesUp(p) \/ Prune(p) \/ PruneSnapshots(p) \/ PruneEnds(p)
      PROVE  RepeatInv'
  <2>1. hist' = hist
    BY <1>4 DEF Render, PrepareSnapshot, PrepareFails, PutSnapshot, GivesUp, Prune,
                PruneSnapshots, PruneEnds
  <2>2. CASE Render(p) \/ PrepareSnapshot(p) \/ PrepareFails(p) \/ Prune(p) \/ PruneSnapshots(p)
    <3>1. \A q \in Proc : pc'[q] = "append" =>
            pc[q] = "append" /\ job'[q] = job[q] /\ row'[q] = row[q]
      BY <2>2 DEF Render, PrepareSnapshot, PrepareFails, Prune, PruneSnapshots, Goto, TypeInv
    <3> QED BY <1>1, <2>1, <3>1
  <2>3. CASE PutSnapshot(p) \/ GivesUp(p) \/ PruneEnds(p)
    <3>1. Exit(p)
      BY <2>3 DEF PutSnapshot, GivesUp, PruneEnds
    <3>2. \A q \in Proc : pc'[q] = "append" =>
            pc[q] = "append" /\ job'[q] = job[q] /\ row'[q] = row[q]
      BY <3>1 DEF Exit, Goto, TypeInv
    <3> QED BY <1>1, <2>1, <3>2
  <2> QED BY <1>4, <2>2, <2>3
<1>5. ASSUME NEW p \in Proc, PrepareAppend(p) PROVE RepeatInv'
  <2>1. /\ pc[p] = "prepare" /\ row'[p] = Prepared(p) /\ Appends(hist, Prepared(p))
        /\ hist' = hist /\ job' = job
        /\ \A q \in Proc \ {p} : pc'[q] = pc[q] /\ row'[q] = row[q]
    BY <1>5 DEF PrepareAppend, Goto, TypeInv
  <2>2. Prepared(p).session = job[p].session
    BY DEF Prepared, PreparedRow
  <2>3. RowsOfSession(hist, job[p].session) # {}
          => ~ skip(LastSessionRow(hist, job[p].session).r, row'[p])
    BY <2>1, <2>2 DEF Appends
  <2>4. Moved(hist)'
    BY <2>1, <2>3 DEF Moved, RepeatInv, Alone, WindowsOf
  <2>5. NextDoor(hist)'
    BY <2>1 DEF NextDoor, RepeatInv, Alone, WindowsOf
  <2> QED BY <2>4, <2>5 DEF RepeatInv
<1>6. ASSUME NEW p \in Proc, CaptureAndAppend(p) PROVE RepeatInv'
  BY <1>6, AppendIsMoved
<1>7. ASSUME NEW p \in Proc, PruneHistory(p) PROVE RepeatInv'
  BY <1>7, PruneKeepsMoved
<1> QED BY <1>2, <1>3, <1>4, <1>5, <1>6, <1>7 DEF Next

(***************************************************************************)
(* Sessions of several windows: how many rows in a row may say the same.   *)
(***************************************************************************)
Alike(r, q) == r.wk = q.wk /\ r.wkReset = q.wkReset /\ r.ses = q.ses

\* SameUpTo of a given table.
SameIn(h, s) ==
  {u \in RowsOfSession(h, s.r.session) :
     /\ u.id <= s.id
     /\ \A v \in RowsOfSession(h, s.r.session) :
          v.id <= s.id /\ v.id >= u.id => Alike(v.r, s.r)}

LEMMA SameUpToIs == ASSUME NEW s \in hist PROVE SameUpTo(s) = SameIn(hist, s)
BY DEF SameUpTo, SameIn, Alike

\* The windows that are about to append a row that says what r says.
Pending(r) ==
  {p \in Proc : pc[p] = "append" /\ row[p].session = r.session /\ Alike(row[p], r)}

LEMMA SameStays ==
  ASSUME NEW h \in SUBSET Rows, NEW n \in Rows, \A u \in h : u.id < n.id, NEW s \in h
  PROVE  SameIn(h \union {n}, s) = SameIn(h, s)
<1>1. n.id \in Nat /\ \A u \in h : u.id \in Nat
  BY Limits DEF Rows
<1>2. ~ (n.id <= s.id)
  BY <1>1
<1> QED BY <1>2 DEF SameIn, RowsOfSession

\* A new row goes on with what the last one says, or begins anew.
LEMMA SameGoesOn ==
  ASSUME NEW h \in SUBSET Rows, NEW n \in Rows, \A u \in h : u.id < n.id,
         NEW l \in RowsOfSession(h, n.r.session),
         \A u \in RowsOfSession(h, n.r.session) : u.id <= l.id,
         Alike(l.r, n.r)
  PROVE  SameIn(h \union {n}, n) = SameIn(h, l) \union {n}
<1>1. n.id \in Nat /\ \A u \in h : u.id \in Nat
  BY Limits DEF Rows
<1>2. l \in h /\ l.r.session = n.r.session
  BY DEF RowsOfSession
<1>3. RowsOfSession(h \union {n}, n.r.session) = RowsOfSession(h, n.r.session) \union {n}
  BY DEF RowsOfSession
<1>4. \A u \in RowsOfSession(h, n.r.session) : u \in h /\ u.id <= l.id /\ u.id < n.id
  BY DEF RowsOfSession
<1>5. \A v : Alike(v.r, n.r) <=> Alike(v.r, l.r)
  BY DEF Alike
<1>6. SameIn(h, l) =
        {u \in RowsOfSession(h, n.r.session) :
           \A v \in RowsOfSession(h, n.r.session) : v.id >= u.id => Alike(v.r, n.r)}
  BY <1>2, <1>4, <1>5 DEF SameIn
<1>7. Alike(n.r, n.r) /\ n.id <= n.id /\ n.id >= n.id
  BY <1>1 DEF Alike
<1>8. \A u \in RowsOfSession(h, n.r.session) : u.id <= n.id /\ ~ (u.id >= n.id)
  BY <1>1, <1>4
<1> QED BY <1>3, <1>6, <1>7, <1>8 DEF SameIn

LEMMA SameBegins ==
  ASSUME NEW h \in SUBSET Rows, NEW n \in Rows, \A u \in h : u.id < n.id,
         \A l \in RowsOfSession(h, n.r.session) :
           (\A u \in RowsOfSession(h, n.r.session) : u.id <= l.id) => ~ Alike(l.r, n.r),
         RowsOfSession(h, n.r.session) # {} =>
           \E l \in RowsOfSession(h, n.r.session) :
             \A u \in RowsOfSession(h, n.r.session) : u.id <= l.id
  PROVE  SameIn(h \union {n}, n) = {n}
<1>1. n.id \in Nat /\ \A u \in h : u.id \in Nat
  BY Limits DEF Rows
<1>3. RowsOfSession(h \union {n}, n.r.session) = RowsOfSession(h, n.r.session) \union {n}
  BY DEF RowsOfSession
<1>4. \A u \in RowsOfSession(h, n.r.session) : u \in h /\ u.id < n.id /\ u.id \in Nat
  BY <1>1 DEF RowsOfSession
<1>7. Alike(n.r, n.r) /\ n.id <= n.id /\ n.id >= n.id
  BY <1>1 DEF Alike
<1>8. ASSUME NEW u \in RowsOfSession(h, n.r.session) PROVE u \notin SameIn(h \union {n}, n)
  <2>1. PICK l \in RowsOfSession(h, n.r.session) :
          \A v \in RowsOfSession(h, n.r.session) : v.id <= l.id
    BY <1>8
  <2>2. ~ Alike(l.r, n.r) /\ l.id <= n.id /\ l.id >= u.id
    BY <1>1, <1>4, <2>1
  <2> QED BY <1>3, <2>2 DEF SameIn
<1>9. n \in SameIn(h \union {n}, n)
  <2>1. \A u \in RowsOfSession(h, n.r.session) : ~ (u.id >= n.id)
    BY <1>1, <1>4
  <2> QED BY <1>3, <1>7, <2>1 DEF SameIn
<1>10. SameIn(h \union {n}, n) \subseteq RowsOfSession(h, n.r.session) \union {n}
  BY <1>3 DEF SameIn
<1> QED BY <1>8, <1>9, <1>10

\* s is the last row of its session.
IsLast(h, s) == \A u \in RowsOfSession(h, s.r.session) : u.id <= s.id

\* Each window of a session has added one row at most to those that say the
\* same, and to the last of them may add one more only if it has added none.
CountInv ==
  /\ IsFiniteSet(hist)
  /\ Whole =>
       \A s \in hist :
         /\ Cardinality(SameIn(hist, s)) <= Cardinality(WindowsOf(s.r.session))
         /\ IsLast(hist, s) =>
              Cardinality(SameIn(hist, s)) + Cardinality(Pending(s.r))
                <= Cardinality(WindowsOf(s.r.session))

LEMMA Finite ==
  ASSUME CountInv
  PROVE  /\ \A x : IsFiniteSet(WindowsOf(x)) /\ Cardinality(WindowsOf(x)) \in Nat
         /\ \A r : IsFiniteSet(Pending(r)) /\ Cardinality(Pending(r)) \in Nat
         /\ \A s : IsFiniteSet(SameIn(hist, s)) /\ Cardinality(SameIn(hist, s)) \in Nat
<1>1. \A x : IsFiniteSet(WindowsOf(x))
  BY CaptureAssumption, FS_Subset DEF WindowsOf
<1>2. \A r : IsFiniteSet(Pending(r))
  BY CaptureAssumption, FS_Subset DEF Pending
<1>3. \A s : IsFiniteSet(SameIn(hist, s))
  <2>1. \A s : SameIn(hist, s) \subseteq hist
    BY DEF SameIn, RowsOfSession
  <2> QED BY <2>1, FS_Subset DEF CountInv
<1> QED BY <1>1, <1>2, <1>3, FS_CardinalityType

LEMMA PendingFits ==
  ASSUME TypeInv, JobsFit, NEW r PROVE Pending(r) \subseteq WindowsOf(r.session)
<1> SUFFICES ASSUME NEW p \in Pending(r) PROVE p \in WindowsOf(r.session)
  OBVIOUS
<1>1. p \in Proc /\ pc[p] = "append" /\ row[p].session = r.session
  BY DEF Pending
<1>2. job[p].session \in SessionsOf[p] /\ row[p] = Prepared(p)
  BY <1>1 DEF JobsFit, Renders
<1>3. row[p].session = job[p].session
  BY <1>2 DEF Prepared, PreparedRow
<1> QED BY <1>1, <1>2, <1>3 DEF WindowsOf

\* A step that adds no row and no window that waits to repeat a last one.
LEMMA CountStays ==
  ASSUME CountInv, hist' = hist, Whole' => Whole,
         \A s \in hist : IsLast(hist, s) => Pending(s.r)' \subseteq Pending(s.r)
  PROVE  CountInv'
<1>1. IsFiniteSet(hist')
  BY DEF CountInv
<1>2. ASSUME Whole', NEW s \in hist'
      PROVE  /\ Cardinality(SameIn(hist', s)) <= Cardinality(WindowsOf(s.r.session))
             /\ IsLast(hist', s) =>
                  Cardinality(SameIn(hist', s)) + Cardinality(Pending(s.r)')
                    <= Cardinality(WindowsOf(s.r.session))
  <2>1. /\ Cardinality(SameIn(hist, s)) <= Cardinality(WindowsOf(s.r.session))
        /\ IsLast(hist, s) =>
             Cardinality(SameIn(hist, s)) + Cardinality(Pending(s.r))
               <= Cardinality(WindowsOf(s.r.session))
    BY <1>2 DEF CountInv
  <2>2. ASSUME IsLast(hist, s)
        PROVE  Cardinality(Pending(s.r)') <= Cardinality(Pending(s.r)) /\ Cardinality(Pending(s.r)') \in Nat
    <3>1. Pending(s.r)' \subseteq Pending(s.r)
      BY <1>2, <2>2
    <3>2. IsFiniteSet(Pending(s.r))
      BY Finite
    <3> QED BY <3>1, <3>2, FS_Subset, FS_CardinalityType
  <2>3. /\ Cardinality(WindowsOf(s.r.session)) \in Nat /\ Cardinality(Pending(s.r)) \in Nat
        /\ Cardinality(SameIn(hist, s)) \in Nat
    BY Finite
  <2>4. ASSUME IsLast(hist, s)
        PROVE  Cardinality(SameIn(hist, s)) + Cardinality(Pending(s.r)')
                 <= Cardinality(WindowsOf(s.r.session))
    BY <2>1, <2>2, <2>3, <2>4
  <2> QED BY <2>1, <2>4
<1> QED BY <1>1, <1>2 DEF CountInv, SameIn, IsLast, WindowsOf

\* An append: one row more and one that waits less; a row that begins anew
\* leaves room for all other windows.
LEMMA CountAppend ==
  ASSUME TypeInv, JobsFit, CountInv, NEW p \in Proc, CaptureAndAppend(p)
  PROVE  CountInv'
<1>1. PICK n \in Rows :
        /\ hist' = hist \union {n} /\ \A u \in hist : u.id < n.id
        /\ n.r = Prepared(p) /\ p \in WindowsOf(n.r.session)
  BY Appended
<1>2. pc[p] = "append" /\ row[p] = n.r
  BY <1>1 DEF CaptureAndAppend, JobsFit
<1>3. /\ pc'[p] = "idle"
      /\ \A q \in Proc \ {p} : pc'[q] = pc[q] /\ row'[q] = row[q]
  BY DEF CaptureAndAppend, Exit, Goto, TypeInv
<1>4. \A r : Pending(r)' = Pending(r) \ {p}
  BY <1>3 DEF Pending
<1>5. p \in Pending(n.r)
  BY <1>2 DEF Pending, Alike
<1>6. IsFiniteSet(hist')
  BY <1>1, FS_AddElement DEF CountInv
<1>7. Whole' => Whole
  BY DEF Whole, CaptureAndAppend
<1>8. n.id \in Nat /\ hist \in SUBSET Rows /\ \A u \in hist : u.id \in Nat
  BY Limits DEF TypeInv, Rows
<1>9. n \notin hist
  BY <1>1, <1>8
<1> DEFINE W == Cardinality(WindowsOf(n.r.session))
           P == Cardinality(Pending(n.r))
<1>10. W \in Nat /\ P \in Nat /\ P <= W
  BY Finite, PendingFits, FS_Subset
<1>11. Cardinality(Pending(n.r)') = P - 1 /\ P - 1 \in Nat
  <2>1. Cardinality(Pending(n.r) \ {p}) = P - 1
    BY <1>5, Finite, FS_RemoveElement
  <2>2. Cardinality(Pending(n.r) \ {p}) \in Nat
    BY Finite, FS_Subset, FS_CardinalityType
  <2> QED BY <1>4, <2>1, <2>2
<1>12. ASSUME Whole'
       PROVE  /\ Cardinality(SameIn(hist', n)) <= W
              /\ Cardinality(SameIn(hist', n)) + Cardinality(Pending(n.r)') <= W
  <2>1. CASE \E l \in RowsOfSession(hist, n.r.session) :
               IsLast(hist, l) /\ Alike(l.r, n.r)
    <3>1. PICK l \in RowsOfSession(hist, n.r.session) :
            IsLast(hist, l) /\ Alike(l.r, n.r)
      BY <2>1
    <3>2. l \in hist /\ l.r.session = n.r.session
      BY DEF RowsOfSession
    <3>3. SameIn(hist', n) = SameIn(hist, l) \union {n}
      BY <1>1, <1>8, <3>1, <3>2, SameGoesOn DEF IsLast
    <3>4. n \notin SameIn(hist, l)
      BY <1>9 DEF SameIn, RowsOfSession
    <3> DEFINE S == Cardinality(SameIn(hist, l))
    <3>5. Cardinality(SameIn(hist', n)) = S + 1 /\ S \in Nat
      BY <3>3, <3>4, Finite, FS_AddElement
    <3>6. Pending(l.r) = Pending(n.r)
      BY <3>1, <3>2 DEF Pending, Alike
    <3>7. S + P <= W
      BY <1>7, <1>12, <3>1, <3>2, <3>6 DEF CountInv
    <3> HIDE DEF S, P, W
    <3> QED BY <1>10, <1>11, <3>5, <3>7
  <2>2. CASE ~ \E l \in RowsOfSession(hist, n.r.session) :
               IsLast(hist, l) /\ Alike(l.r, n.r)
    <3>1. ASSUME NEW l \in RowsOfSession(hist, n.r.session),
                 \A u \in RowsOfSession(hist, n.r.session) : u.id <= l.id
          PROVE  ~ Alike(l.r, n.r)
      <4>1. l.r.session = n.r.session
        BY DEF RowsOfSession
      <4> QED BY <2>2, <3>1, <4>1 DEF IsLast
    <3>2. RowsOfSession(hist, n.r.session) # {} =>
            \E l \in RowsOfSession(hist, n.r.session) :
              \A u \in RowsOfSession(hist, n.r.session) : u.id <= l.id
      BY <1>8, LastRow
    <3>3. SameIn(hist', n) = {n}
      BY <1>1, <1>8, <3>1, <3>2, SameBegins
    <3>4. Cardinality(SameIn(hist', n)) = 1
      BY <3>3, FS_Singleton
    <3> HIDE DEF P, W
    <3> QED BY <1>10, <1>11, <3>4
  <2> QED BY <2>1, <2>2
<1>13. ASSUME Whole', NEW s \in hist
       PROVE  /\ Cardinality(SameIn(hist', s)) <= Cardinality(WindowsOf(s.r.session))
              /\ IsLast(hist', s) =>
                   Cardinality(SameIn(hist', s)) + Cardinality(Pending(s.r)')
                     <= Cardinality(WindowsOf(s.r.session))
  <2>1. SameIn(hist', s) = SameIn(hist, s)
    BY <1>1, <1>8, SameStays
  <2>2. Cardinality(SameIn(hist, s)) <= Cardinality(WindowsOf(s.r.session))
    BY <1>7, <1>13 DEF CountInv
  <2>3. ASSUME IsLast(hist', s)
        PROVE  Cardinality(SameIn(hist', s)) + Cardinality(Pending(s.r)')
                 <= Cardinality(WindowsOf(s.r.session))
    <3>1. s.r.session # n.r.session
      <4>1. s.id < n.id
        BY <1>1
      <4>2. ~ (n.id <= s.id)
        BY <1>8, <4>1
      <4> QED BY <1>1, <2>3, <4>2 DEF IsLast, RowsOfSession
    <3>2. IsLast(hist, s)
      BY <1>1, <2>3 DEF IsLast, RowsOfSession
    <3>3. p \notin Pending(s.r)
      BY <1>2, <3>1 DEF Pending
    <3>4. Pending(s.r)' = Pending(s.r)
      BY <1>4, <3>3
    <3>5. Cardinality(SameIn(hist, s)) + Cardinality(Pending(s.r))
            <= Cardinality(WindowsOf(s.r.session))
      BY <1>7, <1>13, <3>2 DEF CountInv
    <3> QED BY <2>1, <3>4, <3>5
  <2> QED BY <2>1, <2>2, <2>3
<1>14. ASSUME Whole', NEW s \in hist'
       PROVE  /\ Cardinality(SameIn(hist', s)) <= Cardinality(WindowsOf(s.r.session))
              /\ IsLast(hist', s) =>
                   Cardinality(SameIn(hist', s)) + Cardinality(Pending(s.r)')
                     <= Cardinality(WindowsOf(s.r.session))
  BY <1>1, <1>12, <1>13, <1>14
<1> QED BY <1>6, <1>14 DEF CountInv, SameIn, IsLast, WindowsOf

\* A row that would repeat the last one is dropped, so it never waits.
LEMMA CountPrepare ==
  ASSUME TypeInv, CountInv, NEW p \in Proc, PrepareAppend(p)
  PROVE  CountInv'
<1>1. /\ pc[p] = "prepare" /\ row'[p] = Prepared(p) /\ Appends(hist, Prepared(p))
      /\ hist' = hist /\ clock' = clock
      /\ \A q \in Proc \ {p} : pc'[q] = pc[q] /\ row'[q] = row[q]
  BY DEF PrepareAppend, Goto, TypeInv
<1>2. Whole' => Whole
  BY <1>1 DEF Whole
<1>3. ASSUME NEW s \in hist, IsLast(hist, s) PROVE Pending(s.r)' \subseteq Pending(s.r)
  <2>1. ASSUME Prepared(p).session = s.r.session, Alike(Prepared(p), s.r) PROVE FALSE
    <3>1. s \in RowsOfSession(hist, s.r.session)
      BY DEF RowsOfSession
    <3>2. LastSessionRow(hist, s.r.session) = s
      BY <1>3, <3>1, LastIs DEF IsLast, TypeInv
    <3>3. ~ skip(s.r, Prepared(p))
      BY <1>1, <2>1, <3>1, <3>2 DEF Appends
    <3> QED BY <2>1, <3>3 DEF skip, Alike
  <2> QED BY <1>1, <2>1 DEF Pending
<1> QED BY <1>1, <1>2, <1>3, CountStays

LEMMA CountNext ==
  ASSUME TypeInv, JobsFit, JudgedAgree, CountInv, [Next]_vars
  PROVE  CountInv'
<1> USE DEF local
<1>1. Whole' => Whole
  BY RenderSteps, TypeNext, Limits DEF Whole, TypeInv
<1>2. ASSUME hist' = hist,
             \A q \in Proc : pc'[q] = "append" => pc[q] = "append" /\ row'[q] = row[q]
      PROVE  CountInv'
  <2>1. \A s \in hist : Pending(s.r)' \subseteq Pending(s.r)
    BY <1>2 DEF Pending
  <2> QED BY <1>1, <1>2, <2>1, CountStays
<1>3. CASE UNCHANGED vars
  BY <1>2, <1>3 DEF vars
<1>4. CASE Tick
  BY <1>2, <1>4 DEF Tick
<1>5. ASSUME NEW p \in Proc,
             \/ Render(p) \/ PrepareSnapshot(p) \/ PrepareFails(p) \/ PutSnapshot(p)
             \/ GivesUp(p) \/ Prune(p) \/ PruneSnapshots(p) \/ PruneEnds(p)
      PROVE  CountInv'
  <2>1. hist' = hist
    BY <1>5 DEF Render, PrepareSnapshot, PrepareFails, PutSnapshot, GivesUp, Prune,
                PruneSnapshots, PruneEnds
  <2>2. CASE Render(p) \/ PrepareSnapshot(p) \/ PrepareFails(p) \/ Prune(p) \/ PruneSnapshots(p)
    <3>1. \A q \in Proc : pc'[q] = "append" => pc[q] = "append" /\ row'[q] = row[q]
      BY <2>2 DEF Render, PrepareSnapshot, PrepareFails, Prune, PruneSnapshots, Goto, TypeInv
    <3> QED BY <1>2, <2>1, <3>1
  <2>3. CASE PutSnapshot(p) \/ GivesUp(p) \/ PruneEnds(p)
    <3>1. Exit(p)
      BY <2>3 DEF PutSnapshot, GivesUp, PruneEnds
    <3>2. \A q \in Proc : pc'[q] = "append" => pc[q] = "append" /\ row'[q] = row[q]
      BY <3>1 DEF Exit, Goto, TypeInv
    <3> QED BY <1>2, <2>1, <3>2
  <2> QED BY <1>5, <2>2, <2>3
<1>6. ASSUME NEW p \in Proc, PrepareAppend(p) PROVE CountInv'
  BY <1>6, CountPrepare
<1>7. ASSUME NEW p \in Proc, CaptureAndAppend(p) PROVE CountInv'
  BY <1>7, CountAppend
<1>8. ASSUME NEW p \in Proc, PruneHistory(p) PROVE CountInv'
  <2>1. /\ pc[p] = "pruneHistory" /\ KeepHistory > 0 /\ clock' = clock /\ Exit(p)
        /\ hist' = {s \in hist : ~ (s.r.t < now[p] - KeepHistory)}
    BY <1>8 DEF PruneHistory
  <2>2. CASE Whole
    <3>1. clock <= KeepHistory
      BY <2>1, <2>2, Limits DEF Whole, JudgedAgree
    <3>2. \A s \in hist : ~ (s.r.t < now[p] - KeepHistory)
      <4>1. now[p] <= clock /\ now[p] \in Nat /\ clock \in Nat
            /\ \A s \in hist : s.r.t \in Nat
        BY Limits DEF JobsFit, TypeInv, Rows, RowType
      <4> QED BY <3>1, <4>1, Limits
    <3>3. hist' = hist
      BY <2>1, <3>2
    <3>4. \A q \in Proc : pc'[q] = "append" => pc[q] = "append" /\ row'[q] = row[q]
      BY <2>1 DEF Exit, Goto, TypeInv
    <3> QED BY <1>2, <3>3, <3>4
  <2>3. CASE ~ Whole
    <3>1. hist' \in SUBSET hist
      BY <2>1
    <3>2. IsFiniteSet(hist')
      BY <3>1, FS_Subset DEF CountInv
    <3> QED BY <1>1, <2>3, <3>2 DEF CountInv
  <2> QED BY <2>2, <2>3
<1> QED BY <1>3, <1>4, <1>5, <1>6, <1>7, <1>8 DEF Next

\* The history holds no row that dedup and throttle should have dropped, also
\* after a prune; the windows that share a session log a reading once each.
THEOREM NoRepeats == Spec => []NoRepeatedRow
<1>1. Init => RepeatInv /\ CountInv /\ InOrder /\ MatchInv
  <2>1. Init => RepeatInv /\ InOrder
    BY DEF Init, RepeatInv, NextDoor, Moved, InOrder
  <2>2. Init => CountInv
    BY FS_EmptySet DEF Init, CountInv
  <2> QED BY <2>1, <2>2, MatchInit
<1>2. TypeInv /\ JobsFit /\ InOrder /\ MatchInv /\ RepeatInv /\ CountInv /\ [Next]_vars
        => InOrder' /\ MatchInv' /\ RepeatInv' /\ CountInv'
  BY InOrderNext, MatchNext, RepeatNext, CountNext DEF MatchInv
<1>3. RepeatInv /\ CountInv => NoRepeatedRow
  <2> SUFFICES ASSUME RepeatInv, CountInv PROVE NoRepeatedRow
    OBVIOUS
  <2>1. ASSUME NEW s \in hist, NEW u \in hist,
               Follows(u, s), Cardinality(WindowsOf(u.r.session)) = 1
        PROVE  ~ skip(s.r, u.r)
    <3>1. \E p \in Proc : Alone(p, u.r.session)
      BY <2>1, OneWindow
    <3> QED BY <2>1, <3>1 DEF RepeatInv, NextDoor, Follows
  <2>2. ASSUME Whole, NEW s \in hist
        PROVE  Cardinality(SameUpTo(s)) <= Cardinality(WindowsOf(s.r.session))
    <3>1. Cardinality(SameIn(hist, s)) <= Cardinality(WindowsOf(s.r.session))
      BY <2>2 DEF CountInv
    <3> QED BY <3>1, SameUpToIs
  <2> QED BY <2>1, <2>2 DEF NoRepeatedRow
<1> QED BY <1>1, <1>2, <1>3, TypeInvariant, PTL DEF Spec

=============================================================================
