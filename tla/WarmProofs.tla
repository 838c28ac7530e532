----------------------------- MODULE WarmProofs -----------------------------
(***************************************************************************)
(* What holds of Warm for every number of processes, for all periods, and  *)
(* however long the processes live.                                        *)
(***************************************************************************)
EXTENDS Warm, TLAPS

\* The constants, each by itself.
LEMMA Bounds == /\ Ttl \in Nat /\ Ttl > 0 /\ BlocksTtl \in Nat /\ BlocksTtl > 0
                /\ MarkerSecs \in Nat /\ MarkerSecs > 0
                /\ BackupSecs \in Nat /\ BackupSecs > 0
                /\ MaxLife \in Nat /\ MaxFailures \in Nat
                /\ None \notin Int
BY WarmAssumption

\* An age stays within the range that is told apart.
LEMMA OlderType ==
  ASSUME NEW limit \in Nat, NEW a \in Age(limit) \union {None}
  PROVE  Older(a, limit) \in Age(limit) \union {None}
BY Bounds DEF Older, Age

\* What the steps of one process do to its own locals.
LEMMA TypeGoto ==
  ASSUME TypeOK, NEW p \in Proc, NEW l \in Labels, Goto(p, l)
  PROVE  pc' \in [Proc -> Labels]
BY DEF Goto, TypeOK

LEMMA TypeEnd ==
  ASSUME TypeOK, NEW p \in Proc, End(p)
  PROVE  /\ pc' \in [Proc -> Labels]
         /\ age' \in [Proc -> 0 .. MaxLife]
         /\ lag' \in [Proc -> 0 .. BlocksTtl]
         /\ raced' \in [Proc -> BOOLEAN]
<1>1. "idle" \in Labels /\ 0 \in 0 .. MaxLife /\ 0 \in 0 .. BlocksTtl
  BY Bounds DEF Labels
<1> QED BY <1>1 DEF End, Goto, TypeOK

LEMMA TypeDone ==
  ASSUME TypeOK, NEW p \in Proc, NEW kind \in Kinds, Done(p, kind)
  PROVE  /\ pc' \in [Proc -> Labels]
         /\ age' \in [Proc -> 0 .. MaxLife]
         /\ lag' \in [Proc -> 0 .. BlocksTtl]
         /\ raced' \in [Proc -> BOOLEAN]
<1>1. "backup" \in Labels /\ 0 \in 0 .. BlocksTtl
  BY Bounds DEF Labels
<1> QED BY <1>1, TypeEnd DEF Done, Goto, TypeOK

LEMMA TypeFail == ASSUME TypeOK, Fail PROVE failures' \in 0 .. MaxFailures
BY Bounds DEF Fail, TypeOK

LEMMA LabelsOf ==
  /\ {"idle", "stat", "mark", "fork", "costs", "backup", "warm", "status"} \subseteq Labels
  /\ \A kind \in Kinds : Running[kind] \in Labels /\ Storing[kind] \in Labels
BY DEF Labels, Kinds, Running, Storing

\* What a process holds is no older than the cache it may come from.
LEMMA LagBound ==
  ASSUME TypeOK, NEW p \in Proc, BlocksHit(p)
  PROVE  (IF Elapsed(p, blocks) > 0 THEN Elapsed(p, blocks) ELSE 0)
           \in 0 .. BlocksTtl - 1
<1>1. blocks \in Int /\ age[p] \in Int
  BY Bounds DEF TypeOK, BlocksHit, Age
<1>2. Elapsed(p, blocks) \in Int /\ Elapsed(p, blocks) < BlocksTtl
  BY <1>1 DEF BlocksHit, Elapsed
<1> QED BY <1>2, Bounds

LEMMA TypeInit == Init => TypeOK
<1> SUFFICES ASSUME Init PROVE TypeOK
  OBVIOUS
<1>1. "idle" \in Labels /\ 0 \in 0 .. MaxLife /\ 0 \in 0 .. BlocksTtl
  BY Bounds, LabelsOf
<1>2. 0 \in 0 .. MaxFailures
  BY Bounds
<1>3. /\ pc \in [Proc -> Labels]
      /\ age \in [Proc -> 0 .. MaxLife]
      /\ lag \in [Proc -> 0 .. BlocksTtl]
      /\ raced \in [Proc -> BOOLEAN]
  BY <1>1 DEF Init
<1> QED BY <1>2, <1>3 DEF Init, TypeOK

LEMMA TypeNext == TypeOK /\ [Next]_vars => TypeOK'
<1> SUFFICES ASSUME TypeOK, [Next]_vars PROVE TypeOK'
  OBVIOUS
<1> USE Bounds, LabelsOf DEF kv
<1>1. ASSUME NEW p \in Proc,
             FindsStale(p) \/ NoStore(p) \/ StatusStarts(p) \/ CostSince(p)
      PROVE  TypeOK'
  <2>1. \E l \in {"stat", "status", "costs"} : Goto(p, l)
    BY <1>1 DEF FindsStale, NoStore, StatusStarts, CostSince
  <2>2. pc' \in [Proc -> Labels]
    BY <2>1, TypeGoto
  <2> QED BY <1>1, <2>2 DEF FindsStale, NoStore, StatusStarts, CostSince, TypeOK
<1>2. ASSUME NEW p \in Proc, Step(p) PROVE TypeOK'
  <2>1. CASE Throttled(p)
    BY <2>1, TypeEnd DEF Throttled, TypeOK
  <2>2. CASE MayWarm(p)
    BY <2>2, TypeGoto DEF MayWarm, TypeOK
  <2>3. CASE WritesMarker(p)
    <3>1. marker' \in Age(MarkerSecs) /\ raced' \in [Proc -> BOOLEAN]
      BY <2>3 DEF WritesMarker, Age
    <3> QED BY <2>3, <3>1, TypeGoto DEF WritesMarker, TypeOK
  <2>4. CASE MarkerFails(p)
    BY <2>4, TypeGoto, TypeFail DEF MarkerFails, TypeOK
  <2>5. CASE Fork(p)
    BY <2>5, TypeGoto DEF Fork, TypeOK
  <2>6. CASE ForkFails(p)
    BY <2>6, TypeEnd, TypeFail DEF ForkFails, TypeOK
  <2>7. ASSUME NEW kind \in Kinds, Calibrates(p, kind) PROVE TypeOK'
    <3>1. CASE Cached(p, kind)
      BY <3>1, TypeDone DEF Cached, TypeOK
    <3>2. CASE NoRuns(p, kind)
      BY <3>2, TypeDone DEF NoRuns, TypeOK
    <3>3. CASE UsesBlocks(p, kind)
      <4>1. lag' \in [Proc -> 0 .. BlocksTtl]
        BY <3>3, LagBound DEF UsesBlocks, TypeOK
      <4> QED BY <3>3, <4>1, TypeGoto DEF UsesBlocks, TypeOK
    <3>4. CASE RunsCcusage(p, kind)
      BY <3>4, TypeGoto DEF RunsCcusage, TypeOK
    <3>5. CASE CcusageAnswers(p, kind)
      <4>1. age[p] \in Age(BlocksTtl)
        BY DEF TypeOK, Age
      <4>2. blocks' \in Age(BlocksTtl) \union {None}
        BY <3>5, <4>1 DEF CcusageAnswers, TypeOK
      <4>3. failures' \in 0 .. MaxFailures
        BY <3>5, TypeFail DEF CcusageAnswers, TypeOK
      <4> QED BY <3>5, <4>2, <4>3, TypeGoto DEF CcusageAnswers, TypeOK
    <3>6. CASE CcusageFails(p, kind)
      BY <3>6, TypeDone, TypeFail DEF CcusageFails, TypeOK
    <3>7. CASE WriteCache(p, kind)
      <4>1. age[p] \in Age(Ttl) /\ lag[p] \in 0 .. BlocksTtl
        BY DEF TypeOK, Age
      <4> QED BY <3>7, <4>1, TypeDone DEF WriteCache, TypeOK
    <3>8. CASE NotComputed(p, kind)
      BY <3>8, TypeDone, TypeFail DEF NotComputed, TypeOK
    <3> QED BY <2>7, <3>1, <3>2, <3>3, <3>4, <3>5, <3>6, <3>7, <3>8 DEF Calibrates
  <2>8. CASE CostsAnswered(p)
    <3>1. age[p] \in Age(BlocksTtl)
      BY DEF TypeOK, Age
    <3> QED BY <2>8, <3>1, TypeEnd DEF CostsAnswered, TypeOK
  <2>9. CASE BackupSkips(p)
    BY <2>9, TypeEnd DEF BackupSkips, TypeOK
  <2>10. CASE BackupRolls(p)
    <3>1. age[p] \in Age(BackupSecs)
      BY DEF TypeOK, Age
    <3> QED BY <2>10, <3>1, TypeEnd DEF BackupRolls, TypeOK
  <2>11. CASE Die(p)
    BY <2>11, TypeEnd, TypeFail DEF Die, TypeOK
  <2> QED BY <1>2, <2>1, <2>2, <2>3, <2>4, <2>5, <2>6, <2>7, <2>8, <2>9, <2>10, <2>11
          DEF Step
<1>3. CASE RunsAppear
  BY <1>3 DEF RunsAppear, TypeOK
<1>4. CASE Tick
  <2>1. calib' \in [age : Age(Ttl), lag : 0 .. BlocksTtl] \union {None}
    <3>1. CASE calib = None
      BY <1>4, <3>1 DEF Tick
    <3>2. CASE calib # None
      <4>1. calib \in [age : Age(Ttl), lag : 0 .. BlocksTtl]
        BY <3>2 DEF TypeOK
      <4>2. Older(calib.age, Ttl) \in Age(Ttl)
        BY <4>1 DEF Older, Age
      <4> QED BY <1>4, <3>2, <4>1, <4>2 DEF Tick
    <3> QED BY <3>1, <3>2
  <2>2. /\ blocks' \in Age(BlocksTtl) \union {None}
        /\ marker' \in Age(MarkerSecs) \union {None}
        /\ backup' \in Age(BackupSecs) \union {None}
    BY <1>4, OlderType DEF Tick, TypeOK
  <2>3. age' \in [Proc -> 0 .. MaxLife]
    BY <1>4 DEF Tick, TypeOK
  <2> QED BY <1>4, <2>1, <2>2, <2>3 DEF Tick, TypeOK
<1>5. CASE UNCHANGED vars
  BY <1>5 DEF vars, TypeOK
<1> QED BY <1>1, <1>2, <1>3, <1>4, <1>5 DEF Next

\* Every variable has its type, for all periods and numbers of processes.
THEOREM TypeCorrect == Spec => []TypeOK
BY TypeInit, TypeNext, PTL DEF Spec

-----------------------------------------------------------------------------
(***************************************************************************)
(* The stamp of a calibration.  That it is honest is kept by the processes *)
(* that are about to store one: what they hold was young enough when they  *)
(* took it, and it does not age against their own now.                     *)
(***************************************************************************)
HonestHolders == \A p \in Proc : lag[p] < BlocksTtl
HonestInv == HonestHolders /\ HonestStamp

LEMMA HonestInit == Init => HonestInv
BY Bounds DEF Init, HonestInv, HonestHolders, HonestStamp

LEMMA LagEnds ==
  ASSUME TypeOK, HonestHolders, NEW p \in Proc,
         End(p) \/ \E kind \in Kinds : Done(p, kind)
  PROVE  HonestHolders'
<1>1. lag' = [lag EXCEPT ![p] = 0]
  BY DEF End, Done
<1> QED BY <1>1, Bounds DEF HonestHolders, TypeOK

LEMMA HonestNext == TypeOK /\ HonestInv /\ [Next]_vars => HonestInv'
<1> SUFFICES ASSUME TypeOK, HonestHolders, HonestStamp, [Next]_vars
             PROVE  HonestHolders' /\ HonestStamp'
  BY DEF HonestInv
<1>1. CASE UNCHANGED <<calib, lag>>
  BY <1>1 DEF HonestHolders, HonestStamp
<1>2. ASSUME NEW p \in Proc, UNCHANGED calib,
             End(p) \/ \E kind \in Kinds : Done(p, kind)
      PROVE  HonestHolders' /\ HonestStamp'
  BY <1>2, LagEnds DEF HonestStamp
<1>3. ASSUME NEW p \in Proc, NEW kind \in Kinds, UsesBlocks(p, kind)
      PROVE  HonestHolders' /\ HonestStamp'
  <2>1. lag'[p] \in 0 .. BlocksTtl - 1 /\ \A q \in Proc : q # p => lag'[q] = lag[q]
    BY <1>3, LagBound DEF UsesBlocks, TypeOK
  <2>2. HonestHolders'
    BY <2>1, Bounds DEF HonestHolders, TypeOK
  <2> QED BY <1>3, <2>2 DEF UsesBlocks, HonestStamp, kv
<1>4. ASSUME NEW p \in Proc, NEW kind \in Kinds, WriteCache(p, kind)
      PROVE  HonestHolders' /\ HonestStamp'
  <2>1. calib'.lag < BlocksTtl
    BY <1>4 DEF WriteCache, HonestHolders
  <2> QED BY <1>4, <2>1, LagEnds DEF WriteCache, HonestStamp
<1>5. CASE Tick
  <2>1. calib # None => calib'.lag = calib.lag
    BY <1>5 DEF Tick, TypeOK
  <2> QED BY <1>5, <2>1 DEF Tick, HonestHolders, HonestStamp
<1>6. ASSUME NEW p \in Proc, NEW kind \in Kinds, Calibrates(p, kind)
      PROVE  HonestHolders' /\ HonestStamp'
  <2>1. CASE RunsCcusage(p, kind) \/ CcusageAnswers(p, kind)
    BY <1>1, <2>1 DEF RunsCcusage, CcusageAnswers, kv
  <2>2. CASE \/ Cached(p, kind) \/ NoRuns(p, kind)
             \/ CcusageFails(p, kind) \/ NotComputed(p, kind)
    BY <1>2, <2>2 DEF Cached, NoRuns, CcusageFails, NotComputed, kv
  <2> QED BY <1>3, <1>4, <1>6, <2>1, <2>2 DEF Calibrates
<1>7. ASSUME NEW p \in Proc, Step(p) PROVE HonestHolders' /\ HonestStamp'
  <2>1. CASE MayWarm(p) \/ WritesMarker(p) \/ MarkerFails(p) \/ Fork(p)
    BY <1>1, <2>1 DEF MayWarm, WritesMarker, MarkerFails, Fork, kv
  <2>2. CASE \/ Throttled(p) \/ ForkFails(p) \/ CostsAnswered(p)
             \/ BackupSkips(p) \/ BackupRolls(p) \/ Die(p)
    BY <1>2, <2>2
       DEF Throttled, ForkFails, CostsAnswered, BackupSkips, BackupRolls, Die, kv
  <2> QED BY <1>6, <1>7, <2>1, <2>2 DEF Step
<1>8. ASSUME NEW p \in Proc,
             FindsStale(p) \/ NoStore(p) \/ StatusStarts(p) \/ CostSince(p)
      PROVE  HonestHolders' /\ HonestStamp'
  BY <1>1, <1>8 DEF FindsStale, NoStore, StatusStarts, CostSince, kv
<1>9. CASE RunsAppear
  BY <1>1, <1>9 DEF RunsAppear, kv
<1>10. CASE UNCHANGED vars
  BY <1>1, <1>10 DEF vars
<1> QED BY <1>5, <1>7, <1>8, <1>9, <1>10 DEF Next

\* The costs behind a calibration are never older than the cache of them
\* allows, whichever of any number of overlapping processes stores last.
THEOREM StampsAreHonest == Spec => []HonestStamp
<1>1. TypeOK /\ HonestInv /\ [Next]_vars => (TypeOK /\ HonestInv)'
  BY TypeNext, HonestNext
<1>2. HonestInv => HonestStamp
  BY DEF HonestInv
<1> QED BY TypeInit, HonestInit, <1>1, <1>2, PTL DEF Spec

-----------------------------------------------------------------------------
(***************************************************************************)
(* The marker.  A process between its look at the marker and its write of  *)
(* it still goes by what it saw, unless another has written in between.    *)
(***************************************************************************)
MarkInv ==
  \A p \in Proc :
    pc[p] = "mark" /\ ~ raced[p] /\ marker # None => marker >= MarkerSecs

LEMMA MarkInit == Init => MarkInv
BY DEF Init, MarkInv

\* A step of p that neither brings it to its write nor touches the marker.
LEMMA MarkKept ==
  ASSUME TypeOK, MarkInv, NEW p \in Proc, UNCHANGED marker, pc'[p] # "mark",
         \A q \in Proc : q # p => pc'[q] = pc[q] /\ raced'[q] = raced[q]
  PROVE  MarkInv'
BY DEF MarkInv

LEMMA MarkEnds ==
  ASSUME TypeOK, MarkInv, NEW p \in Proc, UNCHANGED marker,
         End(p) \/ \E kind \in Kinds : Done(p, kind)
  PROVE  MarkInv'
<1>1. pc'[p] \in {"idle", "backup"}
  BY DEF End, Done, Goto, TypeOK
<1>2. \A q \in Proc : q # p => pc'[q] = pc[q] /\ raced'[q] = raced[q]
  BY DEF End, Done, Goto, TypeOK
<1> QED BY <1>1, <1>2, MarkKept

LEMMA MarkMoves ==
  ASSUME TypeOK, MarkInv, NEW p \in Proc, NEW l \in Labels \ {"mark"}, Goto(p, l),
         UNCHANGED <<marker, raced>>
  PROVE  MarkInv'
BY MarkKept DEF Goto, TypeOK

LEMMA NotMark == \A kind \in Kinds : /\ Running[kind] \in Labels \ {"mark"}
                                     /\ Storing[kind] \in Labels \ {"mark"}
<1>1. \A kind \in Kinds :
        Running[kind] \notin {"mark"} /\ Storing[kind] \notin {"mark"}
  <2>1. Running["warm"] = "warm: ccusage" /\ Running["status"] = "status: ccusage"
    BY DEF Running
  <2>2. Storing["warm"] = "warm: store" /\ Storing["status"] = "status: store"
    BY DEF Storing
  <2> QED BY <2>1, <2>2 DEF Kinds
<1> QED BY <1>1, LabelsOf

LEMMA MarkNext == TypeOK /\ MarkInv /\ [Next]_vars => MarkInv'
<1> SUFFICES ASSUME TypeOK, MarkInv, [Next]_vars PROVE MarkInv'
  OBVIOUS
<1>1. ASSUME NEW p \in Proc,
             FindsStale(p) \/ NoStore(p) \/ StatusStarts(p) \/ CostSince(p)
      PROVE  MarkInv'
  <2>1. \E l \in {"stat", "status", "costs"} : Goto(p, l)
    BY <1>1 DEF FindsStale, NoStore, StatusStarts, CostSince
  <2> QED BY <1>1, <2>1, MarkMoves, LabelsOf
          DEF FindsStale, NoStore, StatusStarts, CostSince
<1>2. ASSUME NEW p \in Proc, NEW kind \in Kinds, Calibrates(p, kind) PROVE MarkInv'
  <2>1. CASE UsesBlocks(p, kind) \/ RunsCcusage(p, kind) \/ CcusageAnswers(p, kind)
    BY <2>1, MarkMoves, NotMark DEF UsesBlocks, RunsCcusage, CcusageAnswers
  <2>2. CASE \/ Cached(p, kind) \/ NoRuns(p, kind) \/ CcusageFails(p, kind)
             \/ WriteCache(p, kind) \/ NotComputed(p, kind)
    BY <2>2, MarkEnds DEF Cached, NoRuns, CcusageFails, WriteCache, NotComputed
  <2> QED BY <1>2, <2>1, <2>2 DEF Calibrates
<1>3. ASSUME NEW p \in Proc, Step(p) PROVE MarkInv'
  <2>1. CASE MayWarm(p)
    <3>1. marker # None => marker >= MarkerSecs
      <4>1. age[p] \in Nat
        BY DEF TypeOK
      <4>2. marker # None => marker \in Nat
        BY Bounds DEF TypeOK, Age
      <4> QED BY <2>1, <4>1, <4>2, Bounds DEF MayWarm, Recent, Elapsed
    <3>2. \A q \in Proc : q # p => pc'[q] = pc[q]
      BY <2>1 DEF MayWarm, Goto, TypeOK
    <3> QED BY <2>1, <3>1, <3>2 DEF MayWarm, MarkInv
  <2>2. CASE WritesMarker(p)
    <3>1. pc'[p] # "mark" /\ \A q \in Proc : q # p => pc'[q] = pc[q]
      BY <2>2 DEF WritesMarker, Goto, TypeOK
    <3>2. \A q \in Proc : q # p /\ pc[q] = "mark" => raced'[q]
      BY <2>2 DEF WritesMarker
    <3> QED BY <3>1, <3>2 DEF MarkInv
  <2>3. CASE MarkerFails(p)
    <3>1. pc'[p] # "mark"
          /\ \A q \in Proc : q # p => pc'[q] = pc[q] /\ raced'[q] = raced[q]
      BY <2>3 DEF MarkerFails, Goto, TypeOK
    <3> QED BY <2>3, <3>1, MarkKept DEF MarkerFails
  <2>4. CASE Fork(p)
    BY <2>4, MarkMoves, LabelsOf DEF Fork
  <2>5. CASE \/ Throttled(p) \/ ForkFails(p) \/ CostsAnswered(p)
             \/ BackupSkips(p) \/ BackupRolls(p) \/ Die(p)
    BY <2>5, MarkEnds
       DEF Throttled, ForkFails, CostsAnswered, BackupSkips, BackupRolls, Die
  <2> QED BY <1>2, <1>3, <2>1, <2>2, <2>3, <2>4, <2>5 DEF Step
<1>4. CASE Tick
  <2>1. marker # None => marker' # None /\ marker' >= marker
    <3>1. marker # None => marker \in Nat
      BY Bounds DEF TypeOK, Age
    <3> QED BY <1>4, <3>1, Bounds DEF Tick, Older
  <2>2. marker = None => marker' = None
    BY <1>4 DEF Tick, Older
  <2>3. marker # None => marker \in Nat /\ marker' \in Nat
    BY <1>4, Bounds DEF Tick, Older, TypeOK, Age
  <2> QED BY <1>4, <2>1, <2>2, <2>3, Bounds DEF Tick, MarkInv
<1>5. CASE RunsAppear \/ UNCHANGED vars
  BY <1>5 DEF RunsAppear, vars, MarkInv
<1> QED BY <1>1, <1>3, <1>4, <1>5 DEF Next

\* At most one attempt in five minutes, but for those that had looked at the
\* marker before it was last written: for any number of windows that render.
THEOREM AttemptsAreThrottled == Spec => OneAttempt
<1>1. TypeOK /\ MarkInv /\ [Next]_vars => (TypeOK /\ MarkInv)'
  BY TypeNext, MarkNext
<1>2. TypeOK /\ MarkInv =>
        \A p \in Proc : WritesMarker(p) /\ marker # None => marker >= MarkerSecs \/ raced[p]
  BY DEF MarkInv, WritesMarker
<1> QED BY TypeInit, MarkInit, <1>1, <1>2, PTL DEF Spec, OneAttempt

=============================================================================
