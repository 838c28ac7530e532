--------------------------- MODULE AccountProofs ----------------------------
(***************************************************************************)
(* What the readers conclude about the account is so, and the query is the *)
(* loop it mirrors: for any number of sessions, any histories, any length  *)
(* of the window, and resets that wobble within the jitter.                *)
(***************************************************************************)
EXTENDS Account, NumberFacts, SequenceTheorems

\* A history table: finitely many rows, each with a rowid of its own.
IsTable(h) ==
  /\ IsFiniteSet(h) /\ h \subseteq [id : Nat, r : RowType]
  /\ \A s, u \in h : s.id = u.id => s = u

LEMMA Limits ==
  /\ Nil \notin Int /\ MaxResetAhead \in Nat /\ MinInterval \in Nat
  /\ KeepSecs \in Nat /\ ResetJitter \in Nat /\ DropReset \in Nat
  /\ MinSpan \in Nat /\ MinDelta \in Nat
BY HistoryAssumption, BurnAssumption

-----------------------------------------------------------------------------
(***************************************************************************)
(* The order of rows.                                                      *)
(***************************************************************************)
LEMMA TableSubset ==
  ASSUME NEW h, IsTable(h), NEW rows \in SUBSET h
  PROVE  IsTable(rows)
<1>1. IsFiniteSet(rows)
  BY FS_Subset DEF IsTable
<1> QED BY <1>1 DEF IsTable

LEMMA EarlierOrder ==
  ASSUME NEW h, IsTable(h), NEW s \in h, NEW u \in h
  PROVE  /\ ~ Earlier(s, s)
         /\ s # u => Earlier(s, u) \/ Earlier(u, s)
         /\ \A v \in h : Earlier(v, s) /\ Earlier(s, u) => Earlier(v, u)
<1>1. \A v \in h : v.r.t \in Nat /\ v.id \in Nat
  BY DEF IsTable, RowType
<1>2. s # u => s.id # u.id
  BY DEF IsTable
<1> QED BY <1>1, <1>2 DEF Earlier

\* How many rows are before a row, and that this tells the rows apart.
LEMMA Ranks ==
  ASSUME NEW h, IsTable(h), NEW s \in h
  PROVE  /\ Cardinality(h) \in Nat /\ Cardinality(Before(h, s)) \in 0 .. Cardinality(h) - 1
         /\ \A u \in h : Earlier(s, u) => Cardinality(Before(h, s)) < Cardinality(Before(h, u))
<1> DEFINE others == h \ {s}
<1>1. IsFiniteSet(h) /\ Cardinality(h) \in Nat
  BY FS_CardinalityType DEF IsTable
<1>2. IsFiniteSet(others) /\ Cardinality(others) = Cardinality(h) - 1
  BY <1>1, FS_RemoveElement
<1>3. \A u \in h : Before(h, u) \in SUBSET h
  BY DEF Before
<1>4. \A u \in h : IsFiniteSet(Before(h, u)) /\ Cardinality(Before(h, u)) \in Nat
  BY <1>1, <1>3, FS_Subset, FS_CardinalityType
<1>5. Before(h, s) \in SUBSET others
  BY EarlierOrder DEF Before
<1>6. Cardinality(Before(h, s)) <= Cardinality(h) - 1
  BY <1>2, <1>5, FS_Subset
<1>7. ASSUME NEW u \in h, Earlier(s, u)
      PROVE  Cardinality(Before(h, s)) < Cardinality(Before(h, u))
  <2> DEFINE more == Before(h, s) \union {s}
  <2>1. s \notin Before(h, s)
    BY EarlierOrder DEF Before
  <2>2. Cardinality(more) = Cardinality(Before(h, s)) + 1
    BY <1>4, <2>1, FS_AddElement
  <2>3. more \in SUBSET Before(h, u)
    BY <1>7, EarlierOrder DEF Before
  <2> HIDE DEF more
  <2>4. Cardinality(more) <= Cardinality(Before(h, u))
    BY <1>4, <2>3, FS_Subset
  <2> QED BY <1>4, <2>2, <2>4
<1> QED BY <1>1, <1>4, <1>6, <1>7

\* InOrder has every row once, each after those before it.
LEMMA Ordered ==
  ASSUME NEW h, IsTable(h)
  PROVE  LET o == InOrder(h) IN
         /\ Cardinality(h) \in Nat
         /\ o \in Seq(h) /\ Len(o) = Cardinality(h) /\ DOMAIN o = 1 .. Cardinality(h)
         /\ \A i \in 1 .. Cardinality(h) :
              o[i] \in h /\ Cardinality(Before(h, o[i])) = i - 1
         /\ \A s \in h : \E i \in 1 .. Cardinality(h) : o[i] = s
         /\ \A i, j \in 1 .. Cardinality(h) : i < j <=> Earlier(o[i], o[j])
<1> DEFINE n == Cardinality(h)
           o == InOrder(h)
           Rank(s) == Cardinality(Before(h, s))
           f == [s \in h |-> Rank(s) + 1]
<1>1. n \in Nat /\ IsFiniteSet(h)
  BY FS_CardinalityType DEF IsTable
<1>2. \A s \in h : Rank(s) \in 0 .. n - 1
  BY Ranks
<1>3. \A s, u \in h : Earlier(s, u) => Rank(s) < Rank(u)
  BY Ranks
<1>4. \A s, u \in h : s # u => Earlier(s, u) \/ Earlier(u, s)
  BY EarlierOrder
<1>5. \A s, u \in h : Rank(s) = Rank(u) => s = u
  BY <1>2, <1>3, <1>4
<1> HIDE DEF Rank, n
<1>6. f \in [h -> 1 .. n] /\ \A s, u \in h : f[s] = f[u] => s = u
  BY <1>1, <1>2, <1>5
<1>7. f \in Injection(h, 1 .. n)
  <2> HIDE DEF f
  <2> QED BY <1>6 DEF Injection, IsInjective
<1>8. IsFiniteSet(1 .. n) /\ Cardinality(1 .. n) = n
  BY <1>1, FS_Interval
<1>9. f \in Surjection(h, 1 .. n)
  <2> HIDE DEF f
  <2> QED BY <1>7, <1>8, FS_Injection DEF n
<1>10. \A i \in 1 .. n : \E s \in h : Rank(s) = i - 1
  <2>1. ASSUME NEW i \in 1 .. n PROVE \E s \in h : f[s] = i
    <3> HIDE DEF f
    <3> QED BY <1>9 DEF Surjection
  <2>2. ASSUME NEW i \in 1 .. n PROVE \E s \in h : Rank(s) = i - 1
    <3>1. PICK s \in h : f[s] = i
      BY <2>1
    <3>2. Rank(s) + 1 = i
      BY <3>1
    <3> QED BY <1>2, <3>2
  <2> QED BY <2>2
<1>11. o = [i \in 1 .. n |-> CHOOSE s \in h : Rank(s) = i - 1]
  BY DEF InOrder, Rank, n
<1> HIDE DEF o
<1>12. \A i \in 1 .. n : o[i] \in h /\ Rank(o[i]) = i - 1
  BY <1>10, <1>11
<1>13. o \in [1 .. n -> h]
  BY <1>11, <1>12
<1>14. o \in Seq(h) /\ Len(o) = n /\ DOMAIN o = 1 .. n
  BY <1>1, <1>13
<1>15. ASSUME NEW s \in h PROVE \E i \in 1 .. n : o[i] = s
  <2>1. Rank(s) + 1 \in 1 .. n /\ (Rank(s) + 1) - 1 = Rank(s)
    BY <1>1, <1>2
  <2>2. Rank(o[Rank(s) + 1]) = Rank(s) /\ o[Rank(s) + 1] \in h
    BY <1>12, <2>1
  <2> QED BY <1>5, <2>1, <2>2
<1>16. ASSUME NEW i \in 1 .. n, NEW j \in 1 .. n PROVE i < j <=> Earlier(o[i], o[j])
  <2>1. Rank(o[i]) = i - 1 /\ Rank(o[j]) = j - 1 /\ o[i] \in h /\ o[j] \in h
    BY <1>12
  <2>2. CASE i < j
    <3>1. o[i] # o[j] /\ ~ Earlier(o[j], o[i])
      BY <1>3, <2>1, <2>2
    <3> QED BY <1>4, <2>1, <2>2, <3>1
  <2>3. CASE ~ i < j
    BY <1>3, <2>1, <2>3
  <2> QED BY <2>2, <2>3
<1> QED BY <1>1, <1>12, <1>14, <1>15, <1>16 DEF o, n, Rank

-----------------------------------------------------------------------------
(***************************************************************************)
(* The query.                                                              *)
(***************************************************************************)
\* l is the newest of the resets that rows have, or Nil.
IsNewest(rows, l) ==
  \/ l = Nil /\ \A s \in rows : s.r.wkReset = Nil
  \/ /\ l \in Int
     /\ \E s \in rows : s.r.wkReset = l
     /\ \A s \in rows : s.r.wkReset # Nil => s.r.wkReset <= l

LEMMA LatestIs ==
  ASSUME NEW rows, IsTable(rows)
  PROVE  IsNewest(rows, LatestReset(rows))
<1> DEFINE with == {u \in rows : u.r.wkReset # Nil}
           resets == {s.r.wkReset : s \in with}
           f == [s \in with |-> s.r.wkReset]
<1>1. CASE with = {}
  BY <1>1 DEF LatestReset, IsNewest
<1>2. CASE with # {}
  <2>1. LatestReset(rows) = Max(resets)
    BY <1>2 DEF LatestReset
  <2>2. \A s \in with : s.r.wkReset \in Int
    BY DEF IsTable, RowType, OptInt
  <2>3. resets \in SUBSET Int /\ resets # {}
    BY <1>2, <2>2
  <2>4. f \in Surjection(with, resets)
    BY DEF Surjection
  <2>5. IsFiniteSet(with)
    <3>1. with \in SUBSET rows
      OBVIOUS
    <3> QED BY <3>1, FS_Subset DEF IsTable
  <2>6. IsFiniteSet(resets)
    <3> HIDE DEF f, with, resets
    <3> QED BY <2>4, <2>5, FS_Surjection
  <2>7. Max(resets) \in resets /\ \A n \in resets : n <= Max(resets)
    <3> HIDE DEF resets
    <3> QED BY <2>3, <2>6, FiniteMax
  <2>8. Max(resets) \in Int
    BY <2>3, <2>7
  <2>9. \E s \in rows : s.r.wkReset = Max(resets)
    BY <2>7
  <2> QED BY <2>1, <2>7, <2>8, <2>9 DEF IsNewest
<1> QED BY <1>1, <1>2

LEMMA OneNewest ==
  ASSUME NEW rows, NEW l, NEW m, IsNewest(rows, l), IsNewest(rows, m)
  PROVE  l = m
BY Limits DEF IsNewest

\* Each entry of the envelope is of a row that is kept, with the most so far.
LEMMA EnvelopeIs ==
  ASSUME NEW h, IsTable(h), NEW now
  PROVE  LET rows == Recent(h, now)
             kept == InOrder(Kept(rows))
             n == Cardinality(Kept(rows))
             e == EnvelopeWeekly(h, now)
         IN  /\ IsTable(rows) /\ IsTable(Kept(rows)) /\ n \in Nat
             /\ e \in Seq([t : Nat, wk : 0 .. 100, wkReset : {LatestReset(rows)}])
             /\ e \in [1 .. n -> [t : Nat, wk : 0 .. 100, wkReset : {LatestReset(rows)}]]
             /\ Len(e) = n /\ DOMAIN e = 1 .. n
             /\ \A i \in 1 .. n :
                  /\ kept[i] \in Kept(rows) /\ e[i].t = kept[i].r.t
                  /\ \E j \in 1 .. i : e[i].wk = kept[j].r.wk
                  /\ \A j \in 1 .. i : kept[j].r.wk <= e[i].wk
<1> DEFINE rows == Recent(h, now)
           keep == Kept(rows)
           kept == InOrder(keep)
           n == Cardinality(keep)
           latest == LatestReset(rows)
           e == EnvelopeWeekly(h, now)
           Sofar(i) == {kept[j].r.wk : j \in 1 .. i}
<1>1. rows \in SUBSET h /\ keep \in SUBSET rows
  BY DEF Recent, Kept
<1>2. IsTable(rows) /\ IsTable(keep)
  BY <1>1, TableSubset
<1>3. n \in Nat /\ DOMAIN kept = 1 .. n /\ \A i \in 1 .. n : kept[i] \in keep
  BY <1>2, Ordered
<1>4. e = [i \in 1 .. n |-> [t |-> kept[i].r.t, wk |-> Max(Sofar(i)), wkReset |-> latest]]
  BY <1>3 DEF EnvelopeWeekly
<1>5. \A i \in 1 .. n : kept[i].r.t \in Nat /\ kept[i].r.wk \in 0 .. 100
  BY <1>2, <1>3 DEF IsTable, RowType
<1> HIDE DEF keep, kept, n, latest, rows, e
<1>6. ASSUME NEW i \in 1 .. n
      PROVE  Max(Sofar(i)) \in Sofar(i) /\ \A j \in 1 .. i : kept[j].r.wk <= Max(Sofar(i))
  <2>1. \A j \in 1 .. i : j \in 1 .. n
    BY <1>3
  <2>2. Sofar(i) \in SUBSET Nat /\ \A v \in Sofar(i) : v <= 100
    <3>1. ASSUME NEW j \in 1 .. i PROVE kept[j].r.wk \in Nat /\ kept[j].r.wk <= 100
      <4>1. j \in 1 .. n
        BY <2>1
      <4>2. kept[j].r.wk \in 0 .. 100
        BY Zenon, <1>5, <4>1
      <4> QED BY <4>2
    <3> QED BY <3>1
  <2>3. i \in 1 .. i /\ kept[i].r.wk \in Sofar(i)
    BY <1>3
  <2>4. Max(Sofar(i)) \in Sofar(i) /\ \A v \in Sofar(i) : v <= Max(Sofar(i))
    <3> HIDE DEF Sofar
    <3> QED BY <2>2, <2>3, MaxIsIn
  <2> QED BY <2>4
<1>7. \A i \in 1 .. n : Max(Sofar(i)) \in 0 .. 100
  <2> SUFFICES ASSUME NEW i \in 1 .. n PROVE Max(Sofar(i)) \in 0 .. 100
    OBVIOUS
  <2>1. PICK j \in 1 .. i : Max(Sofar(i)) = kept[j].r.wk
    BY <1>6
  <2>2. j \in 1 .. n
    BY <1>3
  <2> QED BY <1>5, <2>1, <2>2
<1>8. ASSUME NEW i \in 1 .. n
      PROVE  \E j \in 1 .. i : Max(Sofar(i)) = kept[j].r.wk
  BY <1>6
<1> HIDE DEF Sofar
<1> DEFINE Entries == [t : Nat, wk : 0 .. 100, wkReset : {latest}]
<1>9. e \in [1 .. n -> Entries]
  BY <1>4, <1>5, <1>7
<1>10. e \in Seq(Entries) /\ Len(e) = n /\ DOMAIN e = 1 .. n
  <2> HIDE DEF Entries
  <2> QED BY <1>3, <1>9
<1>11. \A i \in 1 .. n : e[i].t = kept[i].r.t /\ e[i].wk = Max(Sofar(i))
  BY <1>4
<1>12. ASSUME NEW i \in 1 .. n
       PROVE  /\ kept[i] \in keep /\ e[i].t = kept[i].r.t
              /\ \E j \in 1 .. i : e[i].wk = kept[j].r.wk
              /\ \A j \in 1 .. i : kept[j].r.wk <= e[i].wk
  BY <1>3, <1>6, <1>8, <1>11
<1> QED BY <1>2, <1>3, <1>9, <1>10, <1>12 DEF keep, kept, n, latest, rows, e

-----------------------------------------------------------------------------
(***************************************************************************)
(* The loop that the query mirrors.                                        *)
(***************************************************************************)
\* Two loops that take the same steps.
LEMMA SameLoop ==
  ASSUME NEW n \in Nat, NEW f, NEW g, f[0] = g[0],
         \A i \in 1 .. n : f[i - 1] = g[i - 1] => f[i] = g[i]
  PROVE  f[n] = g[n]
<1> DEFINE S == {i \in Nat : i <= n => f[i] = g[i]}
<1>1. S \in SUBSET Nat /\ 0 \in S
  OBVIOUS
<1>2. ASSUME NEW i \in S PROVE i + 1 \in S
  <2>1. SUFFICES ASSUME i + 1 <= n PROVE f[i + 1] = g[i + 1]
    OBVIOUS
  <2>2. i + 1 \in 1 .. n /\ (i + 1) - 1 = i /\ f[i] = g[i]
    BY <2>1
  <2> QED BY <2>2
<1>3. S = Nat
  <2> HIDE DEF S
  <2> QED BY <1>1, <1>2, AllNumbers
<1> QED BY <1>3

\* The first i rows of a sequence.
First(o, i) == {o[j] : j \in 1 .. i}

LEMMA Firsts ==
  ASSUME NEW o, NEW n \in Nat, NEW i \in 1 .. n
  PROVE  First(o, i) = First(o, i - 1) \union {o[i]} /\ First(o, 0) = {}
<1>1. \A j \in 1 .. i : j \in 1 .. i - 1 \/ j = i
  OBVIOUS
<1>2. \A j \in 1 .. i - 1 : j \in 1 .. i
  OBVIOUS
<1>3. i \in 1 .. i
  OBVIOUS
<1>4. First(o, i) \subseteq First(o, i - 1) \union {o[i]}
  BY <1>1 DEF First
<1>5. First(o, i - 1) \union {o[i]} \subseteq First(o, i)
  BY <1>2, <1>3 DEF First
<1> QED BY <1>4, <1>5 DEF First

\* The first loop finds the newest reset.
LEMMA LatestLoop ==
  ASSUME NEW rows, IsTable(rows)
  PROVE  LatestInGo(InOrder(rows)) = LatestReset(rows)
<1> DEFINE o == InOrder(rows)
           n == Cardinality(rows)
           g == [i \in 0 .. n |-> LatestReset(First(o, i))]
           Body(f) == [i \in 0 .. n |-> IF i = 0 THEN Nil ELSE Later(f[i - 1], o[i])]
           f == CHOOSE f : f = Body(f)
<1>1. /\ n \in Nat /\ Len(o) = n /\ \A i \in 1 .. n : o[i] \in rows
      /\ \A s \in rows : \E i \in 1 .. n : o[i] = s
  BY Ordered
<1>2. LatestInGo(o) = f[n]
  BY <1>1 DEF LatestInGo
<1> HIDE DEF o, n
<1>3. \A i \in 0 .. n : IsTable(First(o, i)) /\ IsNewest(First(o, i), g[i])
  <2> SUFFICES ASSUME NEW i \in 0 .. n
               PROVE  IsTable(First(o, i)) /\ IsNewest(First(o, i), g[i])
    OBVIOUS
  <2>1. \A j \in 1 .. i : j \in 1 .. n
    BY <1>1
  <2>2. First(o, i) \in SUBSET rows
    BY <1>1, <2>1 DEF First
  <2>3. IsTable(First(o, i))
    BY <2>2, TableSubset
  <2> QED BY <2>3, LatestIs
<1>4. ASSUME NEW i \in 1 .. n PROVE g[i] = Later(g[i - 1], o[i])
  <2>1. i \in 0 .. n /\ i - 1 \in 0 .. n
    BY <1>1
  <2>2. IsNewest(First(o, i), g[i]) /\ IsNewest(First(o, i - 1), g[i - 1])
    BY <1>3, <2>1
  <2>3. o[i].r.wkReset \in Int \union {Nil}
    BY <1>1 DEF IsTable, RowType, OptInt
  <2> DEFINE before == First(o, i - 1)
             prev == g[i - 1]
             s == o[i]
             next == Later(prev, s)
  <2>4. First(o, i) = before \union {s}
    BY <1>1, Firsts
  <2>5. IsNewest(before, prev)
    BY <2>2
  <2>7. \A u \in before : u.r.wkReset \in Int \union {Nil}
    BY <1>3, <2>1 DEF IsTable, RowType, OptInt
  <2> HIDE DEF before, prev
  <2>6. IsNewest(before \union {s}, next)
    <3> HIDE DEF s
    <3>1. s.r.wkReset \in Int \union {Nil}
      BY <2>3 DEF s
    <3>2. CASE s.r.wkReset = Nil
      BY <2>5, <3>2 DEF Later, IsNewest
    <3>3. CASE s.r.wkReset \in Int /\ prev = Nil
      <4>1. next = s.r.wkReset
        BY <3>3, Limits DEF Later
      <4> QED BY <2>5, <3>3, <4>1, Limits DEF IsNewest
    <3>4. CASE s.r.wkReset \in Int /\ prev # Nil /\ s.r.wkReset > prev
      <4>1. next = s.r.wkReset
        BY <3>4, Limits DEF Later
      <4>2. next \in Int /\ next > prev /\ prev \in Int
        BY <2>5, <3>4, <4>1 DEF IsNewest
      <4>3. \A u \in before : u.r.wkReset # Nil => u.r.wkReset <= next
        <5>1. \A u \in before : u.r.wkReset # Nil => u.r.wkReset <= prev
          BY <2>5, <3>4 DEF IsNewest
        <5>2. \A u \in before : u.r.wkReset # Nil => u.r.wkReset \in Int
          BY <2>7
        <5> HIDE DEF next
        <5> QED BY <4>2, <5>1, <5>2
      <4> QED BY <4>1, <4>2, <4>3 DEF IsNewest
    <3>5. CASE s.r.wkReset \in Int /\ prev # Nil /\ ~ s.r.wkReset > prev
      <4>1. next = prev
        BY <3>5, Limits DEF Later
      <4> QED BY <2>5, <3>5, <4>1, Limits DEF IsNewest
    <3> QED BY <3>1, <3>2, <3>3, <3>4, <3>5
  <2> QED BY <2>2, <2>4, <2>6, OneNewest DEF prev
<1>5. g[0] = Nil
  <2>1. First(o, 0) = {}
    BY DEF First
  <2> QED BY <1>1, <2>1 DEF LatestReset
<1>6. g = Body(g)
  <2>1. \A i \in 0 .. n : g[i] = IF i = 0 THEN Nil ELSE Later(g[i - 1], o[i])
    BY <1>1, <1>4, <1>5
  <2> QED BY <2>1
<1>7. f = Body(f)
  <2> HIDE DEF g, Body
  <2> QED BY <1>6
<1>8. f[n] = g[n]
  <2>1. \A i \in 0 .. n : f[i] = IF i = 0 THEN Nil ELSE Later(f[i - 1], o[i])
    <3> HIDE DEF f
    <3> QED BY <1>7
  <2> HIDE DEF f, g
  <2>2. f[0] = g[0]
    BY <1>1, <1>5, <2>1
  <2>3. \A i \in 1 .. n : f[i - 1] = g[i - 1] => f[i] = g[i]
    BY <1>1, <1>4, <2>1
  <2> QED BY <1>1, <2>2, <2>3, SameLoop
<1>9. First(o, n) = rows
  BY <1>1 DEF First
<1> QED BY <1>1, <1>2, <1>8, <1>9 DEF o

\* A row that is left out is one of another window.
LEMMA OthersLeftOut ==
  ASSUME NEW rows, IsTable(rows), NEW s \in rows
  PROVE  OtherWindow(LatestReset(rows), s) <=> s \notin Kept(rows)
<1> DEFINE latest == LatestReset(rows)
           reset == s.r.wkReset
<1>1. latest = Nil \/ latest \in Int
  BY LatestIs DEF IsNewest
<1>2. reset = Nil \/ reset \in Int
  BY DEF IsTable, RowType, OptInt
<1>3. s \in Kept(rows) <=>
        \/ latest = Nil /\ reset = Nil
        \/ latest # Nil /\ reset # Nil /\ latest - reset <= ResetJitter
  BY DEF Kept
<1>4. OtherWindow(latest, s) <=>
        \/ latest = Nil /\ reset # Nil
        \/ latest # Nil /\ (reset = Nil \/ latest - reset > ResetJitter)
  BY DEF OtherWindow
<1>5. latest \in Int /\ reset \in Int =>
        (latest - reset > ResetJitter <=> ~ latest - reset <= ResetJitter)
  <2> HIDE DEF latest, reset
  <2> QED BY Limits
<1> HIDE DEF latest, reset
<1> QED BY <1>1, <1>2, <1>3, <1>4, <1>5, Limits, Zenon DEF latest

\* The rows before row i that are kept are those before it among the kept.
LEMMA KeptFirst ==
  ASSUME NEW rows, IsTable(rows), NEW keep \in SUBSET rows,
         NEW i \in 1 .. Cardinality(rows), InOrder(rows)[i] \in keep
  PROVE  LET s == InOrder(rows)[i]
             first == keep \cap First(InOrder(rows), i - 1)
         IN  /\ s \notin first
             /\ Cardinality(first) + 1 \in 1 .. Cardinality(keep)
             /\ InOrder(keep)[Cardinality(first) + 1] = s
             /\ keep \cap First(InOrder(rows), i) = first \union {s}
<1> DEFINE o == InOrder(rows)
           n == Cardinality(rows)
           s == o[i]
           first == keep \cap First(o, i - 1)
<1>1. IsTable(keep)
  BY TableSubset
<1>2. /\ n \in Nat /\ \A j \in 1 .. n : o[j] \in rows
      /\ \A u \in rows : \E j \in 1 .. n : o[j] = u
      /\ \A j, k \in 1 .. n : j < k <=> Earlier(o[j], o[k])
  BY Ordered
<1> HIDE DEF o, n
<1>3. first = Before(keep, s)
  <2>1. ASSUME NEW u \in keep PROVE u \in First(o, i - 1) <=> Earlier(u, s)
    <3>1. PICK j \in 1 .. n : o[j] = u
      BY <1>2
    <3>2. Earlier(u, s) <=> j < i
      BY <1>2, <3>1 DEF n
    <3>3. j < i => j \in 1 .. i - 1
      BY <1>2 DEF n
    <3>4. ASSUME u \in First(o, i - 1) PROVE Earlier(u, s)
      <4>1. PICK k \in 1 .. i - 1 : o[k] = u
        BY <3>4 DEF First
      <4>2. k \in 1 .. n /\ k < i /\ i \in 1 .. n
        BY <1>2 DEF n
      <4> QED BY <1>2, <4>1, <4>2
    <3> QED BY <3>1, <3>2, <3>3, <3>4 DEF First
  <2> QED BY <2>1 DEF Before
<1>4. PICK k \in 1 .. Cardinality(keep) : InOrder(keep)[k] = s
  BY <1>1, Ordered DEF o
<1>5. Cardinality(Before(keep, s)) = k - 1 /\ Cardinality(keep) \in Nat
  BY <1>1, <1>4, Ordered
<1>6. s \notin first
  <2>1. ~ Earlier(s, s)
    BY EarlierOrder DEF o
  <2> QED BY <1>3, <2>1 DEF Before
<1>7. keep \cap First(o, i) = first \union {s}
  <2>1. First(o, i) = First(o, i - 1) \union {s}
    BY <1>2, Firsts DEF n
  <2> QED BY <2>1 DEF o
<1>8. Cardinality(first) + 1 = k
  <2> HIDE DEF first, s
  <2> QED BY <1>1, <1>3, <1>5
<1> QED BY <1>4, <1>6, <1>7, <1>8 DEF o

\* Entry k of an envelope is of row k of those kept, with the most so far.
IsEntry(kept, latest, e, k) ==
  /\ e[k] = [t |-> kept[k].r.t, wk |-> e[k].wk, wkReset |-> latest]
  /\ e[k].wk \in Nat /\ kept[k].r.wk \in Nat
  /\ \E j \in 1 .. k : e[k].wk = kept[j].r.wk
  /\ \A j \in 1 .. k : kept[j].r.wk <= e[k].wk

Upto(e, m) == [k \in 1 .. m |-> e[k]]

LEMMA UptoIs ==
  ASSUME NEW e, NEW m \in Nat
  PROVE  /\ DOMAIN Upto(e, m) = 1 .. m /\ Len(Upto(e, m)) = m
         /\ \A k \in 1 .. m : Upto(e, m)[k] = e[k]
         /\ m = 0 <=> Upto(e, m) = <<>>
<1> DEFINE u == Upto(e, m)
           Those == {e[k] : k \in 1 .. m}
<1>1. DOMAIN u = 1 .. m /\ \A k \in 1 .. m : u[k] = e[k]
  BY DEF Upto
<1>2. u \in [1 .. m -> Those]
  BY DEF Upto
<1> HIDE DEF u, Those
<1>3. u \in Seq(Those)
  BY <1>2
<1>4. Len(u) = m
  BY <1>1, <1>3
<1>5. m = 0 <=> u = <<>>
  BY <1>3, <1>4
<1> QED BY <1>1, <1>4, <1>5 DEF u

LEMMA UptoNext ==
  ASSUME NEW e, NEW m \in Nat
  PROVE  Append(Upto(e, m), e[m + 1]) = Upto(e, m + 1)
<1> DEFINE u == Upto(e, m)
<1>1. Len(u) = m /\ \A k \in 1 .. m : u[k] = e[k]
  BY UptoIs
<1> HIDE DEF u
<1>2. Append(u, e[m + 1]) = [k \in 1 .. m + 1 |-> IF k = m + 1 THEN e[m + 1] ELSE u[k]]
  BY <1>1
<1>3. \A k \in 1 .. m + 1 : (IF k = m + 1 THEN e[m + 1] ELSE u[k]) = e[k]
  BY <1>1
<1>4. [k \in 1 .. m + 1 |-> IF k = m + 1 THEN e[m + 1] ELSE u[k]] = [k \in 1 .. m + 1 |-> e[k]]
  BY <1>3
<1> QED BY <1>2, <1>4 DEF u, Upto

\* One turn of the second loop, at a row that is kept.
LEMMA NextEntry ==
  ASSUME NEW m \in Nat, NEW kept, NEW latest, NEW e, NEW s,
         ~ OtherWindow(latest, s), kept[m + 1] = s,
         \A k \in 1 .. m + 1 : IsEntry(kept, latest, e, k)
  PROVE  AddEntry(Upto(e, m), latest, s) = Upto(e, m + 1)
<1> DEFINE out == Upto(e, m)
           most == IF out # <<>> /\ Last(out).wk >= s.r.wk THEN Last(out).wk ELSE s.r.wk
           entry == [t |-> s.r.t, wk |-> most, wkReset |-> latest]
           top == e[m + 1].wk
<1>1. AddEntry(out, latest, s) = Append(out, entry)
  BY DEF AddEntry
<1>2. IsEntry(kept, latest, e, m + 1)
  OBVIOUS
<1>3. top \in Nat /\ s.r.wk \in Nat /\ s.r.wk <= top
  <2>1. m + 1 \in 1 .. m + 1
    OBVIOUS
  <2> QED BY <1>2, <2>1 DEF IsEntry
<1>4. most = top
  <2>1. CASE m = 0
    <3>1. most = s.r.wk
      BY <2>1, UptoIs
    <3>2. \A j \in 1 .. m + 1 : j = m + 1
      BY <2>1
    <3> QED BY <1>2, <3>1, <3>2 DEF IsEntry
  <2>2. CASE m # 0
    <3> DEFINE prev == e[m].wk
    <3>1. m \in 1 .. m + 1 /\ m \in 1 .. m
      BY <2>2
    <3>2. out # <<>> /\ Last(out) = e[m]
      BY <2>2, <3>1, UptoIs DEF Last
    <3>3. IsEntry(kept, latest, e, m)
      BY <3>1
    <3>4. prev \in Nat /\ \A j \in 1 .. m : kept[j].r.wk <= prev
      BY <3>3 DEF IsEntry
    <3>5. PICK j \in 1 .. m : prev = kept[j].r.wk
      BY <3>3 DEF IsEntry
    <3>6. j \in 1 .. m + 1
      OBVIOUS
    <3>7. prev <= top
      BY <1>2, <3>5, <3>6 DEF IsEntry
    <3>8. PICK i \in 1 .. m + 1 : top = kept[i].r.wk
      BY <1>2 DEF IsEntry
    <3>9. i \in 1 .. m \/ i = m + 1
      OBVIOUS
    <3>10. top <= prev \/ top = s.r.wk
      BY <3>4, <3>8, <3>9
    <3>11. most = IF prev >= s.r.wk THEN prev ELSE s.r.wk
      BY <3>2
    <3> HIDE DEF most, prev, top
    <3> QED BY <1>3, <3>4, <3>7, <3>10, <3>11
  <2> QED BY <2>1, <2>2
<1>5. entry = e[m + 1]
  BY <1>2, <1>4 DEF IsEntry
<1> QED BY <1>1, <1>5, UptoNext

Many(rows, i) == Cardinality(Kept(rows) \cap First(InOrder(rows), i))

LEMMA ManyIs ==
  ASSUME NEW rows, IsTable(rows), NEW i \in 1 .. Cardinality(rows)
  PROVE  LET s == InOrder(rows)[i]
             m == Many(rows, i - 1) IN
         /\ s \in rows /\ m \in Nat
         /\ s \notin Kept(rows) => Many(rows, i) = m
         /\ s \in Kept(rows) =>
              /\ m + 1 \in 1 .. Cardinality(Kept(rows))
              /\ InOrder(Kept(rows))[m + 1] = s
              /\ Many(rows, i) = m + 1
<1> DEFINE o == InOrder(rows)
           keep == Kept(rows)
           first == keep \cap First(o, i - 1)
<1>1. keep \in SUBSET rows /\ Cardinality(rows) \in Nat /\ o[i] \in rows
  BY Ordered DEF Kept
<1>2. IsFiniteSet(first) /\ Cardinality(first) \in Nat
  <2>1. IsFiniteSet(keep) /\ first \in SUBSET keep
    BY <1>1, TableSubset DEF IsTable
  <2> QED BY <2>1, FS_Subset, FS_CardinalityType
<1>3. First(o, i) = First(o, i - 1) \union {o[i]}
  BY <1>1, Firsts
<1>4. o[i] \notin keep => keep \cap First(o, i) = first
  BY <1>3
<1>5. ASSUME o[i] \in keep
      PROVE  /\ Cardinality(first) + 1 \in 1 .. Cardinality(keep)
             /\ InOrder(keep)[Cardinality(first) + 1] = o[i]
             /\ Cardinality(keep \cap First(o, i)) = Cardinality(first) + 1
  <2>1. /\ o[i] \notin first
        /\ Cardinality(first) + 1 \in 1 .. Cardinality(keep)
        /\ InOrder(keep)[Cardinality(first) + 1] = o[i]
        /\ keep \cap First(o, i) = first \union {o[i]}
    BY <1>1, <1>5, KeptFirst
  <2>2. Cardinality(first \union {o[i]}) = Cardinality(first) + 1
    <3> HIDE DEF first, o
    <3> QED BY <1>2, <2>1, FS_AddElement
  <2> QED BY <2>1, <2>2
<1> HIDE DEF first
<1> QED BY <1>1, <1>2, <1>4, <1>5 DEF Many, first

\* The second loop comes to a sequence that has, for each of the rows that are
\* kept, its time and the most so far.
LEMMA EntriesLoop ==
  ASSUME NEW rows, IsTable(rows), NEW e,
         e = Upto(e, Cardinality(Kept(rows))),
         \A k \in 1 .. Cardinality(Kept(rows)) :
           IsEntry(InOrder(Kept(rows)), LatestReset(rows), e, k)
  PROVE  AddEntries(InOrder(rows), LatestReset(rows)) = e
<1> DEFINE o == InOrder(rows)
           n == Cardinality(rows)
           latest == LatestReset(rows)
           g == [i \in 0 .. n |-> Upto(e, Many(rows, i))]
           Body(f) == [i \in 0 .. n |->
                         IF i = 0 THEN <<>> ELSE AddEntry(f[i - 1], latest, o[i])]
           f == CHOOSE f : f = Body(f)
<1>1. /\ n \in Nat /\ Len(o) = n /\ \A i \in 1 .. n : o[i] \in rows
      /\ \A s \in rows : \E i \in 1 .. n : o[i] = s
  BY Ordered
<1>2. AddEntries(o, latest) = f[n]
  BY <1>1 DEF AddEntries
<1>3. \A s \in rows : OtherWindow(latest, s) <=> s \notin Kept(rows)
  BY OthersLeftOut
<1>4. ASSUME NEW i \in 1 .. n PROVE g[i] = AddEntry(g[i - 1], latest, o[i])
  <2> DEFINE m == Many(rows, i - 1)
  <2>1. i - 1 \in 0 .. n /\ i \in 0 .. n
    BY <1>1
  <2>2. g[i] = Upto(e, Many(rows, i)) /\ g[i - 1] = Upto(e, m)
    BY <2>1
  <2>3. CASE o[i] \notin Kept(rows)
    <3>1. Many(rows, i) = m
      BY <2>3, ManyIs
    <3>2. OtherWindow(latest, o[i])
      BY <1>1, <1>3, <2>3
    <3> QED BY <2>2, <3>1, <3>2 DEF AddEntry
  <2>4. CASE o[i] \in Kept(rows)
    <3>1. /\ m \in Nat /\ m + 1 \in 1 .. Cardinality(Kept(rows))
          /\ InOrder(Kept(rows))[m + 1] = o[i] /\ Many(rows, i) = m + 1
      BY <2>4, ManyIs
    <3>2. ~ OtherWindow(latest, o[i])
      BY <1>1, <1>3, <2>4
    <3> HIDE DEF m, o, g
    <3>3. \A k \in 1 .. m + 1 : k \in 1 .. Cardinality(Kept(rows))
      <4>1. Cardinality(Kept(rows)) \in Nat
        BY EnvelopeIs, FS_CardinalityType, TableSubset DEF Kept, IsTable
      <4> QED BY <3>1, <4>1
    <3>4. \A k \in 1 .. m + 1 : IsEntry(InOrder(Kept(rows)), latest, e, k)
      BY <3>3
    <3> HIDE DEF latest
    <3>5. AddEntry(Upto(e, m), latest, o[i]) = Upto(e, m + 1)
      BY <3>1, <3>2, <3>4, NextEntry
    <3> QED BY <2>2, <3>1, <3>5
  <2> QED BY <2>3, <2>4
<1>5. g[0] = <<>>
  <2>1. First(o, 0) = {}
    BY DEF First
  <2>2. Many(rows, 0) = 0
    BY <2>1, FS_EmptySet DEF Many
  <2> QED BY <1>1, <2>2, UptoIs
<1> HIDE DEF n, o, latest
<1>6. g = Body(g)
  <2>1. \A i \in 0 .. n : g[i] = IF i = 0 THEN <<>> ELSE AddEntry(g[i - 1], latest, o[i])
    BY <1>1, <1>4, <1>5
  <2> QED BY <2>1
<1>7. f = Body(f)
  <2> HIDE DEF g, Body
  <2> QED BY <1>6
<1>8. f[n] = g[n]
  <2>1. \A i \in 0 .. n : f[i] = IF i = 0 THEN <<>> ELSE AddEntry(f[i - 1], latest, o[i])
    <3> HIDE DEF f
    <3> QED BY <1>7
  <2> HIDE DEF f, g
  <2>2. f[0] = g[0]
    BY <1>1, <1>5, <2>1
  <2>3. \A i \in 1 .. n : f[i - 1] = g[i - 1] => f[i] = g[i]
    BY <1>1, <1>4, <2>1
  <2> QED BY <1>1, <2>2, <2>3, SameLoop
<1>9. First(o, n) = rows
  BY <1>1 DEF First
<1>10. Many(rows, n) = Cardinality(Kept(rows))
  <2>1. Kept(rows) \cap rows = Kept(rows)
    BY DEF Kept
  <2> QED BY <1>9, <2>1 DEF Many, o
<1>11. g[n] = e
  BY <1>1, <1>10
<1> QED BY <1>2, <1>8, <1>11 DEF o, latest

\* For every history, the loop in Go and the query come to the same envelope.
LEMMA MirrorsGo ==
  ASSUME NEW h, IsTable(h), NEW now
  PROVE  EnvelopeWeekly(h, now) = EnvelopeInGo(h, now)
<1> DEFINE rows == Recent(h, now)
           keep == Kept(rows)
           kept == InOrder(keep)
           n == Cardinality(keep)
           latest == LatestReset(rows)
           e == EnvelopeWeekly(h, now)
<1>1. /\ IsTable(rows) /\ IsTable(keep)
      /\ e \in [1 .. n -> [t : Nat, wk : 0 .. 100, wkReset : {latest}]]
      /\ DOMAIN e = 1 .. n
      /\ \A k \in 1 .. n :
           /\ kept[k] \in keep /\ e[k].t = kept[k].r.t
           /\ \E j \in 1 .. k : e[k].wk = kept[j].r.wk
           /\ \A j \in 1 .. k : kept[j].r.wk <= e[k].wk
  BY EnvelopeIs
<1>2. EnvelopeInGo(h, now) = AddEntries(InOrder(rows), latest)
  BY <1>1, LatestLoop DEF EnvelopeInGo
<1> HIDE DEF rows, keep, kept, latest, e, n
<1>3. \A s \in keep : s.r.wk \in Nat
  <2>1. \A s \in keep : s.r \in RowType
    BY <1>1 DEF IsTable
  <2>2. \A r \in RowType : r.wk \in Nat
    BY DEF RowType
  <2> QED BY <2>1, <2>2
<1>4. \A k \in 1 .. n : IsEntry(kept, latest, e, k)
  <2> SUFFICES ASSUME NEW k \in 1 .. n PROVE IsEntry(kept, latest, e, k)
    OBVIOUS
  <2>1. e[k] \in [t : Nat, wk : 0 .. 100, wkReset : {latest}]
    <3>1. e \in [1 .. n -> [t : Nat, wk : 0 .. 100, wkReset : {latest}]]
      BY <1>1
    <3> QED BY <3>1
  <2>2. e[k] = [t |-> kept[k].r.t, wk |-> e[k].wk, wkReset |-> latest] /\ e[k].wk \in Nat
    <3>1. e[k].t = kept[k].r.t
      BY <1>1
    <3> QED BY <2>1, <3>1
  <2>3. kept[k].r.wk \in Nat
    BY <1>1, <1>3
  <2> QED BY <1>1, <2>2, <2>3 DEF IsEntry
<1>5. e = Upto(e, n)
  BY <1>1 DEF Upto
<1>6. AddEntries(InOrder(rows), latest) = e
  BY <1>1, <1>4, <1>5, EntriesLoop DEF n, keep, kept, latest
<1> QED BY <1>2, <1>6 DEF e

-----------------------------------------------------------------------------
(***************************************************************************)
(* What the account, the sessions and the tables have to do with each      *)
(* other.                                                                  *)
(***************************************************************************)
Readings == [wk : 0 .. MaxUsed, wkReset : Nat, ses : {Nil}, sesReset : {Nil}]
Payloads == Readings \union {NoReading}

TypeInv ==
  /\ clock \in 0 .. MaxClock /\ account \in 0 .. MaxUsed
  /\ peaks \in [Windows -> 0 .. MaxUsed]
  /\ seen \in [Session -> Payloads]
  /\ snaps \in [Session -> [payload : Payloads] \union {NoSnapshot}]
  /\ IsTable(hist) /\ \A s \in hist : s.id \in 1 .. MaxRows

\* A session of x may report this reset, of the window w.
Ends(w, x, reset) == \E j \in Wobble[x] : reset = Week * (w + 1) + j

\* Session x could have had this reading by now: its window has begun, and so
\* much was used in it.
IsReal(x, wk, reset) ==
  \E w \in 0 .. WindowOf(clock) : Ends(w, x, reset) /\ wk <= peaks[w]

\* A reading of window w, percentage wk, is no newer than another.
NoNewer(reset, wk, w, used) ==
  WindowEnding(reset) < w \/ (WindowEnding(reset) = w /\ wk <= used)

\* The readings are real, and so are the rows; the row of a reading is there
\* since it was first rendered, and none was written before its window began.
RealInv ==
  /\ account <= peaks[WindowOf(clock)]
  /\ \A x \in Session : seen[x] # NoReading => IsReal(x, seen[x].wk, seen[x].wkReset)
  /\ \A x \in Session : snaps[x] # NoSnapshot /\ snaps[x].payload # NoReading =>
       \E s \in hist : /\ s.r.session = x
                       /\ s.r.wk = snaps[x].payload.wk
                       /\ s.r.wkReset = snaps[x].payload.wkReset
  /\ \A s \in hist : /\ IsReal(s.r.session, s.r.wk, s.r.wkReset)
                     /\ s.r.t \in Week * WindowEnding(s.r.wkReset) .. clock

\* While the percentage is never taken back, what a session has seen is no
\* newer than the account, its snapshot no newer than that, nor its rows than
\* its snapshot.
OrderInv ==
  /\ dropped = Never \/ dropped \in Nat
  /\ dropped = Never => \A x \in Session :
       /\ seen[x] # NoReading =>
            NoNewer(seen[x].wkReset, seen[x].wk, WindowOf(clock), account)
       /\ snaps[x] # NoSnapshot /\ snaps[x].payload # NoReading =>
            /\ seen[x] # NoReading
            /\ NoNewer(snaps[x].payload.wkReset, snaps[x].payload.wk,
                       WindowEnding(seen[x].wkReset), seen[x].wk)
       /\ \A s \in hist : s.r.session = x =>
            /\ snaps[x] # NoSnapshot /\ snaps[x].payload # NoReading
            /\ NoNewer(s.r.wkReset, s.r.wk,
                       WindowEnding(snaps[x].payload.wkReset), snaps[x].payload.wk)

AccountInv == TypeInv /\ RealInv /\ OrderInv

LEMMA Bounds ==
  /\ Week \in Nat \ {0} /\ MaxUsed \in 0 .. 100 /\ MaxClock \in Nat /\ MaxRows \in Nat
  /\ PoolJitter \in Nat /\ MaxAhead \in Nat
  /\ \A x \in Session : \A j \in Wobble[x] :
       /\ j \in Nat /\ j <= ResetJitter /\ j <= PoolJitter /\ j < Week
       /\ Week + j <= MaxResetAhead /\ Week + j <= MaxAhead
  /\ 2 * ResetJitter < Week /\ 2 * PoolJitter < Week /\ Week <= KeepSecs
<1>1. \A x \in Session : Wobble[x] \in SUBSET Nat
  BY AccountAssumption
<1>2. /\ Week \in Nat \ {0} /\ MaxUsed \in 0 .. 100 /\ MaxClock \in Nat /\ MaxRows \in Nat
      /\ PoolJitter \in Nat /\ MaxAhead \in Nat
  BY AccountAssumption
<1>3. /\ \A x \in Session : \A j \in Wobble[x] :
           /\ j <= ResetJitter /\ j <= PoolJitter
           /\ Week + j <= MaxResetAhead /\ Week + j <= MaxAhead
      /\ 2 * ResetJitter < Week /\ 2 * PoolJitter < Week /\ Week <= KeepSecs
  BY PlausibleAssumption
<1>4. ASSUME NEW x \in Session, NEW j \in Wobble[x]
      PROVE  /\ j \in Nat /\ j <= ResetJitter /\ j <= PoolJitter /\ j < Week
             /\ Week + j <= MaxResetAhead /\ Week + j <= MaxAhead
  <2>1. j \in Nat /\ j <= ResetJitter /\ j <= PoolJitter
    BY <1>1, <1>3
  <2>2. Week + j <= MaxResetAhead /\ Week + j <= MaxAhead
    BY <1>3
  <2> QED BY <1>2, <1>3, <2>1, <2>2, Limits
<1> QED BY <1>2, <1>3, <1>4

LEMMA Times ==
  ASSUME NEW a \in Int, NEW b \in Int, a <= b
  PROVE  Week * a \in Int /\ Week * a <= Week * b /\ Week * (a + 1) = Week * a + Week
BY Bounds, Z3

LEMMA Apart ==
  ASSUME NEW a \in Int, NEW b \in Int, a < b
  PROVE  Week * a \in Int /\ Week * b \in Int /\ Week * a + Week <= Week * b
<1>1. Week \in Nat
  BY Bounds
<1>2. a + 1 <= b
  OBVIOUS
<1> QED BY <1>1, <1>2, Z3

\* The window of a time, and the one that a reset ends.
LEMMA WindowIs ==
  ASSUME NEW t \in Nat
  PROVE  /\ WindowOf(t) \in Nat
         /\ Week * WindowOf(t) \in Nat /\ Week * WindowOf(t) <= t
         /\ t < Week * WindowOf(t) + Week
<1> DEFINE w == t \div Week
<1>0. Week \in Nat \ {0} /\ t \in Int
  BY Bounds
<1>1. w \in Nat /\ w * Week <= t /\ t < (w + 1) * Week
  BY <1>0, Division
<1> HIDE DEF w
<1>2. w * Week = Week * w /\ (w + 1) * Week = Week * w + Week /\ Week * w \in Nat
  BY <1>1, Bounds, Z3
<1> QED BY <1>1, <1>2 DEF WindowOf, w

LEMMA OneQuotient ==
  ASSUME NEW a \in Int, NEW q \in Int, Week * q <= a, a < Week * q + Week
  PROVE  a \div Week = q
<1> DEFINE d == a \div Week
<1>1. d \in Int /\ d * Week <= a /\ a < (d + 1) * Week
  BY Bounds, Division
<1> HIDE DEF d
<1>2. Week \in Nat
  BY Bounds
<1>3. d * Week = Week * d /\ (d + 1) * Week = Week * d + Week /\ Week * d \in Int /\ Week * q \in Int
  BY <1>1, <1>2, Z3
<1>4. /\ d < q => Week * d + Week <= Week * q
      /\ q < d => Week * q + Week <= Week * d
  BY <1>1, Apart
<1> DEFINE wd == Week * d
           wq == Week * q
<1>5. /\ wd \in Int /\ wq \in Int /\ wd <= a /\ a < wd + Week /\ wq <= a /\ a < wq + Week
      /\ d < q => wd + Week <= wq
      /\ q < d => wq + Week <= wd
  BY <1>1, <1>3, <1>4
<1> HIDE DEF wd, wq
<1>6. ~ d < q /\ ~ q < d
  BY <1>1, <1>2, <1>5
<1> QED BY <1>1, <1>6 DEF d

LEMMA Monotone ==
  ASSUME NEW t \in Nat, NEW u \in Nat, t <= u
  PROVE  WindowOf(t) <= WindowOf(u)
<1>1. SUFFICES ASSUME WindowOf(u) + 1 <= WindowOf(t) PROVE FALSE
  BY WindowIs
<1>2. Week * (WindowOf(u) + 1) <= Week * WindowOf(t)
  BY <1>1, WindowIs, Times
<1>3. Week * (WindowOf(u) + 1) = Week * WindowOf(u) + Week
  BY WindowIs, Times
<1>4. Week * WindowOf(t) <= t /\ u < Week * WindowOf(u) + Week /\ Week * WindowOf(u) \in Nat /\ Week * WindowOf(t) \in Nat
  BY WindowIs
<1> QED BY <1>2, <1>3, <1>4, Bounds

LEMMA EndIs ==
  ASSUME NEW w \in Nat, NEW x \in Session, NEW reset, Ends(w, x, reset)
  PROVE  /\ reset \in Nat /\ WindowEnding(reset) = w
         /\ Week * w \in Nat /\ Week * w + Week <= reset
         /\ reset <= Week * w + Week + ResetJitter
         /\ reset <= Week * w + Week + PoolJitter
         /\ reset <= Week * w + MaxResetAhead /\ reset <= Week * w + MaxAhead
<1>1. PICK j \in Wobble[x] : reset = Week * (w + 1) + j
  BY DEF Ends
<1>2. /\ j \in Nat /\ j <= ResetJitter /\ j <= PoolJitter /\ j < Week
      /\ Week + j <= MaxResetAhead /\ Week + j <= MaxAhead
  BY Bounds
<1>3. Week * w \in Nat /\ Week * (w + 1) = Week * w + Week
  BY Bounds, Times, Z3
<1>4. reset = Week * w + Week + j
  BY <1>1, <1>3
<1>5. reset \div Week = w + 1
  <2>1. Week * (w + 1) <= reset /\ reset < Week * (w + 1) + Week /\ reset \in Int
    BY <1>2, <1>3, <1>4, Bounds
  <2> QED BY <2>1, OneQuotient
<1>6. WindowEnding(reset) = w
  BY <1>5 DEF WindowEnding
<1> DEFINE begin == Week * w
<1>7. begin \in Nat /\ reset = begin + Week + j
  BY <1>3, <1>4
<1> HIDE DEF begin
<1>8. /\ reset \in Nat /\ begin + Week <= reset
      /\ reset <= begin + Week + ResetJitter /\ reset <= begin + Week + PoolJitter
      /\ reset <= begin + MaxResetAhead /\ reset <= begin + MaxAhead
  BY <1>2, <1>7, Bounds, Limits
<1> QED BY <1>3, <1>6, <1>8 DEF begin

\* Resets are of one window exactly when they are close.
LEMMA SameEnd ==
  ASSUME NEW w \in Nat, NEW x \in Session, NEW reset, Ends(w, x, reset),
         NEW v \in Nat, NEW y \in Session, NEW other, Ends(v, y, other), other <= reset
  PROVE  /\ v <= w
         /\ reset - other <= ResetJitter <=> v = w
         /\ reset - other <= PoolJitter <=> v = w
<1> DEFINE begin == Week * w
           start == Week * v
<1>1. /\ reset \in Nat /\ begin \in Nat /\ begin + Week <= reset
      /\ reset <= begin + Week + ResetJitter /\ reset <= begin + Week + PoolJitter
  BY EndIs
<1>2. /\ other \in Nat /\ start \in Nat /\ start + Week <= other
      /\ other <= start + Week + ResetJitter /\ other <= start + Week + PoolJitter
  BY EndIs
<1>3. w < v => begin + Week <= start
  BY Apart
<1>4. v < w => start + Week <= begin
  BY Apart
<1>5. v = w => start = begin
  OBVIOUS
<1> HIDE DEF begin, start
<1>6. v <= w
  BY <1>1, <1>2, <1>3, Bounds, Limits
<1>7. v = w => reset - other <= ResetJitter /\ reset - other <= PoolJitter
  BY <1>1, <1>2, <1>5, Limits, Bounds
<1>8. v < w => ~ reset - other <= ResetJitter /\ ~ reset - other <= PoolJitter
  BY <1>1, <1>2, <1>4, Limits, Bounds
<1> QED BY <1>6, <1>7, <1>8

LEMMA InWindows ==
  ASSUME TypeInv
  PROVE  /\ clock \in Nat /\ WindowOf(clock) \in Nat /\ 0 .. WindowOf(clock) \subseteq Windows
         /\ \A w \in Windows : peaks[w] \in Nat /\ peaks[w] <= MaxUsed
<1>1. clock \in Nat /\ clock <= MaxClock /\ MaxClock \in Nat
  BY Bounds DEF TypeInv
<1>2. WindowOf(clock) \in Nat /\ WindowOf(MaxClock) \in Nat /\ WindowOf(clock) <= WindowOf(MaxClock)
  BY <1>1, WindowIs, Monotone
<1>3. Windows = 0 .. WindowOf(MaxClock)
  BY DEF Windows, WindowOf
<1>4. 0 .. WindowOf(clock) \subseteq Windows
  BY <1>2, <1>3
<1>5. MaxUsed \in Nat
  BY Bounds
<1>6. \A w \in Windows : peaks[w] \in 0 .. MaxUsed
  BY DEF TypeInv
<1> QED BY <1>1, <1>2, <1>4, <1>5, <1>6

\* A reading is not taken for none.
LEMMA PayloadIs ==
  /\ \A p \in Readings : /\ p # NoReading /\ p.wk \in Nat /\ p.wk <= MaxUsed /\ p.wk <= 100
                         /\ p.wkReset \in Nat /\ p.ses = Nil /\ p.sesReset = Nil
  /\ \A p \in Payloads : /\ p # NoReading => p \in Readings
                         /\ [payload |-> p] # NoSnapshot
  /\ NoReading \in Payloads
<1>1. ASSUME NEW p \in Readings
      PROVE  /\ p # NoReading /\ p.wk \in Nat /\ p.wk <= MaxUsed /\ p.wk <= 100
             /\ p.wkReset \in Nat /\ p.ses = Nil /\ p.sesReset = Nil
  <2>1. p.wk \in 0 .. MaxUsed /\ p.wkReset \in Nat /\ p.ses = Nil /\ p.sesReset = Nil
    BY DEF Readings
  <2>2. p.wk \in Nat /\ p.wk <= MaxUsed /\ p.wk <= 100
    BY <2>1, Bounds
  <2>3. NoReading.wk \notin Int
    BY Limits DEF NoReading
  <2> QED BY <2>1, <2>2, <2>3
<1>2. Payloads \subseteq PayloadType
  <2>1. Readings \subseteq PayloadType
    BY Bounds DEF Readings, PayloadType, OptInt
  <2>2. NoReading \in PayloadType
    BY DEF NoReading, PayloadType, OptInt
  <2> QED BY <2>1, <2>2 DEF Payloads
<1>3. Nil \notin Payloads
  BY <1>2, PlausibleAssumption
<1>4. ASSUME NEW p \in Payloads PROVE [payload |-> p] # NoSnapshot
  <2>1. [payload |-> p].payload = p /\ NoSnapshot.payload = Nil
    BY DEF NoSnapshot
  <2> QED BY <1>3, <2>1
<1> QED BY <1>1, <1>4 DEF Payloads

LEMMA SnapshotIs ==
  ASSUME TypeInv, NEW x \in Session, snaps[x] # NoSnapshot
  PROVE  snaps[x].payload \in Payloads /\ snaps[x] = [payload |-> snaps[x].payload]
BY DEF TypeInv

\* The greatest rowid of a table, and that of a session's last row.
LEMMA GreatestId ==
  ASSUME NEW h \in SUBSET hist, h # {}, TypeInv
  PROVE  /\ Max({s.id : s \in h}) \in Nat
         /\ \E s \in h : s.id = Max({u.id : u \in h})
         /\ \A s \in h : s.id \in Nat /\ s.id <= Max({u.id : u \in h})
<1> DEFINE ids == {s.id : s \in h}
<1>1. \A s \in h : s.id \in Nat /\ s.id <= MaxRows
  BY Bounds DEF TypeInv
<1>2. ids \in SUBSET Nat /\ ids # {} /\ \A n \in ids : n <= MaxRows
  BY <1>1
<1>3. Max(ids) \in ids /\ \A n \in ids : n <= Max(ids)
  <2> HIDE DEF ids
  <2> QED BY <1>2, MaxIsIn, Bounds
<1> QED BY <1>1, <1>2, <1>3

LEMMA NextIdIs ==
  ASSUME TypeInv
  PROVE  NextId(hist) \in Nat \ {0} /\ \A s \in hist : s.id < NextId(hist)
<1>1. CASE hist = {}
  BY <1>1 DEF NextId
<1>2. CASE hist # {}
  <2> DEFINE greatest == Max({s.id : s \in hist})
  <2>1. NextId(hist) = greatest + 1
    BY <1>2 DEF NextId
  <2>2. greatest \in Nat /\ \A s \in hist : s.id \in Nat /\ s.id <= greatest
    BY <1>2, GreatestId
  <2> HIDE DEF greatest
  <2> QED BY <2>1, <2>2
<1> QED BY <1>1, <1>2

LEMMA LastRowIs ==
  ASSUME TypeInv, NEW x, RowsOfSession(hist, x) # {}
  PROVE  LastSessionRow(hist, x) \in hist /\ LastSessionRow(hist, x).r.session = x
<1> DEFINE rows == RowsOfSession(hist, x)
<1>1. rows \in SUBSET hist /\ rows # {}
  BY DEF RowsOfSession
<1>2. \E s \in rows : \A u \in rows : u.id <= s.id
  <2> HIDE DEF rows
  <2>1. PICK s \in rows : s.id = Max({u.id : u \in rows})
    BY <1>1, GreatestId
  <2> QED BY <1>1, <2>1, GreatestId
<1>3. LastSessionRow(hist, x) \in rows
  BY <1>2 DEF LastSessionRow
<1> QED BY <1>3 DEF RowsOfSession

LEMMA RealIs ==
  ASSUME TypeInv, NEW x \in Session, NEW wk \in Nat, NEW reset, IsReal(x, wk, reset)
  PROVE  /\ reset \in Nat /\ WindowEnding(reset) \in 0 .. WindowOf(clock)
         /\ Ends(WindowEnding(reset), x, reset) /\ wk <= peaks[WindowEnding(reset)]
         /\ Week * WindowEnding(reset) \in Nat /\ Week * WindowEnding(reset) <= clock
         /\ reset <= clock + MaxResetAhead /\ reset <= clock + MaxAhead
<1>1. PICK w \in 0 .. WindowOf(clock) : Ends(w, x, reset) /\ wk <= peaks[w]
  BY DEF IsReal
<1>2. w \in Nat /\ w <= WindowOf(clock) /\ clock \in Nat
  BY InWindows
<1>3. /\ reset \in Nat /\ WindowEnding(reset) = w /\ Week * w \in Nat
      /\ reset <= Week * w + MaxResetAhead /\ reset <= Week * w + MaxAhead
  BY <1>1, <1>2, EndIs
<1>4. Week * w <= Week * WindowOf(clock)
  BY <1>2, WindowIs, Times
<1>5. Week * WindowOf(clock) <= clock /\ Week * WindowOf(clock) \in Nat
  BY <1>2, WindowIs
<1> DEFINE begin == Week * w
           current == Week * WindowOf(clock)
<1>6. begin \in Nat /\ current \in Nat /\ begin <= current /\ current <= clock
  BY <1>3, <1>4, <1>5
<1>7. reset <= begin + MaxResetAhead /\ reset <= begin + MaxAhead
  BY <1>3
<1> HIDE DEF begin, current
<1>8. reset <= clock + MaxResetAhead /\ reset <= clock + MaxAhead /\ begin <= clock
  BY <1>2, <1>3, <1>6, <1>7, Limits, Bounds
<1> QED BY <1>1, <1>3, <1>8 DEF begin

\* What a render of a real reading does.
LEMMA Rendered ==
  ASSUME TypeInv, RealInv, NEW x \in Session, Render(x)
  PROVE  /\ UNCHANGED <<world, seen>>
         /\ snaps' = [snaps EXCEPT ![x] = [payload |-> seen[x]]]
         /\ \/ seen[x] = NoReading /\ hist' = hist
            \/ /\ seen[x] \in Readings /\ hist' = hist
               /\ \E s \in hist : /\ s.r.session = x /\ s.r.wk = seen[x].wk
                                  /\ s.r.wkReset = seen[x].wkReset
            \/ /\ seen[x] \in Readings
               /\ \E s \in [id : Nat, r : RowType] :
                    /\ hist' = hist \union {s} /\ s.id \in 1 .. MaxRows
                    /\ \A u \in hist : u.id < s.id
                    /\ s.r.session = x /\ s.r.t = clock
                    /\ s.r.wk = seen[x].wk /\ s.r.wkReset = seen[x].wkReset
<1> DEFINE r == PreparedRow(seen[x], clock, x)
           s == [id |-> NextId(hist), r |-> r]
<1>1. /\ UNCHANGED <<world, seen>>
      /\ snaps' = [snaps EXCEPT ![x] = [payload |-> seen[x]]]
      /\ IF Appends(hist, r)
         THEN NextId(hist) <= MaxRows /\ hist' = hist \union {s}
         ELSE UNCHANGED hist
  BY DEF Render
<1>2. r.wk = sanePct(seen[x].wk) /\ r.wkReset = saneReset(seen[x].wkReset, clock)
  BY DEF PreparedRow
<1>3. CASE seen[x] = NoReading
  <2>1. r.wk = Nil
    BY <1>2, <1>3 DEF NoReading, sanePct
  <2>2. ~ Appends(hist, r)
    BY <2>1 DEF Appends
  <2> QED BY <1>1, <1>3, <2>2
<1>4. CASE seen[x] # NoReading
  <2>1. seen[x] \in Readings
    BY <1>4, PayloadIs DEF TypeInv
  <2>2. /\ seen[x].wk \in Nat /\ seen[x].wk <= 100 /\ seen[x].wkReset \in Nat
        /\ seen[x].ses = Nil /\ seen[x].sesReset = Nil
    BY <2>1, PayloadIs
  <2>3. IsReal(x, seen[x].wk, seen[x].wkReset)
    BY <1>4 DEF RealInv
  <2>4. seen[x].wkReset <= clock + MaxResetAhead /\ clock \in Nat
    BY <2>2, <2>3, RealIs, InWindows
  <2> DEFINE wk == seen[x].wk
             reset == seen[x].wkReset
  <2>5. sanePct(wk) = wk
    <3>1. wk # Nil /\ ~ wk < 0 /\ ~ wk >= 10000 /\ ~ wk > 100
      <4>1. wk \in Nat /\ wk <= 100
        BY <2>2
      <4> HIDE DEF wk
      <4> QED BY <4>1, Limits
    <3> QED BY <3>1 DEF sanePct
  <2>6. saneReset(reset, clock) = reset
    <3>1. ~ reset > clock + MaxResetAhead
      BY <2>2, <2>4, Limits
    <3> QED BY <3>1 DEF saneReset
  <2>7. r = [t |-> clock, wk |-> wk, wkReset |-> reset, ses |-> Nil, sesReset |-> Nil,
             session |-> x]
    <3>1. sanePct(Nil) = Nil /\ saneReset(Nil, clock) = Nil
      BY DEF sanePct, saneReset
    <3>2. r = [t |-> clock, wk |-> sanePct(wk), wkReset |-> saneReset(reset, clock),
               ses |-> sanePct(seen[x].ses), sesReset |-> saneReset(seen[x].sesReset, clock),
               session |-> x]
      BY DEF PreparedRow
    <3> HIDE DEF wk, reset, r
    <3> QED BY <2>2, <2>5, <2>6, <3>1, <3>2
  <2>8. wk \in 0 .. 100 /\ wk # Nil /\ reset \in OptInt /\ Nil \in OptInt
    BY <2>2, Limits DEF OptInt
  <2> HIDE DEF wk, reset, r
  <2>9. r \in RowType /\ r.wk = wk /\ r.wkReset = reset /\ r.t = clock /\ r.session = x
    BY <2>4, <2>7, <2>8 DEF RowType
  <2>10. CASE Appends(hist, r)
    <3>1. NextId(hist) <= MaxRows /\ hist' = hist \union {s}
      BY <1>1, <2>10
    <3>2. NextId(hist) \in Nat \ {0} /\ \A u \in hist : u.id < NextId(hist)
      BY NextIdIs
    <3>3. s \in [id : Nat, r : RowType] /\ s.id = NextId(hist) /\ s.r = r
      BY <2>9, <3>2
    <3>4. s.id \in 1 .. MaxRows
      BY <3>1, <3>2, <3>3, Bounds
    <3> HIDE DEF s
    <3>5. /\ hist' = hist \union {s} /\ s.id \in 1 .. MaxRows
          /\ \A u \in hist : u.id < s.id
          /\ s.r.session = x /\ s.r.t = clock
          /\ s.r.wk = seen[x].wk /\ s.r.wkReset = seen[x].wkReset
      BY <2>9, <3>1, <3>2, <3>3, <3>4 DEF wk, reset
    <3> QED BY <1>1, <2>1, <3>3, <3>5
  <2>11. CASE ~ Appends(hist, r)
    <3>1. hist' = hist
      BY <1>1, <2>11
    <3>2. RowsOfSession(hist, x) # {} /\ skip(LastSessionRow(hist, x).r, r)
      BY <2>8, <2>9, <2>11 DEF Appends
    <3> DEFINE u == LastSessionRow(hist, x)
    <3>3. u \in hist /\ u.r.session = x
      BY <3>2, LastRowIs
    <3>4. u.r.wk = seen[x].wk /\ u.r.wkReset = seen[x].wkReset
      BY <2>9, <3>2 DEF skip, wk, reset
    <3> HIDE DEF u
    <3> QED BY <1>1, <2>1, <3>1, <3>3, <3>4
  <2> QED BY <2>10, <2>11
<1> QED BY <1>3, <1>4

-----------------------------------------------------------------------------
(***************************************************************************)
(* The invariant.                                                          *)
(***************************************************************************)
LEMMA InitInv == Init => AccountInv
<1> SUFFICES ASSUME Init PROVE AccountInv
  OBVIOUS
<1>1. clock = 0 /\ account = 0 /\ hist = {} /\ dropped = Never
  BY DEF Init
<1>2. 0 \in 0 .. MaxUsed /\ 0 \in 0 .. MaxClock
  BY Bounds
<1>3. WindowOf(0) \in Nat /\ WindowOf(MaxClock) \in Nat /\ WindowOf(0) <= WindowOf(MaxClock)
  <2>1. 0 \in Nat /\ MaxClock \in Nat /\ 0 <= MaxClock
    BY Bounds
  <2> QED BY <2>1, WindowIs, Monotone
<1>4. Windows = 0 .. WindowOf(MaxClock)
  BY DEF Windows, WindowOf
<1>5. WindowOf(clock) \in Windows
  BY <1>1, <1>3, <1>4
<1>6. peaks = [w \in Windows |-> 0]
  BY DEF Init
<1>7. account <= peaks[WindowOf(clock)]
  BY <1>1, <1>5, <1>6
<1>8. \A x \in Session : seen[x] = NoReading /\ snaps[x] = NoSnapshot
  BY DEF Init
<1>9. IsTable(hist)
  BY <1>1, FS_EmptySet DEF IsTable
<1>10. seen \in [Session -> Payloads] /\ snaps \in [Session -> [payload : Payloads] \union {NoSnapshot}]
  <2>1. seen = [x \in Session |-> NoReading] /\ snaps = [x \in Session |-> NoSnapshot]
    BY DEF Init
  <2> QED BY <2>1 DEF Payloads
<1>11. TypeInv
  BY <1>1, <1>2, <1>6, <1>9, <1>10 DEF TypeInv
<1>12. RealInv
  BY <1>1, <1>7, <1>8 DEF RealInv
<1>13. OrderInv
  BY <1>1, <1>8 DEF OrderInv
<1> QED BY <1>11, <1>12, <1>13 DEF AccountInv

\* What was real stays so, as long as time and the peaks only rise.
LEMMA StaysReal ==
  ASSUME TypeInv, WindowOf(clock') \in Nat, WindowOf(clock) <= WindowOf(clock'),
         \A w \in 0 .. WindowOf(clock) : peaks'[w] \in Nat /\ peaks[w] <= peaks'[w],
         NEW x, NEW wk \in Nat, NEW reset, IsReal(x, wk, reset)
  PROVE  \E w \in 0 .. WindowOf(clock') : Ends(w, x, reset) /\ wk <= peaks'[w]
<1>1. PICK w \in 0 .. WindowOf(clock) : Ends(w, x, reset) /\ wk <= peaks[w]
  BY DEF IsReal
<1>2. w \in 0 .. WindowOf(clock')
  BY InWindows
<1>3. peaks[w] \in Nat /\ peaks'[w] \in Nat /\ peaks[w] <= peaks'[w]
  BY InWindows
<1>4. wk <= peaks'[w]
  BY <1>1, <1>3
<1> QED BY <1>1, <1>2, <1>4

\* A step in which only the account and the time change.
LEMMA WorldMoves ==
  ASSUME TypeInv, RealInv, UNCHANGED <<seen, hist, snaps>>,
         clock' \in 0 .. MaxClock, clock <= clock', account' \in 0 .. MaxUsed,
         peaks' \in [Windows -> 0 .. MaxUsed], account' <= peaks'[WindowOf(clock')],
         \A w \in Windows : peaks[w] <= peaks'[w]
  PROVE  TypeInv' /\ RealInv'
<1>1. TypeInv'
  BY DEF TypeInv, Windows, IsTable, Payloads
<1>2. clock \in Nat /\ clock' \in Nat /\ WindowOf(clock) \in Nat /\ WindowOf(clock') \in Nat
  BY <1>1, WindowIs, Bounds DEF TypeInv
<1>3. WindowOf(clock) <= WindowOf(clock')
  BY <1>2, Monotone
<1>4. \A w \in 0 .. WindowOf(clock) : peaks'[w] \in Nat /\ peaks[w] <= peaks'[w]
  BY InWindows, Bounds
<1>5. ASSUME NEW x, NEW wk \in Nat, NEW reset, IsReal(x, wk, reset)
      PROVE  \E w \in 0 .. WindowOf(clock') : Ends(w, x, reset) /\ wk <= peaks'[w]
  BY <1>2, <1>3, <1>4, <1>5, StaysReal
<1>6. ASSUME NEW x \in Session, seen[x] # NoReading
      PROVE  IsReal(x, seen[x].wk, seen[x].wkReset)'
  <2>1. seen[x].wk \in Nat
    BY <1>6, PayloadIs DEF TypeInv
  <2>2. IsReal(x, seen[x].wk, seen[x].wkReset)
    BY <1>6 DEF RealInv
  <2>3. \E w \in 0 .. WindowOf(clock') : Ends(w, x, seen[x].wkReset) /\ seen[x].wk <= peaks'[w]
    BY <1>5, <2>1, <2>2
  <2>4. seen'[x] = seen[x]
    OBVIOUS
  <2> QED BY <2>3, <2>4 DEF IsReal, Ends
<1>7. ASSUME NEW s \in hist
      PROVE  /\ IsReal(s.r.session, s.r.wk, s.r.wkReset)'
             /\ s.r.t \in Week * WindowEnding(s.r.wkReset) .. clock'
  <2>1. s.r.wk \in Nat
    <3>1. s.r \in RowType
      BY DEF TypeInv, IsTable
    <3> QED BY <3>1 DEF RowType
  <2>2. /\ IsReal(s.r.session, s.r.wk, s.r.wkReset)
        /\ s.r.t \in Week * WindowEnding(s.r.wkReset) .. clock
    BY DEF RealInv
  <2>3. s.r.t \in Week * WindowEnding(s.r.wkReset) .. clock'
    BY <1>2, <2>2
  <2>4. \E w \in 0 .. WindowOf(clock') : Ends(w, s.r.session, s.r.wkReset) /\ s.r.wk <= peaks'[w]
    BY <1>5, <2>1, <2>2
  <2>5. IsReal(s.r.session, s.r.wk, s.r.wkReset)'
    BY <2>4 DEF IsReal, Ends
  <2> QED BY <2>3, <2>5
<1>8. RealInv'
  BY <1>6, <1>7 DEF RealInv
<1> QED BY <1>1, <1>8

LEMMA WorldReal ==
  ASSUME TypeInv, RealInv, Use \/ TakenBack \/ Tick
  PROVE  TypeInv' /\ RealInv'
<1> DEFINE w == WindowOf(clock)
<1>1. /\ clock \in Nat /\ clock <= MaxClock /\ MaxClock \in Nat /\ MaxUsed \in Nat
      /\ account \in Nat /\ account <= MaxUsed /\ account <= peaks[w]
      /\ w \in Windows /\ peaks \in [Windows -> 0 .. MaxUsed]
  <2>1. MaxClock \in Nat /\ MaxUsed \in Nat
    BY Bounds
  <2>2. w \in Windows
    BY InWindows
  <2> QED BY <2>1, <2>2 DEF TypeInv, RealInv
<1>2. CASE Use
  <2>1. /\ account < MaxUsed /\ account' = account + 1 /\ clock' = clock
        /\ peaks' = [peaks EXCEPT ![w] = IF @ > account THEN @ ELSE account + 1]
        /\ UNCHANGED <<seen, hist, snaps>>
    BY <1>2 DEF Use
  <2>2. account' \in 0 .. MaxUsed /\ clock' \in 0 .. MaxClock /\ clock <= clock'
    BY <1>1, <2>1
  <2>3. \A v \in Windows : peaks[v] \in Nat /\ peaks[v] <= MaxUsed
    BY InWindows
  <2> DEFINE now == IF peaks[w] > account THEN peaks[w] ELSE account + 1
  <2>4. now \in 0 .. MaxUsed /\ account + 1 <= now /\ peaks[w] <= now
    BY <1>1, <2>1, <2>3
  <2>5. peaks' = [peaks EXCEPT ![w] = now]
    BY <2>1
  <2> HIDE DEF now
  <2>6. peaks' \in [Windows -> 0 .. MaxUsed]
    BY <1>1, <2>4, <2>5
  <2>7. \A v \in Windows : peaks[v] <= peaks'[v]
    BY <1>1, <2>3, <2>4, <2>5
  <2>8. account' <= peaks'[WindowOf(clock')]
    <3>1. WindowOf(clock') = w
      BY <2>1
    <3>2. peaks'[w] = now
      BY <1>1, <2>5
    <3> QED BY <2>1, <2>4, <3>1, <3>2
  <2> QED BY <2>1, <2>2, <2>6, <2>7, <2>8, WorldMoves
<1>3. CASE TakenBack
  <2>1. account' = 0 /\ clock' = clock /\ peaks' = peaks /\ UNCHANGED <<seen, hist, snaps>>
    BY <1>3 DEF TakenBack
  <2>2. account' \in 0 .. MaxUsed /\ clock' \in 0 .. MaxClock /\ clock <= clock'
    BY <1>1, <2>1
  <2>3. \A v \in Windows : peaks[v] \in Nat
    BY InWindows
  <2>4. peaks' \in [Windows -> 0 .. MaxUsed] /\ \A v \in Windows : peaks[v] <= peaks'[v]
    BY <1>1, <2>1, <2>3
  <2>5. account' <= peaks'[WindowOf(clock')]
    <3>1. peaks'[WindowOf(clock')] = peaks[w]
      BY <2>1
    <3> QED BY <1>1, <2>1, <2>3, <3>1
  <2> QED BY <2>1, <2>2, <2>4, <2>5, WorldMoves
<1>4. CASE Tick
  <2>1. /\ clock < MaxClock /\ clock' = clock + 1 /\ peaks' = peaks
        /\ account' = IF WindowOf(clock') = w THEN account ELSE 0
        /\ UNCHANGED <<seen, hist, snaps>>
    BY <1>4 DEF Tick
  <2>2. clock' \in 0 .. MaxClock /\ clock <= clock' /\ clock' \in Nat
    BY <1>1, <2>1
  <2>3. \A v \in Windows : peaks[v] \in Nat
    BY InWindows
  <2>4. peaks' \in [Windows -> 0 .. MaxUsed] /\ \A v \in Windows : peaks[v] <= peaks'[v]
    BY <1>1, <2>1, <2>3
  <2>5. WindowOf(clock') \in Windows
    <3>1. WindowOf(clock') \in Nat /\ WindowOf(MaxClock) \in Nat /\ WindowOf(clock') <= WindowOf(MaxClock)
      BY <1>1, <2>1, <2>2, WindowIs, Monotone
    <3>2. Windows = 0 .. WindowOf(MaxClock)
      BY DEF Windows, WindowOf
    <3> QED BY <3>1, <3>2
  <2>6. account' \in 0 .. MaxUsed /\ account' <= peaks'[WindowOf(clock')]
    <3>1. CASE WindowOf(clock') = w
      BY <1>1, <2>1, <3>1
    <3>2. CASE WindowOf(clock') # w
      <4>1. account' = 0
        BY <2>1, <3>2
      <4>2. peaks'[WindowOf(clock')] \in Nat
        BY <2>1, <2>3, <2>5
      <4> QED BY <1>1, <4>1, <4>2
    <3> QED BY <3>1, <3>2
  <2> QED BY <2>1, <2>2, <2>4, <2>6, WorldMoves
<1> QED BY <1>2, <1>3, <1>4

\* What a turn brings.
LEMMA Turned ==
  ASSUME TypeInv, RealInv, NEW x \in Session, Turn(x)
  PROVE  /\ UNCHANGED <<world, hist, snaps>>
         /\ seen'[x] \in Readings /\ seen'[x].wk = account
         /\ IsReal(x, account, seen'[x].wkReset)
         /\ WindowEnding(seen'[x].wkReset) = WindowOf(clock)
         /\ seen' \in [Session -> Payloads] /\ \A y \in Session \ {x} : seen'[y] = seen[y]
<1>1. PICK j \in Wobble[x] :
        seen' = [seen EXCEPT ![x] = [wk |-> account, wkReset |-> ResetAt(clock) + j,
                                     ses |-> Nil, sesReset |-> Nil]]
  BY DEF Turn
<1> DEFINE reset == ResetAt(clock) + j
           p == [wk |-> account, wkReset |-> reset, ses |-> Nil, sesReset |-> Nil]
<1>2. WindowOf(clock) \in Nat /\ WindowOf(clock) \in 0 .. WindowOf(clock)
  BY InWindows
<1>3. Ends(WindowOf(clock), x, reset)
  BY DEF Ends, ResetAt
<1>4. reset \in Nat /\ WindowEnding(reset) = WindowOf(clock)
  <2> HIDE DEF reset
  <2> QED BY <1>2, <1>3, EndIs
<1>5. account \in 0 .. MaxUsed /\ account <= peaks[WindowOf(clock)]
  BY DEF TypeInv, RealInv
<1>6. seen' = [seen EXCEPT ![x] = p]
  BY <1>1
<1> HIDE DEF reset
<1>7. p \in Readings /\ p.wk = account /\ p.wkReset = reset
  BY <1>4, <1>5 DEF Readings
<1>8. IsReal(x, account, reset)
  BY <1>2, <1>3, <1>5 DEF IsReal
<1> HIDE DEF p
<1>9. seen'[x] = p /\ seen' \in [Session -> Payloads] /\ \A y \in Session \ {x} : seen'[y] = seen[y]
  BY <1>6, <1>7 DEF TypeInv, Payloads
<1>10. UNCHANGED <<world, hist, snaps>>
  BY DEF Turn
<1> QED BY <1>4, <1>7, <1>8, <1>9, <1>10

LEMMA TurnReal ==
  ASSUME TypeInv, RealInv, NEW x \in Session, Turn(x)
  PROVE  TypeInv' /\ RealInv'
<1>1. /\ clock' = clock /\ account' = account /\ peaks' = peaks /\ hist' = hist /\ snaps' = snaps
      /\ seen'[x] \in Readings /\ seen'[x].wk = account
      /\ IsReal(x, account, seen'[x].wkReset)
      /\ seen' \in [Session -> Payloads] /\ \A y \in Session \ {x} : seen'[y] = seen[y]
  BY Turned DEF world
<1>2. TypeInv'
  BY <1>1 DEF TypeInv, IsTable, Windows
<1>3. \A y, wk, reset : IsReal(y, wk, reset) =>
        \E w \in 0 .. WindowOf(clock') : Ends(w, y, reset) /\ wk <= peaks'[w]
  BY <1>1 DEF IsReal
<1>4. ASSUME NEW y \in Session, seen'[y] # NoReading
      PROVE  IsReal(y, seen[y].wk, seen[y].wkReset)'
  <2>1. CASE y = x
    <3>1. \E w \in 0 .. WindowOf(clock') : Ends(w, x, seen'[x].wkReset) /\ seen'[x].wk <= peaks'[w]
      BY <1>1, <1>3
    <3> QED BY <2>1, <3>1 DEF IsReal, Ends
  <2>2. CASE y # x
    <3>1. seen'[y] = seen[y] /\ IsReal(y, seen[y].wk, seen[y].wkReset)
      BY <1>1, <1>4, <2>2 DEF RealInv
    <3>2. \E w \in 0 .. WindowOf(clock') : Ends(w, y, seen[y].wkReset) /\ seen[y].wk <= peaks'[w]
      BY <1>3, <3>1
    <3> QED BY <3>1, <3>2 DEF IsReal, Ends
  <2> QED BY <2>1, <2>2
<1>5. ASSUME NEW s \in hist
      PROVE  /\ IsReal(s.r.session, s.r.wk, s.r.wkReset)'
             /\ s.r.t \in Week * WindowEnding(s.r.wkReset) .. clock'
  <2>1. /\ IsReal(s.r.session, s.r.wk, s.r.wkReset)
        /\ s.r.t \in Week * WindowEnding(s.r.wkReset) .. clock
    BY DEF RealInv
  <2> QED BY <1>1, <1>3, <2>1 DEF IsReal, Ends
<1>6. account' <= peaks'[WindowOf(clock')]
  BY <1>1 DEF RealInv
<1>7. \A y \in Session : snaps'[y] # NoSnapshot /\ snaps'[y].payload # NoReading =>
       \E s \in hist' : /\ s.r.session = y
                        /\ s.r.wk = snaps'[y].payload.wk
                        /\ s.r.wkReset = snaps'[y].payload.wkReset
  BY <1>1 DEF RealInv
<1> QED BY <1>1, <1>2, <1>4, <1>5, <1>6, <1>7 DEF RealInv

\* The snapshots after a render.
LEMMA SnapshotTaken ==
  ASSUME TypeInv, NEW x \in Session,
         snaps' = [snaps EXCEPT ![x] = [payload |-> seen[x]]]
  PROVE  /\ snaps' \in [Session -> [payload : Payloads] \union {NoSnapshot}]
         /\ snaps'[x] # NoSnapshot /\ snaps'[x].payload = seen[x]
         /\ \A y \in Session \ {x} : snaps'[y] = snaps[y]
<1> DEFINE snapshot == [payload |-> seen[x]]
           Those == [payload : Payloads] \union {NoSnapshot}
<1>1. seen[x] \in Payloads
  BY DEF TypeInv
<1>2. snapshot \in Those /\ snapshot # NoSnapshot /\ snapshot.payload = seen[x]
  BY <1>1, PayloadIs
<1>3. snaps \in [Session -> Those] /\ snaps' = [snaps EXCEPT ![x] = snapshot]
  BY DEF TypeInv
<1> HIDE DEF snapshot, Those
<1>4. snaps' \in [Session -> Those] /\ snaps'[x] = snapshot /\ \A y \in Session \ {x} : snaps'[y] = snaps[y]
  BY <1>2, <1>3
<1> QED BY <1>2, <1>4 DEF Those

LEMMA TableGrows ==
  ASSUME IsTable(hist), NEW s \in [id : Nat, r : RowType], hist' = hist \union {s},
         \A u \in hist : u.id < s.id
  PROVE  IsTable(hist)'
<1>1. IsFiniteSet(hist')
  BY FS_AddElement DEF IsTable
<1>2. hist' \subseteq [id : Nat, r : RowType]
  BY DEF IsTable
<1>3. \A u \in hist : u.id \in Nat /\ u.id # s.id
  BY DEF IsTable
<1>4. \A u, v \in hist' : u.id = v.id => u = v
  BY <1>3 DEF IsTable
<1> QED BY <1>1, <1>2, <1>4 DEF IsTable

LEMMA RenderReal ==
  ASSUME TypeInv, RealInv, NEW x \in Session, Render(x)
  PROVE  TypeInv' /\ RealInv'
<1>1. /\ clock' = clock /\ account' = account /\ peaks' = peaks /\ seen' = seen
      /\ snaps' = [snaps EXCEPT ![x] = [payload |-> seen[x]]]
  BY Rendered DEF world
<1>2. /\ snaps' \in [Session -> [payload : Payloads] \union {NoSnapshot}]
      /\ snaps'[x] # NoSnapshot /\ snaps'[x].payload = seen[x]
      /\ \A y \in Session \ {x} : snaps'[y] = snaps[y]
  BY <1>1, SnapshotTaken
<1>3. \A y, wk, reset : IsReal(y, wk, reset) =>
        \E w \in 0 .. WindowOf(clock') : Ends(w, y, reset) /\ wk <= peaks'[w]
  BY <1>1 DEF IsReal
<1>4. \A y \in Session : seen'[y] # NoReading => IsReal(y, seen[y].wk, seen[y].wkReset)'
  BY <1>1 DEF RealInv, IsReal, Ends
<1>5. account' <= peaks'[WindowOf(clock')]
  BY <1>1 DEF RealInv
<1>6. \A s \in hist : /\ IsReal(s.r.session, s.r.wk, s.r.wkReset)'
                      /\ s.r.t \in Week * WindowEnding(s.r.wkReset) .. clock'
  BY <1>1, <1>3 DEF RealInv, IsReal, Ends
<1>7. ASSUME hist \subseteq hist',
             seen[x] # NoReading =>
               \E s \in hist' : /\ s.r.session = x /\ s.r.wk = seen[x].wk
                                /\ s.r.wkReset = seen[x].wkReset,
             NEW y \in Session, snaps'[y] # NoSnapshot, snaps'[y].payload # NoReading
      PROVE  \E s \in hist' : /\ s.r.session = y
                              /\ s.r.wk = snaps'[y].payload.wk
                              /\ s.r.wkReset = snaps'[y].payload.wkReset
  <2>1. CASE y = x
    BY <1>2, <1>7, <2>1
  <2>2. CASE y # x
    <3>1. snaps'[y] = snaps[y]
      BY <1>2, <2>2
    <3>2. \E s \in hist : /\ s.r.session = y
                          /\ s.r.wk = snaps[y].payload.wk
                          /\ s.r.wkReset = snaps[y].payload.wkReset
      BY <1>7, <3>1 DEF RealInv
    <3> QED BY <1>7, <3>1, <3>2
  <2> QED BY <2>1, <2>2
<1>8. CASE /\ hist' = hist
           /\ seen[x] # NoReading =>
                \E s \in hist : /\ s.r.session = x /\ s.r.wk = seen[x].wk
                                /\ s.r.wkReset = seen[x].wkReset
  <2>1. TypeInv'
    BY <1>1, <1>2, <1>8 DEF TypeInv, IsTable, Windows
  <2>2. \A y \in Session : snaps'[y] # NoSnapshot /\ snaps'[y].payload # NoReading =>
          \E s \in hist' : /\ s.r.session = y
                           /\ s.r.wk = snaps'[y].payload.wk
                           /\ s.r.wkReset = snaps'[y].payload.wkReset
    BY <1>7, <1>8
  <2> QED BY <1>4, <1>5, <1>6, <1>8, <2>1, <2>2 DEF RealInv
<1>9. ASSUME seen[x] \in Readings, NEW s \in [id : Nat, r : RowType],
             hist' = hist \union {s}, s.id \in 1 .. MaxRows, \A u \in hist : u.id < s.id,
             s.r.session = x, s.r.t = clock,
             s.r.wk = seen[x].wk, s.r.wkReset = seen[x].wkReset
      PROVE  TypeInv' /\ RealInv'
  <2>1. TypeInv'
    <3>1. IsTable(hist)' /\ \A u \in hist' : u.id \in 1 .. MaxRows
      BY <1>9, TableGrows DEF TypeInv
    <3> QED BY <1>1, <1>2, <3>1 DEF TypeInv, Windows
  <2>2. \A y \in Session : snaps'[y] # NoSnapshot /\ snaps'[y].payload # NoReading =>
          \E u \in hist' : /\ u.r.session = y
                           /\ u.r.wk = snaps'[y].payload.wk
                           /\ u.r.wkReset = snaps'[y].payload.wkReset
    BY <1>7, <1>9
  <2>3. seen[x] # NoReading /\ seen[x].wk \in Nat
    BY <1>9, PayloadIs
  <2>4. IsReal(x, seen[x].wk, seen[x].wkReset)
    BY <2>3 DEF RealInv
  <2>5. /\ Week * WindowEnding(seen[x].wkReset) \in Nat
        /\ Week * WindowEnding(seen[x].wkReset) <= clock /\ clock \in Nat
    BY <2>3, <2>4, RealIs, InWindows
  <2>6. /\ IsReal(s.r.session, s.r.wk, s.r.wkReset)'
        /\ s.r.t \in Week * WindowEnding(s.r.wkReset) .. clock'
    <3>1. \E w \in 0 .. WindowOf(clock') : Ends(w, x, s.r.wkReset) /\ s.r.wk <= peaks'[w]
      BY <1>3, <1>9, <2>4
    <3>2. s.r.t \in Week * WindowEnding(s.r.wkReset) .. clock'
      BY <1>1, <1>9, <2>5
    <3> QED BY <1>9, <3>1, <3>2 DEF IsReal, Ends
  <2>7. \A u \in hist' : /\ IsReal(u.r.session, u.r.wk, u.r.wkReset)'
                         /\ u.r.t \in Week * WindowEnding(u.r.wkReset) .. clock'
    BY <1>6, <1>9, <2>6
  <2> QED BY <1>4, <1>5, <2>1, <2>2, <2>7 DEF RealInv
<1> QED BY <1>8, <1>9, Rendered

\* What can be compared.
LEMMA Numbers ==
  ASSUME TypeInv, RealInv
  PROVE  /\ WindowOf(clock) \in Int /\ account \in Nat
         /\ \A x \in Session : seen[x] # NoReading =>
              seen[x].wk \in Nat /\ WindowEnding(seen[x].wkReset) \in Int
         /\ \A s \in hist : s.r.wk \in Nat /\ WindowEnding(s.r.wkReset) \in Int
         /\ \A s \in hist : s.r.session \in Session
         /\ \A x \in Session : snaps[x] # NoSnapshot /\ snaps[x].payload # NoReading =>
              /\ snaps[x].payload.wk \in Nat
              /\ WindowEnding(snaps[x].payload.wkReset) \in Int
<1>1. WindowOf(clock) \in Nat /\ account \in Nat
  BY InWindows DEF TypeInv
<1>2. ASSUME NEW x \in Session, seen[x] # NoReading
      PROVE  seen[x].wk \in Nat /\ WindowEnding(seen[x].wkReset) \in Int
  <2>1. seen[x].wk \in Nat
    BY <1>2, PayloadIs DEF TypeInv
  <2>2. IsReal(x, seen[x].wk, seen[x].wkReset)
    BY <1>2 DEF RealInv
  <2>3. WindowEnding(seen[x].wkReset) \in 0 .. WindowOf(clock)
    BY <2>1, <2>2, RealIs
  <2> QED BY <1>1, <2>1, <2>3
<1>3. ASSUME NEW s \in hist
      PROVE  s.r.wk \in Nat /\ WindowEnding(s.r.wkReset) \in Int /\ s.r.session \in Session
  <2>1. s.r \in RowType
    BY DEF TypeInv, IsTable
  <2>2. s.r.wk \in Nat /\ s.r.session \in Session
    BY <2>1 DEF RowType
  <2>3. IsReal(s.r.session, s.r.wk, s.r.wkReset)
    BY DEF RealInv
  <2>4. WindowEnding(s.r.wkReset) \in 0 .. WindowOf(clock)
    BY <2>2, <2>3, RealIs
  <2> QED BY <1>1, <2>2, <2>4
<1>4. ASSUME NEW x \in Session, snaps[x] # NoSnapshot, snaps[x].payload # NoReading
      PROVE  /\ snaps[x].payload.wk \in Nat
             /\ WindowEnding(snaps[x].payload.wkReset) \in Int
  <2>1. PICK s \in hist : /\ s.r.wk = snaps[x].payload.wk
                          /\ s.r.wkReset = snaps[x].payload.wkReset
    BY <1>4 DEF RealInv
  <2> QED BY <1>3, <2>1
<1> QED BY <1>1, <1>2, <1>3, <1>4

LEMMA NoNewerOrder ==
  /\ \A reset, wk \in Int : NoNewer(reset, wk, WindowEnding(reset), wk)
  /\ \A reset, wk, other, w : \A used, more \in Int :
       /\ wk \in Int /\ w \in Int /\ WindowEnding(reset) \in Int /\ WindowEnding(other) \in Int
       /\ NoNewer(reset, wk, WindowEnding(other), used) /\ NoNewer(other, used, w, more)
       => NoNewer(reset, wk, w, more)
BY DEF NoNewer

LEMMA OrderNext ==
  ASSUME TypeInv, RealInv, OrderInv, [Next]_vars
  PROVE  OrderInv'
<1>1. ASSUME UNCHANGED <<seen, hist, snaps>>, dropped' = dropped,
             WindowOf(clock') \in Int,
             \/ WindowOf(clock) < WindowOf(clock')
             \/ WindowOf(clock') = WindowOf(clock) /\ account <= account' /\ account' \in Nat
      PROVE  OrderInv'
  <2>1. ASSUME NEW x \in Session, seen[x] # NoReading, dropped = Never
        PROVE  NoNewer(seen[x].wkReset, seen[x].wk, WindowOf(clock'), account')
    <3>1. NoNewer(seen[x].wkReset, seen[x].wk, WindowOf(clock), account)
      BY <2>1 DEF OrderInv
    <3>2. /\ seen[x].wk \in Nat /\ WindowEnding(seen[x].wkReset) \in Int
          /\ WindowOf(clock) \in Int /\ account \in Nat
      BY <2>1, Numbers
    <3> QED BY <1>1, <3>1, <3>2 DEF NoNewer
  <2> QED BY <1>1, <2>1 DEF OrderInv, NoNewer, WindowEnding
<1>2. CASE Use
  <2>1. UNCHANGED <<seen, hist, snaps, clock, dropped>> /\ account' = account + 1
    BY <1>2 DEF Use
  <2>2. account <= account' /\ account' \in Nat
    BY <2>1, Numbers
  <2>3. WindowOf(clock') = WindowOf(clock) /\ WindowOf(clock') \in Int
    BY <2>1, Numbers
  <2> QED BY <1>1, <2>1, <2>2, <2>3
<1>3. CASE TakenBack
  <2>1. dropped' = clock /\ clock \in Nat
    BY <1>3, InWindows DEF TakenBack
  <2> QED BY <2>1 DEF OrderInv, Never
<1>4. CASE Tick
  <2>1. /\ UNCHANGED <<seen, hist, snaps, dropped>> /\ clock' = clock + 1
        /\ account' = IF WindowOf(clock') = WindowOf(clock) THEN account ELSE 0
    BY <1>4 DEF Tick
  <2>2. clock \in Nat /\ clock' \in Nat /\ clock <= clock'
    BY <2>1, InWindows
  <2>3. WindowOf(clock) \in Nat /\ WindowOf(clock') \in Nat /\ WindowOf(clock) <= WindowOf(clock')
    BY <2>2, Monotone, WindowIs
  <2>4. account \in Nat
    BY Numbers
  <2> QED BY <1>1, <2>1, <2>3, <2>4
<1>5. ASSUME NEW x \in Session, Turn(x) PROVE OrderInv'
  <2>1. /\ clock' = clock /\ account' = account /\ dropped' = dropped
        /\ hist' = hist /\ snaps' = snaps
        /\ seen'[x] \in Readings /\ seen'[x].wk = account
        /\ WindowEnding(seen'[x].wkReset) = WindowOf(clock)
        /\ \A y \in Session \ {x} : seen'[y] = seen[y]
    BY <1>5, Turned DEF world
  <2>2. seen'[x] # NoReading
    BY <2>1, PayloadIs
  <2>3. ASSUME NEW y \in Session, dropped = Never
        PROVE  /\ seen'[y] # NoReading =>
                    NoNewer(seen'[y].wkReset, seen'[y].wk, WindowOf(clock'), account')
               /\ snaps[y] # NoSnapshot /\ snaps[y].payload # NoReading =>
                    /\ seen'[y] # NoReading
                    /\ NoNewer(snaps[y].payload.wkReset, snaps[y].payload.wk,
                               WindowEnding(seen'[y].wkReset), seen'[y].wk)
               /\ \A s \in hist : s.r.session = y =>
                    /\ snaps[y] # NoSnapshot /\ snaps[y].payload # NoReading
                    /\ NoNewer(s.r.wkReset, s.r.wk,
                               WindowEnding(snaps[y].payload.wkReset), snaps[y].payload.wk)
    <3>1. CASE y # x
      BY <2>1, <2>3, <3>1 DEF OrderInv
    <3>2. CASE y = x
      <4>1. NoNewer(seen'[x].wkReset, seen'[x].wk, WindowOf(clock'), account')
        BY <2>1, Numbers DEF NoNewer
      <4>2. ASSUME snaps[x] # NoSnapshot, snaps[x].payload # NoReading
            PROVE  NoNewer(snaps[x].payload.wkReset, snaps[x].payload.wk,
                           WindowEnding(seen'[x].wkReset), seen'[x].wk)
        <5>1. /\ seen[x] # NoReading
              /\ NoNewer(snaps[x].payload.wkReset, snaps[x].payload.wk,
                         WindowEnding(seen[x].wkReset), seen[x].wk)
              /\ NoNewer(seen[x].wkReset, seen[x].wk, WindowOf(clock), account)
          BY <2>3, <4>2 DEF OrderInv
        <5>2. /\ snaps[x].payload.wk \in Int /\ WindowEnding(snaps[x].payload.wkReset) \in Int
              /\ seen[x].wk \in Int /\ WindowEnding(seen[x].wkReset) \in Int
              /\ account \in Int /\ WindowOf(clock) \in Int
          BY <4>2, <5>1, Numbers
        <5>3. NoNewer(snaps[x].payload.wkReset, snaps[x].payload.wk, WindowOf(clock), account)
          BY <5>1, <5>2, NoNewerOrder
        <5> QED BY <2>1, <5>3
      <4> QED BY <2>2, <2>3, <3>2, <4>1, <4>2 DEF OrderInv
    <3> QED BY <3>1, <3>2
  <2> QED BY <2>1, <2>3 DEF OrderInv, NoNewer, WindowEnding
<1>6. ASSUME NEW x \in Session, Render(x) PROVE OrderInv'
  <2>1. /\ clock' = clock /\ account' = account /\ dropped' = dropped /\ seen' = seen
        /\ snaps' = [snaps EXCEPT ![x] = [payload |-> seen[x]]]
    BY <1>6, Rendered DEF world
  <2>2. /\ snaps'[x] # NoSnapshot /\ snaps'[x].payload = seen[x]
        /\ \A y \in Session \ {x} : snaps'[y] = snaps[y]
    BY <2>1, SnapshotTaken
  <2>3. \A s \in hist' : s \in hist \/ /\ seen[x] \in Readings /\ s.r.session = x
                                       /\ s.r.wk = seen[x].wk /\ s.r.wkReset = seen[x].wkReset
    BY <1>6, Rendered
  <2>4. ASSUME NEW y \in Session, dropped = Never
        PROVE  /\ snaps'[y] # NoSnapshot /\ snaps'[y].payload # NoReading =>
                    /\ seen[y] # NoReading
                    /\ NoNewer(snaps'[y].payload.wkReset, snaps'[y].payload.wk,
                               WindowEnding(seen[y].wkReset), seen[y].wk)
               /\ \A s \in hist' : s.r.session = y =>
                    /\ snaps'[y] # NoSnapshot /\ snaps'[y].payload # NoReading
                    /\ NoNewer(s.r.wkReset, s.r.wk,
                               WindowEnding(snaps'[y].payload.wkReset), snaps'[y].payload.wk)
    <3>1. CASE y # x
      <4>1. snaps'[y] = snaps[y] /\ \A s \in hist' : s.r.session = y => s \in hist
        BY <2>2, <2>3, <3>1
      <4> QED BY <2>4, <4>1 DEF OrderInv
    <3>2. CASE y = x
      <4>1. seen[x] # NoReading => NoNewer(seen[x].wkReset, seen[x].wk,
                                           WindowEnding(seen[x].wkReset), seen[x].wk)
        BY Numbers DEF NoNewer
      <4>2. ASSUME NEW s \in hist', s.r.session = x
            PROVE  /\ seen[x] # NoReading
                   /\ NoNewer(s.r.wkReset, s.r.wk, WindowEnding(seen[x].wkReset), seen[x].wk)
        <5>1. CASE s \in hist
          <6>1. /\ snaps[x] # NoSnapshot /\ snaps[x].payload # NoReading
                /\ NoNewer(s.r.wkReset, s.r.wk,
                           WindowEnding(snaps[x].payload.wkReset), snaps[x].payload.wk)
            BY <2>4, <4>2, <5>1 DEF OrderInv
          <6>2. /\ seen[x] # NoReading
                /\ NoNewer(snaps[x].payload.wkReset, snaps[x].payload.wk,
                           WindowEnding(seen[x].wkReset), seen[x].wk)
            BY <2>4, <6>1 DEF OrderInv
          <6>3. /\ s.r.wk \in Int /\ WindowEnding(s.r.wkReset) \in Int
                /\ snaps[x].payload.wk \in Int /\ WindowEnding(snaps[x].payload.wkReset) \in Int
                /\ seen[x].wk \in Int /\ WindowEnding(seen[x].wkReset) \in Int
            BY <5>1, <6>1, <6>2, Numbers
          <6> QED BY <6>1, <6>2, <6>3, NoNewerOrder
        <5>2. CASE seen[x] \in Readings /\ s.r.wk = seen[x].wk /\ s.r.wkReset = seen[x].wkReset
          <6>1. seen[x] # NoReading
            BY <5>2, PayloadIs
          <6> QED BY <4>1, <5>2, <6>1
        <5> QED BY <2>3, <5>1, <5>2
      <4> QED BY <2>2, <3>2, <4>1, <4>2
    <3> QED BY <3>1, <3>2
  <2> QED BY <2>1, <2>4 DEF OrderInv, NoNewer, WindowEnding
<1>7. CASE UNCHANGED vars
  BY <1>7 DEF vars, OrderInv, NoNewer, WindowEnding
<1> QED BY <1>2, <1>3, <1>4, <1>5, <1>6, <1>7 DEF Next

LEMMA AccountInvariant == Spec => []AccountInv
<1>1. AccountInv /\ [Next]_vars => AccountInv'
  <2> SUFFICES ASSUME TypeInv, RealInv, OrderInv, [Next]_vars
               PROVE  TypeInv' /\ RealInv' /\ OrderInv'
    BY DEF AccountInv
  <2>1. TypeInv' /\ RealInv'
    <3>1. CASE UNCHANGED vars
      BY <3>1 DEF vars, TypeInv, RealInv, IsTable, Windows, IsReal, Ends, Payloads
    <3> QED BY <3>1, WorldReal, TurnReal, RenderReal DEF Next
  <2> QED BY <2>1, OrderNext
<1> QED BY <1>1, InitInv, PTL DEF Spec

-----------------------------------------------------------------------------
(***************************************************************************)
(* The envelope.                                                           *)
(***************************************************************************)
\* The query computes what the loop does, on the history of every reachable
\* state (query.sql, burn.Envelope).
THEOREM QueryIsTheLoop == Spec => []EnvelopeMirrorsGo
<1>1. AccountInv => EnvelopeMirrorsGo
  <2> SUFFICES ASSUME AccountInv PROVE EnvelopeMirrorsGo
    OBVIOUS
  <2>1. IsTable(hist)
    BY DEF AccountInv, TypeInv
  <2> QED BY <2>1, MirrorsGo DEF EnvelopeMirrorsGo, Envelope
<1> QED BY <1>1, AccountInvariant, PTL

LEMMA RowIs ==
  ASSUME TypeInv, RealInv, NEW s \in hist
  PROVE  LET w == WindowEnding(s.r.wkReset) IN
         /\ s.r.session \in Session /\ s.r.wk \in Nat /\ s.r.wkReset \in Nat /\ s.r.wkReset # Nil
         /\ w \in 0 .. WindowOf(clock) /\ Ends(w, s.r.session, s.r.wkReset)
         /\ s.r.wk <= peaks[w] /\ Week * w \in Nat /\ Week * w <= s.r.t /\ s.r.t <= clock
         /\ s.r.t \in Nat
<1> DEFINE begin == Week * WindowEnding(s.r.wkReset)
<1>1. s.r \in RowType
  BY DEF TypeInv, IsTable
<1>2. s.r.wk \in Nat /\ s.r.session \in Session /\ s.r.t \in Nat
  BY <1>1 DEF RowType
<1>3. IsReal(s.r.session, s.r.wk, s.r.wkReset) /\ s.r.t \in begin .. clock
  BY DEF RealInv
<1>4. begin \in Nat /\ clock \in Nat
  BY <1>2, <1>3, RealIs, InWindows
<1>5. begin <= s.r.t /\ s.r.t <= clock
  <2> HIDE DEF begin
  <2> QED BY <1>3, <1>4
<1>6. s.r.wkReset \in Nat /\ s.r.wkReset # Nil
  BY <1>2, <1>3, RealIs, Limits
<1> QED BY <1>2, <1>3, <1>4, <1>5, <1>6, RealIs

\* The rows that are kept are those of the newest window of a recent row.
LEMMA KeptAre ==
  ASSUME TypeInv, RealInv, Recent(hist, clock) # {}
  PROVE  LET rows == Recent(hist, clock)
             latest == LatestReset(rows)
         IN  /\ latest \in Nat /\ latest # Nil
             /\ \E s \in rows : s.r.wkReset = latest
             /\ \A s \in rows : WindowEnding(s.r.wkReset) <= WindowEnding(latest)
             /\ \A s : s \in Kept(rows) <=>
                         s \in rows /\ WindowEnding(s.r.wkReset) = WindowEnding(latest)
<1> DEFINE rows == Recent(hist, clock)
           latest == LatestReset(rows)
<1>1. rows \in SUBSET hist /\ IsTable(hist)
  BY DEF Recent, TypeInv
<1>2. IsNewest(rows, latest)
  BY <1>1, TableSubset, LatestIs
<1>3. rows # {}
  OBVIOUS
<1> HIDE DEF latest, rows
<1>4. latest \in Int /\ \A s \in rows : s.r.wkReset <= latest
  BY <1>1, <1>2, <1>3, RowIs DEF IsNewest
<1>5. PICK n \in rows : n.r.wkReset = latest
  BY <1>1, <1>2, <1>3, RowIs DEF IsNewest
<1>6. n \in hist
  BY <1>1, <1>5
<1>7. /\ latest \in Nat /\ latest # Nil /\ n.r.session \in Session
      /\ WindowEnding(latest) \in 0 .. WindowOf(clock)
      /\ Ends(WindowEnding(latest), n.r.session, latest)
  BY <1>5, <1>6, RowIs
<1>8. WindowEnding(latest) \in Nat
  BY <1>7, InWindows
<1>9. ASSUME NEW s \in rows
      PROVE  /\ WindowEnding(s.r.wkReset) <= WindowEnding(latest)
             /\ latest - s.r.wkReset <= ResetJitter <=> WindowEnding(s.r.wkReset) = WindowEnding(latest)
             /\ s.r.wkReset # Nil
  <2> DEFINE reset == s.r.wkReset
             v == WindowEnding(reset)
  <2>1. s \in hist
    BY <1>1
  <2>2. /\ s.r.session \in Session /\ reset # Nil /\ v \in 0 .. WindowOf(clock)
        /\ Ends(v, s.r.session, reset)
    BY <2>1, RowIs
  <2>3. v \in Nat
    BY <2>2, InWindows
  <2>4. reset <= latest
    BY <1>4
  <2> HIDE DEF v, reset
  <2>5. v <= WindowEnding(latest) /\ (latest - reset <= ResetJitter <=> v = WindowEnding(latest))
    BY <1>7, <1>8, <2>2, <2>3, <2>4, SameEnd
  <2> QED BY <2>2, <2>5 DEF v, reset
<1>10. \A s : s \in Kept(rows) <=> s \in rows /\ s.r.wkReset # Nil /\ latest - s.r.wkReset <= ResetJitter
  BY <1>7 DEF Kept, latest
<1>11. \A s : s \in Kept(rows) <=> s \in rows /\ WindowEnding(s.r.wkReset) = WindowEnding(latest)
  BY <1>9, <1>10
<1> QED BY <1>5, <1>7, <1>9, <1>11 DEF rows, latest

\* An envelope with entries: of a window, with the percentages and times of rows
\* of that window, rising to the most of them.
LEMMA EnvelopeOf ==
  ASSUME TypeInv, RealInv, Envelope # <<>>
  PROVE  LET e == Envelope
             n == Len(e)
             rows == Recent(hist, clock)
             latest == LatestReset(rows)
             w == WindowEnding(latest)
         IN  /\ n \in Nat \ {0} /\ DOMAIN e = 1 .. n /\ rows # {}
             /\ Last(e) = e[n] /\ \A i \in 1 .. n : e[i].wkReset = latest
             /\ w \in 0 .. WindowOf(clock) /\ Week * w \in Nat /\ peaks[w] \in Nat
             /\ \A i \in 1 .. n : /\ e[i].t \in Nat /\ e[i].wk \in Nat
                                  /\ Week * w <= e[i].t /\ e[i].wk <= peaks[w]
             /\ \E s \in Kept(rows) : s.r.wk = e[n].wk
             /\ \A s \in Kept(rows) : s.r.wk <= e[n].wk
<1> DEFINE e == Envelope
           rows == Recent(hist, clock)
           keep == Kept(rows)
           kept == InOrder(keep)
           n == Cardinality(keep)
           latest == LatestReset(rows)
           w == WindowEnding(latest)
<1>1. /\ IsTable(hist) /\ rows \in SUBSET hist /\ keep \in SUBSET rows
  BY DEF Recent, TypeInv, Kept
<1>2. /\ IsTable(keep) /\ n \in Nat
      /\ e \in [1 .. n -> [t : Nat, wk : 0 .. 100, wkReset : {latest}]]
      /\ e \in Seq([t : Nat, wk : 0 .. 100, wkReset : {latest}])
      /\ Len(e) = n /\ DOMAIN e = 1 .. n
      /\ \A i \in 1 .. n :
           /\ kept[i] \in keep /\ e[i].t = kept[i].r.t
           /\ \E j \in 1 .. i : e[i].wk = kept[j].r.wk
           /\ \A j \in 1 .. i : kept[j].r.wk <= e[i].wk
  BY <1>1, EnvelopeIs DEF Envelope
<1>3. \A s \in keep : \E i \in 1 .. n : kept[i] = s
  BY <1>2, Ordered
<1>4. e # <<>>
  OBVIOUS
<1> HIDE DEF e, keep, kept, n
<1>5. n # 0
  BY <1>2, <1>4
<1>6. 1 \in 1 .. n /\ n \in 1 .. n
  BY <1>2, <1>5
<1>7. rows # {}
  BY <1>1, <1>2, <1>6
<1>8. /\ \E s \in rows : s.r.wkReset = latest
      /\ \A s : s \in keep <=> s \in rows /\ WindowEnding(s.r.wkReset) = w
  BY <1>7, KeptAre DEF keep
<1> HIDE DEF rows, latest
<1>9. w \in 0 .. WindowOf(clock) /\ Week * w \in Nat
  BY <1>1, <1>8, RowIs
<1>10. peaks[w] \in Nat
  BY <1>9, InWindows
<1>11. \A s \in keep : s.r.wk \in Nat /\ s.r.wk <= peaks[w] /\ Week * w <= s.r.t /\ s.r.t \in Nat
  BY <1>1, <1>8, RowIs
<1>12. \A i \in 1 .. n : /\ e[i].t \in Nat /\ e[i].wk \in Nat
                         /\ Week * w <= e[i].t /\ e[i].wk <= peaks[w]
  <2> SUFFICES ASSUME NEW i \in 1 .. n
               PROVE  /\ e[i].t \in Nat /\ e[i].wk \in Nat
                      /\ Week * w <= e[i].t /\ e[i].wk <= peaks[w]
    OBVIOUS
  <2>1. kept[i] \in keep /\ e[i].t = kept[i].r.t
    BY <1>2
  <2>2. PICK j \in 1 .. i : e[i].wk = kept[j].r.wk
    BY <1>2
  <2>3. kept[j] \in keep
    <3>1. j \in 1 .. n
      BY <1>2
    <3> QED BY <1>2, <3>1
  <2> QED BY <1>11, <2>1, <2>2, <2>3
<1>13. \E s \in keep : s.r.wk = e[n].wk
  <2>1. PICK j \in 1 .. n : e[n].wk = kept[j].r.wk
    BY <1>2, <1>6
  <2> QED BY <1>2, <2>1
<1>14. \A s \in keep : s.r.wk <= e[n].wk
  BY <1>2, <1>3, <1>6
<1>15. \A i \in 1 .. n : e[i].wkReset = latest
  <2> SUFFICES ASSUME NEW i \in 1 .. n PROVE e[i].wkReset = latest
    OBVIOUS
  <2>1. e \in [1 .. n -> [t : Nat, wk : 0 .. 100, wkReset : {latest}]]
    BY <1>2
  <2>2. e[i] \in [t : Nat, wk : 0 .. 100, wkReset : {latest}]
    BY <2>1
  <2> QED BY <2>2
<1>16. Last(e) = e[n]
  BY <1>2 DEF Last
<1>17. Len(e) = n /\ n \in Nat \ {0} /\ DOMAIN e = 1 .. n
  BY <1>2, <1>5
<1> HIDE DEF w
<1> QED BY <1>7, <1>9, <1>10, <1>12, <1>13, <1>14, <1>15, <1>16, <1>17 DEF e, rows, keep, latest, w

\* The envelope never claims more than was used in the window it is about
\* (query.sql, EnvelopeWeekly: a stale row of another window does not raise it).
THEOREM EnvelopeIsReal == Spec => []EnvelopeIsOfItsWindow
<1>1. AccountInv => EnvelopeIsOfItsWindow
  <2> SUFFICES ASSUME TypeInv, RealInv, Envelope # <<>>
               PROVE  Last(Envelope).wk <= peaks[WindowEnding(Last(Envelope).wkReset)]
    BY DEF AccountInv, EnvelopeIsOfItsWindow
  <2> DEFINE e == Envelope
             n == Len(e)
  <2>1. n \in 1 .. n
    BY EnvelopeOf
  <2>2. Last(e) = e[n] /\ e[n].wkReset = LatestReset(Recent(hist, clock))
    BY <2>1, EnvelopeOf
  <2>3. e[n].wk <= peaks[WindowEnding(LatestReset(Recent(hist, clock)))]
    BY <2>1, EnvelopeOf
  <2> QED BY <2>2, <2>3
<1> QED BY <1>1, AccountInvariant, PTL

-----------------------------------------------------------------------------
(***************************************************************************)
(* The projection.                                                         *)
(***************************************************************************)
\* A run starts somewhere: after the last boundary, or at the first entry.
LEMMA RunStartIs ==
  ASSUME NEW entries, NEW n \in Nat \ {0}, Len(entries) = n, DOMAIN entries = 1 .. n
  PROVE  RunStart(entries) \in 1 .. n
<1> DEFINE starts == {1} \union {i \in 2 .. n : Boundary(entries, i)}
           k == Max(starts)
<1>1. starts \in SUBSET Nat /\ starts # {} /\ \A i \in starts : i <= n
  OBVIOUS
<1>2. k \in starts /\ \A i \in starts : i <= k
  <2> HIDE DEF starts
  <2> QED BY <1>1, MaxIsIn
<1> HIDE DEF k
<1>3. k \in 1 .. n /\ k > 1 => Boundary(entries, k)
  BY <1>2
<1>4. ASSUME NEW i \in k + 1 .. n PROVE ~ Boundary(entries, i)
  <2>1. k \in Nat \ {0}
    BY <1>2
  <2>2. i \in 2 .. n /\ ~ i <= k
    BY <2>1
  <2> QED BY <1>2, <2>2
<1>5. k \in 1 .. n
  BY <1>2
<1>6. \E j \in DOMAIN entries :
        /\ \A i \in j + 1 .. Len(entries) : ~ Boundary(entries, i)
        /\ j > 1 => Boundary(entries, j)
  BY <1>3, <1>4, <1>5
<1> QED BY <1>6 DEF RunStart

\* A projection starts at an entry and ends at the last one.
LEMMA ProjectIs ==
  ASSUME NEW E, NEW entries \in Seq(E), Project(entries).ok
  PROVE  LET n == Len(entries) IN
         /\ entries # <<>>
         /\ \E k \in 1 .. n : /\ Project(entries).firstT = entries[k].t
                              /\ Project(entries).dpct = entries[n].wk - entries[k].wk
<1> DEFINE n == Len(entries)
           run == currentRun(entries)
           p == Project(entries)
<1>1. /\ Len(run) >= 2
      /\ p.firstT = run[1].t /\ p.dpct = Last(run).wk - run[1].wk
  BY DEF Project, NoProjection
<1>2. n \in Nat /\ DOMAIN entries = 1 .. n
  OBVIOUS
<1>3. n >= 2
  BY <1>1, <1>2 DEF currentRun
<1> DEFINE k == RunStart(entries)
<1>4. k \in 1 .. n
  BY <1>2, <1>3, RunStartIs
<1>5. run = SubSeq(entries, k, n)
  <2>1. ~ Len(entries) < 2
    BY <1>2, <1>3
  <2> QED BY <2>1, Zenon DEF currentRun
<1> HIDE DEF k, run, p
<1>6. Len(run) = n - k + 1 /\ run[1] = entries[k] /\ run[n - k + 1] = entries[n]
  <2>1. Len(run) = n - k + 1 /\ \A i \in 1 .. n - k + 1 : run[i] = entries[k + i - 1]
    BY <1>2, <1>4, <1>5, SubSeqProperties
  <2>2. 1 \in 1 .. n - k + 1 /\ n - k + 1 \in 1 .. n - k + 1 /\ k + 1 - 1 = k /\ k + (n - k + 1) - 1 = n
    BY <1>2, <1>4
  <2> QED BY <2>1, <2>2
<1>7. Last(run) = entries[n]
  BY <1>6 DEF Last
<1>8. entries # <<>>
  BY <1>3
<1> QED BY <1>1, <1>4, <1>6, <1>7, <1>8 DEF p

\* A projection is about one window (burn.go, Project): it starts after the
\* window did, and its climb is not more than was used in it.
THEOREM OneWindowProjected == Spec => []ProjectsOneWindow
<1>1. AccountInv => ProjectsOneWindow
  <2> SUFFICES ASSUME TypeInv, RealInv, Project(Envelope).ok
               PROVE  LET w == WindowEnding(Last(Envelope).wkReset) IN
                      /\ Project(Envelope).firstT >= Week * w
                      /\ Project(Envelope).dpct <= peaks[w]
    BY DEF AccountInv, ProjectsOneWindow
  <2> DEFINE e == Envelope
             n == Len(e)
             w == WindowEnding(LatestReset(Recent(hist, clock)))
  <2>1. e \in Seq([t : Nat, wk : 0 .. 100, wkReset : {LatestReset(Recent(hist, clock))}])
    BY EnvelopeIs DEF Envelope, TypeInv
  <2>2. e # <<>>
    BY <2>1, ProjectIs
  <2>3. PICK k \in 1 .. n : /\ Project(e).firstT = e[k].t
                            /\ Project(e).dpct = e[n].wk - e[k].wk
    BY <2>1, ProjectIs
  <2>4. /\ n \in Nat \ {0} /\ Last(e) = e[n] /\ WindowEnding(e[n].wkReset) = w
        /\ Week * w \in Nat /\ peaks[w] \in Nat
        /\ \A i \in 1 .. n : /\ e[i].t \in Nat /\ e[i].wk \in Nat
                             /\ Week * w <= e[i].t /\ e[i].wk <= peaks[w]
    <3>1. n \in 1 .. n
      BY <2>2, EnvelopeOf
    <3>2. e[n].wkReset = LatestReset(Recent(hist, clock))
      BY <2>2, <3>1, EnvelopeOf
    <3> QED BY <2>2, <3>2, EnvelopeOf
  <2> HIDE DEF e, n, w
  <2>5. /\ e[k].t \in Nat /\ Week * w <= e[k].t
        /\ e[n].wk \in Nat /\ e[k].wk \in Nat /\ e[n].wk <= peaks[w]
    BY <2>3, <2>4
  <2> DEFINE begin == Week * w
             most == peaks[w]
             first == e[k].t
             top == e[n].wk
             low == e[k].wk
  <2>6. /\ begin \in Nat /\ first \in Nat /\ begin <= first
        /\ top \in Nat /\ low \in Nat /\ most \in Nat /\ top <= most
    BY <2>4, <2>5
  <2>7. Project(e).firstT = first /\ Project(e).dpct = top - low
    BY <2>3
  <2> HIDE DEF begin, most, first, top, low
  <2>8. Project(e).firstT >= begin /\ Project(e).dpct <= most
    BY <2>6, <2>7
  <2> QED BY <2>4, <2>8 DEF begin, most, e
<1> QED BY <1>1, AccountInvariant, PTL

-----------------------------------------------------------------------------
(***************************************************************************)
(* The pool beside the envelope.                                           *)
(***************************************************************************)
LEMMA PoolMaxIsIn ==
  ASSUME NEW S \in SUBSET Nat, S # {}, NEW bound \in Nat, \A n \in S : n <= bound
  PROVE  Pool!Max(S) \in S /\ \A n \in S : n <= Pool!Max(S)
<1>1. Pool!Max(S) = Max(S)
  BY DEF Pool!Max, Max
<1> QED BY <1>1, MaxIsIn

HasReading(x) == snaps[x] # NoSnapshot /\ snaps[x].payload # NoReading

\* What a snapshot has of a window is real.
LEMMA SnapshotReal ==
  ASSUME TypeInv, RealInv, NEW x \in Session, HasReading(x)
  PROVE  LET p == snaps[x].payload
             w == WindowEnding(p.wkReset)
         IN  /\ p.wk \in Nat /\ p.wk <= 100 /\ p.wkReset \in Nat
             /\ w \in 0 .. WindowOf(clock) /\ Ends(w, x, p.wkReset)
             /\ p.wkReset <= clock + MaxAhead
             /\ \E s \in hist : s.r.session = x /\ s.r.wk = p.wk /\ s.r.wkReset = p.wkReset
<1> DEFINE p == snaps[x].payload
<1>1. p \in Readings
  BY SnapshotIs, PayloadIs DEF HasReading
<1>2. p.wk \in Nat /\ p.wk <= 100 /\ p.wkReset \in Nat
  BY <1>1, PayloadIs
<1>3. PICK s \in hist : s.r.session = x /\ s.r.wk = p.wk /\ s.r.wkReset = p.wkReset
  BY DEF RealInv, HasReading
<1>4. IsReal(s.r.session, s.r.wk, s.r.wkReset)
  BY DEF RealInv
<1> HIDE DEF p
<1>5. IsReal(x, p.wk, p.wkReset)
  BY <1>3, <1>4
<1> QED BY <1>2, <1>3, <1>5, RealIs DEF p

Windows4Pool == {[used |-> s.payload.wk, reset |-> s.payload.wkReset] : s \in Taken}
Lives == Pool!Lives(Windows4Pool, clock, MaxAhead)

\* What the pool counts: the readings of all snapshots whose reset is ahead.
LEMMA LivesAre ==
  ASSUME TypeInv, RealInv
  PROVE  /\ \A l \in Lives : /\ l.used \in Nat /\ l.used <= 100 /\ l.reset \in Nat
                             /\ clock < l.reset /\ l.reset <= clock + MaxAhead
                             /\ \E x \in Session : /\ HasReading(x)
                                                   /\ l.used = snaps[x].payload.wk
                                                   /\ l.reset = snaps[x].payload.wkReset
         /\ \A x \in Session : HasReading(x) /\ clock < snaps[x].payload.wkReset =>
              \E l \in Lives : /\ l.used = snaps[x].payload.wk
                               /\ l.reset = snaps[x].payload.wkReset
<1>1. ASSUME NEW l \in Lives
      PROVE  /\ l.used \in Nat /\ l.used <= 100 /\ l.reset \in Nat
             /\ clock < l.reset /\ l.reset <= clock + MaxAhead
             /\ \E x \in Session : /\ HasReading(x)
                                   /\ l.used = snaps[x].payload.wk
                                   /\ l.reset = snaps[x].payload.wkReset
  <2>1. l \in Windows4Pool /\ l.used # Nil /\ clock < l.reset /\ l.reset <= clock + MaxAhead
    BY DEF Lives, Pool!Lives
  <2>2. PICK s \in Taken : l = [used |-> s.payload.wk, reset |-> s.payload.wkReset]
    BY <2>1 DEF Windows4Pool
  <2>3. PICK x \in Session : snaps[x] # NoSnapshot /\ s = snaps[x]
    BY DEF Taken
  <2>4. l.used = snaps[x].payload.wk /\ l.reset = snaps[x].payload.wkReset
    BY <2>2, <2>3
  <2>5. HasReading(x)
    <3>1. snaps[x].payload = NoReading => l.used = Nil
      BY <2>4 DEF NoReading
    <3> QED BY <2>1, <2>3, <3>1 DEF HasReading
  <2>6. l.used \in Nat /\ l.used <= 100 /\ l.reset \in Nat
    BY <2>4, <2>5, SnapshotReal
  <2> QED BY <2>1, <2>4, <2>5, <2>6
<1>2. ASSUME NEW x \in Session, HasReading(x), clock < snaps[x].payload.wkReset
      PROVE  \E l \in Lives : /\ l.used = snaps[x].payload.wk
                              /\ l.reset = snaps[x].payload.wkReset
  <2> DEFINE l == [used |-> snaps[x].payload.wk, reset |-> snaps[x].payload.wkReset]
  <2>1. snaps[x] \in Taken
    BY <1>2 DEF Taken, HasReading
  <2>2. l \in Windows4Pool
    BY <2>1 DEF Windows4Pool
  <2>3. l.used = snaps[x].payload.wk /\ l.reset = snaps[x].payload.wkReset
    OBVIOUS
  <2>4. /\ l.used \in Nat /\ l.used <= 100 /\ l.reset \in Nat
        /\ clock < l.reset /\ l.reset <= clock + MaxAhead
    BY <1>2, <2>3, SnapshotReal
  <2> HIDE DEF l
  <2>5. l.used # Nil /\ l.used >= 0 /\ l.used < 10000 /\ l.reset # Nil
    BY <2>4, Limits
  <2>6. l \in Lives
    BY <2>2, <2>4, <2>5 DEF Lives, Pool!Lives
  <2> QED BY <2>3, <2>6
<1> QED BY <1>1, <1>2

\* The pool's reset is that of a snapshot. When it is of the running window, its
\* percentage is the most that a snapshot of that window has.
LEMMA PoolIs ==
  ASSUME TypeInv, RealInv, WeeklyPool.ok, WindowEnding(WeeklyPool.reset) = WindowOf(clock)
  PROVE  /\ \E x \in Session : /\ HasReading(x) /\ WeeklyPool.used = snaps[x].payload.wk
                               /\ WindowEnding(snaps[x].payload.wkReset) = WindowOf(clock)
         /\ \A x \in Session :
              HasReading(x) /\ WindowEnding(snaps[x].payload.wkReset) = WindowOf(clock)
              => snaps[x].payload.wk <= WeeklyPool.used
<1> DEFINE resets == {l.reset : l \in Lives}
           newest == Pool!Newest(Lives)
           bucket == Pool!Bucket(Lives)
           Full(l) == IF l.used > 100 THEN 100 ELSE l.used
           fulls == {Full(l) : l \in bucket}
           c == WindowOf(clock)
<1>1. Lives # {}
  BY DEF WeeklyPool, Pool!GetWindow, Pool!NoWindow, Lives, Windows4Pool
<1>2. WeeklyPool = [ok |-> TRUE, reset |-> newest, used |-> Pool!Max(fulls)]
  BY <1>1 DEF WeeklyPool, Pool!GetWindow, Lives, Windows4Pool
<1>3. clock \in Nat /\ MaxAhead \in Nat /\ clock + MaxAhead \in Nat /\ c \in Nat
  BY InWindows, Bounds
<1>4. newest \in resets /\ \A n \in resets : n <= newest
  <2>1. resets \in SUBSET Nat /\ resets # {} /\ \A n \in resets : n <= clock + MaxAhead
    BY <1>1, LivesAre
  <2> HIDE DEF resets
  <2>2. Pool!Max(resets) \in resets /\ \A n \in resets : n <= Pool!Max(resets)
    BY <1>3, <2>1, PoolMaxIsIn
  <2> QED BY <2>2 DEF Pool!Newest, resets
<1>5. PICK v \in Lives : newest = v.reset
  BY <1>4
<1>6. PICK z \in Session : HasReading(z) /\ newest = snaps[z].payload.wkReset
  BY <1>5, LivesAre
<1>7. newest \in Nat /\ WindowEnding(newest) = c /\ Ends(c, z, newest)
  <2>1. WindowEnding(newest) = c
    BY <1>2
  <2> QED BY <1>6, <2>1, SnapshotReal
<1> HIDE DEF newest, c
<1>8. \A l \in bucket : l \in Lives /\ newest - l.reset <= PoolJitter
  BY DEF Pool!Bucket, newest
<1>9. \A l \in Lives : newest - l.reset <= PoolJitter => l \in bucket
  BY DEF Pool!Bucket, newest
<1>10. ASSUME NEW x \in Session, HasReading(x), snaps[x].payload.wkReset <= newest
       PROVE  newest - snaps[x].payload.wkReset <= PoolJitter
              <=> WindowEnding(snaps[x].payload.wkReset) = c
  <2> DEFINE reset == snaps[x].payload.wkReset
             w == WindowEnding(reset)
  <2>1. w \in 0 .. WindowOf(clock) /\ Ends(w, x, reset)
    BY <1>10, SnapshotReal
  <2>2. w \in Nat
    BY <1>3, <2>1 DEF c
  <2>3. reset <= newest
    BY <1>10
  <2> HIDE DEF reset, w
  <2>4. newest - reset <= PoolJitter <=> w = c
    BY <1>3, <1>7, <2>1, <2>2, <2>3, SameEnd
  <2> QED BY <2>4 DEF w, reset
<1>11. v \in bucket
  <2>1. newest - v.reset <= PoolJitter
    BY <1>5, <1>7, Bounds
  <2> QED BY <1>9, <2>1
<1>12. \A l \in bucket : Full(l) = l.used /\ l.used \in Nat /\ l.used <= 100
  BY <1>8, LivesAre
<1>13. Pool!Max(fulls) \in fulls /\ \A n \in fulls : n <= Pool!Max(fulls)
  <2>1. fulls \in SUBSET Nat /\ fulls # {} /\ \A n \in fulls : n <= 100
    BY <1>11, <1>12
  <2> HIDE DEF fulls
  <2> QED BY <2>1, PoolMaxIsIn
<1>14. PICK m \in bucket : Pool!Max(fulls) = m.used
  BY <1>12, <1>13
<1> DEFINE most == Pool!Max(fulls)
<1>15. \A l \in bucket : l.used <= most
  BY <1>12, <1>13
<1> HIDE DEF bucket, fulls, most
<1>16. PICK x \in Session : /\ HasReading(x) /\ m.used = snaps[x].payload.wk
                            /\ m.reset = snaps[x].payload.wkReset
  BY <1>8, <1>14, LivesAre
<1>17. WindowEnding(snaps[x].payload.wkReset) = c
  <2>1. m \in Lives /\ newest - m.reset <= PoolJitter
    BY <1>8, <1>14
  <2>2. m.reset <= newest
    BY <1>4, <2>1
  <2> QED BY <1>10, <1>16, <2>1, <2>2
<1>18. ASSUME NEW y \in Session, HasReading(y), WindowEnding(snaps[y].payload.wkReset) = c
       PROVE  snaps[y].payload.wk <= most
  <2> DEFINE reset == snaps[y].payload.wkReset
  <2>1. Ends(c, y, reset)
    BY <1>18, SnapshotReal
  <2>2. reset \in Nat /\ Week * c \in Nat /\ Week * c + Week <= reset
    BY <1>3, <2>1, EndIs
  <2>3. clock < Week * c + Week
    BY <1>3, WindowIs DEF c
  <2> DEFINE end == Week * c + Week
  <2>4. end \in Nat /\ end <= reset /\ clock < end
    BY <2>2, <2>3, Bounds
  <2> HIDE DEF end, reset
  <2>5. clock < reset
    BY <1>3, <2>2, <2>4
  <2>6. PICK l \in Lives : l.used = snaps[y].payload.wk /\ l.reset = snaps[y].payload.wkReset
    BY <1>18, <2>5, LivesAre DEF reset
  <2>7. l.reset <= newest
    BY <1>4
  <2>8. newest - l.reset <= PoolJitter
    BY <1>10, <1>18, <2>6, <2>7
  <2>9. l \in bucket
    BY <1>9, <2>8
  <2> QED BY <1>15, <2>6, <2>9
<1>19. WeeklyPool.used = most
  BY <1>2 DEF most
<1>20. most = snaps[x].payload.wk
  BY <1>14, <1>16 DEF most
<1> QED BY <1>16, <1>17, <1>18, <1>19, <1>20 DEF c

\* A row of the running window is recent, and the envelope is of that window.
LEMMA CurrentRow ==
  ASSUME TypeInv, RealInv, NEW s \in hist, WindowEnding(s.r.wkReset) = WindowOf(clock)
  PROVE  /\ Envelope # <<>> /\ s \in Kept(Recent(hist, clock))
         /\ WindowEnding(LatestReset(Recent(hist, clock))) = WindowOf(clock)
<1> DEFINE rows == Recent(hist, clock)
           latest == LatestReset(rows)
           c == WindowOf(clock)
           begin == Week * c
<1>1. clock \in Nat /\ c \in Nat /\ Week \in Nat /\ KeepSecs \in Nat /\ Week <= KeepSecs
  BY InWindows, Bounds, Limits
<1>2. begin \in Nat /\ clock < begin + Week
  BY <1>1, WindowIs
<1>3. begin <= s.r.t /\ s.r.t \in Nat
  BY RowIs
<1> HIDE DEF begin, c
<1>4. s.r.t >= clock - KeepSecs
  BY <1>1, <1>2, <1>3
<1>5. s \in rows
  BY <1>4 DEF Recent
<1>6. /\ \E u \in rows : u.r.wkReset = latest
      /\ \A u \in rows : WindowEnding(u.r.wkReset) <= WindowEnding(latest)
      /\ \A u : u \in Kept(rows) <=> u \in rows /\ WindowEnding(u.r.wkReset) = WindowEnding(latest)
  BY <1>5, KeptAre
<1>7. WindowEnding(latest) \in 0 .. WindowOf(clock)
  <2>1. rows \in SUBSET hist
    BY DEF Recent
  <2> HIDE DEF rows, latest
  <2> QED BY <1>6, <2>1, RowIs
<1>8. c <= WindowEnding(latest)
  BY <1>5, <1>6 DEF c
<1>9. WindowEnding(latest) = c
  <2> HIDE DEF latest
  <2> QED BY <1>1, <1>7, <1>8 DEF c
<1>10. s \in Kept(rows)
  BY <1>5, <1>6, <1>9 DEF c
<1>11. Envelope # <<>>
  <2> DEFINE n == Cardinality(Kept(rows))
  <2>1. IsTable(hist) /\ IsTable(Kept(rows)) /\ Len(Envelope) = n
    BY EnvelopeIs DEF TypeInv, Envelope
  <2>2. PICK i \in 1 .. n : InOrder(Kept(rows))[i] = s
    BY <1>10, <2>1, Ordered
  <2>3. n \in Nat /\ n # 0
    BY <2>1, <2>2, FS_CardinalityType DEF IsTable
  <2> QED BY <2>1, <2>3
<1> QED BY <1>9, <1>10, <1>11 DEF c

\* While a window runs whose percentage was not taken back, the pool and the
\* envelope report the same of it (status.go shows the one beside a burn computed
\* from the other).
THEOREM PoolIsEnvelope == Spec => []PoolAgreesWithEnvelope
<1>1. AccountInv => PoolAgreesWithEnvelope
  <2> SUFFICES ASSUME TypeInv, RealInv, OrderInv, WeeklyPool.ok, dropped = Never,
                      WindowEnding(WeeklyPool.reset) = WindowOf(clock)
               PROVE  /\ Envelope # <<>>
                      /\ WindowEnding(Last(Envelope).wkReset) = WindowOf(clock)
                      /\ Last(Envelope).wk = WeeklyPool.used
    BY DEF AccountInv, PoolAgreesWithEnvelope
  <2> DEFINE e == Envelope
             n == Len(e)
             keep == Kept(Recent(hist, clock))
             latest == LatestReset(Recent(hist, clock))
             c == WindowOf(clock)
             used == WeeklyPool.used
  <2>1. PICK y \in Session : /\ HasReading(y) /\ used = snaps[y].payload.wk
                             /\ WindowEnding(snaps[y].payload.wkReset) = c
    BY PoolIs
  <2>2. PICK s \in hist : s.r.wk = snaps[y].payload.wk /\ s.r.wkReset = snaps[y].payload.wkReset
    BY <2>1, SnapshotReal
  <2>3. WindowEnding(s.r.wkReset) = c
    BY <2>1, <2>2
  <2>4. e # <<>> /\ s \in keep /\ WindowEnding(latest) = c
    BY <2>3, CurrentRow
  <2>5. /\ n \in 1 .. n /\ Last(e) = e[n]
        /\ \E u \in keep : u.r.wk = e[n].wk
        /\ \A u \in keep : u.r.wk <= e[n].wk
    BY <2>4, EnvelopeOf
  <2>6. e[n].wkReset = latest
    BY <2>4, <2>5, EnvelopeOf
  <2>7. used <= e[n].wk
    BY <2>1, <2>2, <2>4, <2>5
  <2>8. PICK u \in keep : u.r.wk = e[n].wk
    BY <2>5
  <2>9. u \in hist /\ WindowEnding(u.r.wkReset) = c
    <3>1. u \in Recent(hist, clock) /\ Recent(hist, clock) # {}
      BY DEF Kept
    <3>2. WindowEnding(u.r.wkReset) = WindowEnding(latest)
      BY <3>1, KeptAre
    <3> QED BY <2>4, <3>1, <3>2 DEF Recent
  <2> DEFINE z == u.r.session
             p == snaps[z].payload
  <2>10. z \in Session /\ u.r.wk \in Nat
    BY <2>9, RowIs
  <2>11. HasReading(z) /\ NoNewer(u.r.wkReset, u.r.wk, WindowEnding(p.wkReset), p.wk)
    BY <2>9, <2>10 DEF OrderInv, HasReading
  <2>12. p.wk \in Nat /\ WindowEnding(p.wkReset) \in 0 .. c
    BY <2>10, <2>11, SnapshotReal
  <2>13. c \in Nat
    BY InWindows
  <2> HIDE DEF z, c, used
  <2>14. WindowEnding(p.wkReset) = c /\ u.r.wk <= p.wk
    <3> HIDE DEF p
    <3> QED BY <2>9, <2>11, <2>12, <2>13 DEF NoNewer
  <2>15. p.wk <= used
    BY <2>10, <2>11, <2>14, PoolIs DEF c, used
  <2>16. used \in Nat
    BY <2>1, SnapshotReal
  <2> HIDE DEF p, e, n
  <2>17. e[n].wk = used
    BY <2>7, <2>8, <2>10, <2>12, <2>14, <2>15, <2>16
  <2> QED BY <2>4, <2>5, <2>6, <2>17 DEF e, c, used
<1> QED BY <1>1, AccountInvariant, PTL

=============================================================================
