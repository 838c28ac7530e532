--------------------------- MODULE PricingProofs ----------------------------
(***************************************************************************)
(* What is charged to a stretch of time, what has accrued since a reading,  *)
(* and how far $/1% is from the newest rate, for any spending, any blocks   *)
(* and any rates.                                                          *)
(***************************************************************************)
EXTENDS Pricing, NumberFacts, SequenceTheorems

LEMMA Sizes ==
  /\ BlockSpan \in Nat \ {0} /\ Dollar \in Nat /\ MaxClock \in Nat
  /\ Spends \subseteq Nat
BY PricingAssumption

-----------------------------------------------------------------------------
(***************************************************************************)
(* The sums, as totals of functions.                                       *)
(***************************************************************************)
LEMMA SpentIs == ASSUME NEW t0, NEW t1 PROVE Spent(t0, t1) = Total(spent, (t0 + 1) .. t1)
BY Zenon DEF Spent, Total

ShareOf(bs, t0, t1) == [b \in bs |-> Share(b, t0, t1)]
CostOf(bs) == [b \in bs |-> b.cost]

LEMMA CostIs ==
  ASSUME NEW bs, IsFiniteSet(bs), NEW t0, NEW t1, \A b \in bs : Share(b, t0, t1) \in Int
  PROVE  costBetween(bs, t0, t1) = Total(ShareOf(bs, t0, t1), bs)
<1> DEFINE f == ShareOf(bs, t0, t1)
           P(g) == g = [s \in SUBSET bs |-> IF s = {} THEN 0
                          ELSE Share(OneOf(s), t0, t1) + g[s \ {OneOf(s)}]]
<1>1. costBetween(bs, t0, t1) = (CHOOSE g : P(g))[bs]
  BY Zenon DEF costBetween, OneOf, MapThenSumSet, MapThenFoldSet
<1>2. \A x \in bs : f[x] = Share(x, t0, t1) /\ f[x] \in Int
  BY DEF ShareOf
<1>3. \A s \in SUBSET bs : s # {} => OneOf(s) \in bs
  BY DEF OneOf
<1> HIDE DEF f
<1>4. \A g : P(g) <=> Tallies(f, bs, g)
  BY <1>2, <1>3 DEF Tallies
<1>5. PICK g : Tallies(f, bs, g)
  BY <1>2, TallyExists
<1>6. P(g)
  BY <1>4, <1>5
<1> HIDE DEF P
<1>7. P(CHOOSE h : P(h))
  BY <1>6
<1>8. Tallies(f, bs, CHOOSE h : P(h))
  BY <1>4, <1>7
<1>9. Total(f, bs) = (CHOOSE h : P(h))[bs]
  BY <1>8, TotalIs
<1> QED BY <1>1, <1>9 DEF f

LEMMA CostSum ==
  ASSUME NEW bs, IsFiniteSet(bs), \A b \in bs : b.cost \in Int
  PROVE  MapThenSumSet(LAMBDA b : b.cost, bs) = Total(CostOf(bs), bs)
<1> DEFINE f == CostOf(bs)
           P(g) == g = [s \in SUBSET bs |-> IF s = {} THEN 0
                          ELSE OneOf(s).cost + g[s \ {OneOf(s)}]]
<1>1. MapThenSumSet(LAMBDA b : b.cost, bs) = (CHOOSE g : P(g))[bs]
  BY Zenon DEF OneOf, MapThenSumSet, MapThenFoldSet
<1>2. \A x \in bs : f[x] = x.cost /\ f[x] \in Int
  BY DEF CostOf
<1>3. \A s \in SUBSET bs : s # {} => OneOf(s) \in bs
  BY DEF OneOf
<1> HIDE DEF f
<1>4. \A g : P(g) <=> Tallies(f, bs, g)
  BY <1>2, <1>3 DEF Tallies
<1>5. PICK g : Tallies(f, bs, g)
  BY <1>2, TallyExists
<1>6. P(g)
  BY <1>4, <1>5
<1> HIDE DEF P
<1>7. P(CHOOSE h : P(h))
  BY <1>6
<1>8. Tallies(f, bs, CHOOSE h : P(h))
  BY <1>4, <1>7
<1>9. Total(f, bs) = (CHOOSE h : P(h))[bs]
  BY <1>8, TotalIs
<1> QED BY <1>1, <1>9 DEF f

LEMMA BillIs ==
  ASSUME NEW bs, IsFiniteSet(bs), \A b \in bs : b.cost \in Int
  PROVE  BillOf(bs) = Dollar * Total(CostOf(bs), bs)
<1>1. MapThenSumSet(LAMBDA b : b.cost, bs) = Total(CostOf(bs), bs)
  BY CostSum
<1> QED BY <1>1, Zenon DEF BillOf

-----------------------------------------------------------------------------
(***************************************************************************)
(* Shares.                                                                 *)
(***************************************************************************)
BlockType == {b \in [s : Nat, e : Nat, cost : Nat, mixed : BOOLEAN] : b.s < b.e}

LEMMA MinOfTwo ==
  ASSUME NEW a \in Int, NEW b \in Int
  PROVE  Min({a, b}) = IF a <= b THEN a ELSE b
<1>1. \E x \in {a, b} : \A y \in {a, b} : x <= y
  OBVIOUS
<1>2. Min({a, b}) \in {a, b} /\ \A y \in {a, b} : Min({a, b}) <= y
  BY <1>1 DEF Min
<1> QED BY <1>2

LEMMA MaxOfTwo ==
  ASSUME NEW a \in Int, NEW b \in Int
  PROVE  Max({a, b}) = IF a >= b THEN a ELSE b
<1>1. \E x \in {a, b} : \A y \in {a, b} : x >= y
  OBVIOUS
<1>2. Max({a, b}) \in {a, b} /\ \A y \in {a, b} : Max({a, b}) >= y
  BY <1>1 DEF Max
<1> QED BY <1>2

\* A quotient of what is a multiple, or less than one.
LEMMA Exactly ==
  ASSUME NEW a \in Nat, NEW b \in Nat \ {0}, NEW c \in Nat, a = c * b
  PROVE  a \div b = c
BY Z3

LEMMA AtMost ==
  ASSUME NEW a \in Nat, NEW b \in Nat \ {0}, NEW c \in Nat, a <= c * b
  PROVE  a \div b \in 0 .. c
BY Z3

\* The part of a block that is in the time from t0 to t1.
Overlap(b, t0, t1) ==
  (IF b.e <= t1 THEN b.e ELSE t1) - (IF b.s >= t0 THEN b.s ELSE t0)

LEMMA ShareIs ==
  ASSUME NEW b \in BlockType, NEW t0 \in Nat, NEW t1 \in Nat
  PROVE  Share(b, t0, t1) =
           IF Overlap(b, t0, t1) <= 0 THEN 0
           ELSE (b.cost * Overlap(b, t0, t1) * Dollar) \div (b.e - b.s)
<1>1. b.s \in Int /\ b.e \in Int
  BY DEF BlockType
<1>2. Min({b.e, t1}) - Max({b.s, t0}) = Overlap(b, t0, t1)
  BY <1>1, MinOfTwo, MaxOfTwo DEF Overlap
<1> QED BY <1>2 DEF Share

LEMMA ShareBounds ==
  ASSUME NEW b \in BlockType, NEW t0 \in Nat, NEW t1 \in Nat
  PROVE  /\ Share(b, t0, t1) \in 0 .. Dollar * b.cost
         /\ t0 <= b.s /\ b.e <= t1 => Share(b, t0, t1) = Dollar * b.cost
         /\ b.e <= t0 \/ t1 <= b.s => Share(b, t0, t1) = 0
<1> DEFINE o == Overlap(b, t0, t1)
           l == b.e - b.s
           c == b.cost
<1>1. c \in Nat /\ l \in Nat \ {0} /\ o \in Int /\ o <= l
  BY DEF BlockType, Overlap
<1>2. /\ t0 <= b.s /\ b.e <= t1 => o = l
      /\ b.e <= t0 \/ t1 <= b.s => o <= 0
  BY DEF BlockType, Overlap
<1>3. Share(b, t0, t1) = IF o <= 0 THEN 0 ELSE (c * o * Dollar) \div l
  BY ShareIs
<1> HIDE DEF o, l, c
<1>4. Dollar \in Nat /\ Dollar * c \in Nat
  BY <1>1, Sizes, Z3
<1>5. CASE o <= 0
  BY <1>1, <1>2, <1>3, <1>4, <1>5 DEF c
<1>6. CASE o > 0
  <2>1. c * o * Dollar \in Nat /\ c * o * Dollar <= (Dollar * c) * l
    BY <1>1, <1>4, <1>6, Z3
  <2>2. (c * o * Dollar) \div l \in 0 .. Dollar * c
    BY <1>1, <1>4, <2>1, AtMost
  <2>3. o = l => c * o * Dollar = (Dollar * c) * l
    BY <1>1, <1>4, Z3
  <2>4. o = l => (c * o * Dollar) \div l = Dollar * c
    BY <1>1, <1>4, <2>1, <2>3, Exactly
  <2> QED BY <1>1, <1>2, <1>3, <1>6, <2>2, <2>4 DEF c
<1> QED BY <1>1, <1>5, <1>6

-----------------------------------------------------------------------------
(***************************************************************************)
(* What the blocks have to do with what was spent.                         *)
(***************************************************************************)
Units(b) == (b.s + 1) .. b.e

LEMMA Stretch == ASSUME NEW a \in Int, NEW b \in Int PROVE IsFiniteSet((a + 1) .. b)
<1>1. a + 1 \in Int
  OBVIOUS
<1> DEFINE c == a + 1
<1> HIDE DEF c
<1>2. c \in Int => IsFiniteSet(c .. b)
  BY FS_Interval
<1> QED BY <1>1, <1>2 DEF c

\* A block that goes on to u.
LEMMA GrownIs ==
  ASSUME NEW b \in BlockType, NEW u \in Nat, b.s < u, NEW k \in Nat, NEW isMixed \in BOOLEAN
  PROVE  /\ Grown(b, u, k, isMixed).s = b.s
         /\ Grown(b, u, k, isMixed).e = u
         /\ Grown(b, u, k, isMixed).cost = b.cost + k
         /\ Grown(b, u, k, isMixed).mixed = (b.mixed \/ isMixed)
         /\ Grown(b, u, k, isMixed) \in BlockType
<1> DEFINE g == Grown(b, u, k, isMixed)
<1>1. /\ b \in [s : Nat, e : Nat, cost : Nat, mixed : BOOLEAN]
      /\ b.cost + k \in Nat /\ (b.mixed \/ isMixed) \in BOOLEAN
  BY DEF BlockType
<1>2. g.s = b.s /\ g.e = u /\ g.cost = b.cost + k /\ g.mixed = (b.mixed \/ isMixed)
  BY <1>1 DEF Grown
<1>3. g \in [s : Nat, e : Nat, cost : Nat, mixed : BOOLEAN]
  BY <1>1 DEF Grown
<1> QED BY <1>2, <1>3 DEF BlockType

\* Blocks follow one another; each has at least the cost of what was spent in
\* its time, and without another vendor just that; nothing is spent outside.
TypeInv ==
  /\ clock \in Nat
  /\ spent \in Seq(Nat) /\ Len(spent) = clock
  /\ other \subseteq 1 .. clock
  /\ blocks \in Seq(BlockType)

OrderInv ==
  \A i \in 1 .. Len(blocks) :
    /\ blocks[i].e <= clock
    /\ \A j \in 1 .. Len(blocks) : i < j => blocks[i].e <= blocks[j].s

BilledInv ==
  \A i \in 1 .. Len(blocks) :
    /\ Total(spent, Units(blocks[i])) <= blocks[i].cost
    /\ ~ blocks[i].mixed => Total(spent, Units(blocks[i])) = blocks[i].cost

CoveredInv ==
  \A u \in 1 .. clock :
    spent[u] # 0 => \E i \in 1 .. Len(blocks) : u \in Units(blocks[i])

BlocksInv == TypeInv /\ OrderInv /\ BilledInv /\ CoveredInv

LEMMA BlocksInit == Init => BlocksInv
<1> SUFFICES ASSUME Init PROVE BlocksInv
  OBVIOUS
<1>1. clock = 0 /\ spent = << >> /\ other = {} /\ blocks = << >>
  BY DEF Init
<1>2. TypeInv
  BY <1>1 DEF TypeInv
<1>3. Len(blocks) = 0
  BY <1>1
<1>4. OrderInv /\ BilledInv /\ CoveredInv
  BY <1>1, <1>3 DEF OrderInv, BilledInv, CoveredInv
<1> QED BY <1>2, <1>4 DEF BlocksInv

LEMMA UnitsAre ==
  ASSUME BlocksInv, NEW i \in 1 .. Len(blocks)
  PROVE  /\ blocks[i] \in BlockType
         /\ blocks[i].s \in Nat /\ blocks[i].e \in Nat /\ blocks[i].cost \in Nat
         /\ blocks[i].mixed \in BOOLEAN
         /\ blocks[i].s < blocks[i].e /\ blocks[i].e <= clock
         /\ Units(blocks[i]) \subseteq 1 .. clock /\ IsFiniteSet(Units(blocks[i]))
         /\ \A u \in Units(blocks[i]) : spent[u] \in Nat
         /\ Total(spent, Units(blocks[i])) \in Nat
<1>1. blocks[i] \in BlockType /\ blocks[i].e <= clock
  BY DEF BlocksInv, TypeInv, OrderInv
<1>2. /\ blocks[i].s \in Nat /\ blocks[i].e \in Nat /\ blocks[i].cost \in Nat
      /\ blocks[i].mixed \in BOOLEAN /\ blocks[i].s < blocks[i].e
  BY <1>1 DEF BlockType
<1>3. Units(blocks[i]) \subseteq 1 .. clock
  BY <1>1, <1>2 DEF Units, BlocksInv, TypeInv
<1>4. IsFiniteSet(Units(blocks[i]))
  BY <1>2, Stretch DEF Units
<1>5. \A u \in Units(blocks[i]) : spent[u] \in Nat
  BY <1>3 DEF BlocksInv, TypeInv
<1> QED BY <1>1, <1>2, <1>3, <1>4, <1>5, TotalNat

\* Time passes over a block that is over.
LEMMA OldBlock ==
  ASSUME BlocksInv, NEW c \in Nat, spent' = Append(spent, c), NEW i \in 1 .. Len(blocks)
  PROVE  /\ Total(spent', Units(blocks[i])) = Total(spent, Units(blocks[i]))
         /\ \A u \in 1 .. clock : spent'[u] = spent[u]
         /\ spent'[clock + 1] = c
<1>1. (\A u \in 1 .. clock : spent'[u] = spent[u]) /\ spent'[clock + 1] = c
  BY DEF BlocksInv, TypeInv
<1>2. /\ IsFiniteSet(Units(blocks[i]))
      /\ \A u \in Units(blocks[i]) : spent[u] \in Int /\ spent[u] = spent'[u]
  <2>1. IsFiniteSet(Units(blocks[i])) /\ Units(blocks[i]) \subseteq 1 .. clock
    BY UnitsAre
  <2>2. \A u \in Units(blocks[i]) : spent[u] \in Nat
    BY UnitsAre
  <2>3. ASSUME NEW u \in Units(blocks[i]) PROVE spent[u] \in Int /\ spent[u] = spent'[u]
    <3>1. u \in 1 .. clock
      BY <2>1
    <3>2. spent[u] \in Nat
      BY <2>2
    <3>3. spent'[u] = spent[u]
      BY <1>1, <3>1
    <3> QED BY <3>2, <3>3
  <2> QED BY <2>1, <2>3
<1>3. Total(spent, Units(blocks[i])) = Total(spent', Units(blocks[i]))
  BY <1>2, TotalSame
<1> QED BY <1>1, <1>3

LEMMA PassBlocks ==
  ASSUME BlocksInv, NEW c \in Spends, NEW isMixed \in BOOLEAN, Pass(c, isMixed)
  PROVE  BlocksInv'
<1>0. c \in Nat
  BY Sizes
<1>1. /\ clock' = clock + 1 /\ spent' = Append(spent, c)
      /\ other' = (IF isMixed THEN other \union {clock + 1} ELSE other)
  BY DEF Pass
<1>2. /\ clock \in Nat /\ spent \in Seq(Nat) /\ Len(spent) = clock /\ other \subseteq 1 .. clock
      /\ blocks \in Seq(BlockType)
  BY DEF BlocksInv, TypeInv
<1>3. clock' \in Nat /\ spent' \in Seq(Nat) /\ Len(spent') = clock' /\ other' \subseteq 1 .. clock'
  BY <1>0, <1>1, <1>2
<1>4. (\A u \in 1 .. clock : spent'[u] = spent[u]) /\ spent'[clock + 1] = c
  BY <1>0, <1>1, <1>2
<1>5. CASE ~ (c > 0 \/ isMixed)
  <2>1. blocks' = blocks /\ c = 0
    BY <1>0, <1>5 DEF Pass
  <2>2. TypeInv'
    BY <1>2, <1>3, <2>1 DEF TypeInv
  <2>3. OrderInv'
    <3>1. ASSUME NEW i \in 1 .. Len(blocks) PROVE blocks[i].e <= clock'
      <4>1. blocks[i].e \in Nat /\ blocks[i].e <= clock
        BY UnitsAre
      <4> QED BY <1>1, <1>2, <4>1
    <3> QED BY <2>1, <3>1 DEF OrderInv, BlocksInv
  <2>4. BilledInv'
    <3>1. \A i \in 1 .. Len(blocks) :
            Total(spent', Units(blocks[i])) = Total(spent, Units(blocks[i]))
      BY <1>0, <1>1, OldBlock
    <3> QED BY <2>1, <3>1 DEF BilledInv, BlocksInv
  <2>5. CoveredInv'
    <3>1. ASSUME NEW u \in 1 .. clock', spent'[u] # 0
          PROVE  \E i \in 1 .. Len(blocks) : u \in Units(blocks[i])
      <4>1. u \in 1 .. clock
        BY <1>1, <1>2, <1>4, <2>1, <3>1
      <4> QED BY <1>4, <3>1, <4>1 DEF CoveredInv, BlocksInv
    <3> QED BY <2>1, <3>1 DEF CoveredInv
  <2> QED BY <2>2, <2>3, <2>4, <2>5 DEF BlocksInv
<1>6. CASE c > 0 \/ isMixed
  <2> DEFINE u == clock + 1
             n == Len(blocks)
             grows == blocks # << >> /\ u <= Last(blocks).s + BlockSpan
             m == IF grows THEN n ELSE n + 1
  <2>1. blocks' = Used(blocks, u, c, isMixed)
    BY <1>6 DEF Pass
  <2>2. n \in Nat /\ (blocks # << >> => n \in 1 .. n /\ Last(blocks) = blocks[n])
    BY <1>2 DEF Last
  <2>3. Bill(c, isMixed) \in Nat /\ Bill(c, isMixed) >= c /\ (~ isMixed => Bill(c, isMixed) = c)
    BY <1>0 DEF Bill
  \* What is new is the last block, and ends now.
  <2>4. /\ m \in Nat \ {0} /\ blocks' \in Seq(BlockType) /\ Len(blocks') = m
        /\ \A i \in 1 .. m - 1 : i \in 1 .. n /\ blocks'[i] = blocks[i]
        /\ blocks'[m].e = u
        /\ \A i \in 1 .. m - 1 : blocks[i].e <= blocks'[m].s
        /\ Total(spent', Units(blocks'[m])) <= blocks'[m].cost
        /\ ~ blocks'[m].mixed => Total(spent', Units(blocks'[m])) = blocks'[m].cost
        /\ grows => blocks'[m].s = blocks[m].s /\ blocks[m].e <= u
    <3>1. CASE grows
      <4> DEFINE old == blocks[n]
                 grown == Grown(old, u, Bill(c, isMixed), isMixed)
      <4>1. n \in 1 .. n /\ m = n /\ Last(blocks) = old
        BY <2>2, <3>1
      <4>2. blocks' = [blocks EXCEPT ![n] = grown]
        BY <2>1, <3>1, Zenon DEF Used
      <4>3. /\ old \in BlockType /\ old.s \in Nat /\ old.e \in Nat /\ old.cost \in Nat
            /\ old.mixed \in BOOLEAN
            /\ old.s < old.e /\ old.e <= clock /\ Total(spent, Units(old)) \in Nat
        BY <4>1, UnitsAre
      <4>4. /\ grown.s = old.s /\ grown.e = u /\ grown.cost = old.cost + Bill(c, isMixed)
            /\ grown.mixed = (old.mixed \/ isMixed) /\ grown \in BlockType
        <5>1. u \in Nat /\ old.s < u /\ Bill(c, isMixed) \in Nat
          BY <1>2, <2>3, <4>3
        <5> HIDE DEF old, u
        <5> QED BY <4>3, <5>1, GrownIs
      <4>5. /\ blocks' \in Seq(BlockType) /\ Len(blocks') = n
            /\ \A i \in 1 .. n - 1 : blocks'[i] = blocks[i]
            /\ blocks'[n] = grown
        <5> QED BY <1>2, <2>2, <4>1, <4>2, <4>4
      <4>6. ASSUME NEW i \in 1 .. n - 1 PROVE blocks[i].e <= old.s
        <5>1. i \in 1 .. n /\ i < n
          BY <2>2
        <5> QED BY <4>1, <5>1 DEF BlocksInv, OrderInv
      <4>7. Units(grown) = Units(old) \union ((old.e + 1) .. u)
        <5> HIDE DEF grown, old
        <5>1. Units(grown) = (old.s + 1) .. u
          BY <4>4 DEF Units
        <5>2. old.s <= old.e /\ old.e <= u /\ u \in Int
          BY <1>2, <4>3
        <5> HIDE DEF u
        <5>3. Units(old) = (old.s + 1) .. old.e
          BY DEF Units
        <5> QED BY <4>3, <5>1, <5>2, <5>3
      <4>8. \A v \in (old.e + 1) .. clock : spent[v] = 0
        <5>1. SUFFICES ASSUME NEW v \in (old.e + 1) .. clock, spent[v] # 0 PROVE FALSE
          OBVIOUS
        <5>2. v \in 1 .. clock
          BY <4>3
        <5>3. PICK i \in 1 .. n : v \in Units(blocks[i])
          BY <5>1, <5>2 DEF CoveredInv, BlocksInv
        <5>4. blocks[i].s \in Nat /\ blocks[i].e \in Nat
          BY UnitsAre
        <5>5. blocks[i].e <= old.e
          <6>1. CASE i = n
            BY <4>3, <6>1
          <6>2. CASE i # n
            <7>1. i \in 1 .. n - 1
              BY <2>2, <6>2
            <7>2. blocks[i].e <= old.s
              BY <4>6, <7>1
            <7> QED BY <4>3, <5>4, <7>2
          <6> QED BY <6>1, <6>2
        <5> QED BY <4>3, <5>3, <5>4, <5>5 DEF Units
      <4> DEFINE gap == (old.e + 1) .. clock
      <4>9. Total(spent', gap) = 0
        <5>1. IsFiniteSet(gap)
          <6> HIDE DEF old
          <6> QED BY <1>2, <4>3, Stretch
        <5>2. \A v \in gap : spent'[v] = 0
          BY <1>4, <4>3, <4>8
        <5> HIDE DEF gap
        <5> QED BY <5>1, <5>2, TotalZero
      <4>10. Total(spent', Units(grown)) = Total(spent, Units(old)) + c
        <5>1. /\ IsFiniteSet(Units(old)) /\ IsFiniteSet(gap) /\ Units(old) \cap gap = {}
              /\ IsFiniteSet(Units(old) \union gap)
          <6>1. Units(old) \cap gap = {}
            BY <1>2, <4>3 DEF Units
          <6>2. IsFiniteSet(Units(old))
            BY <4>1, UnitsAre
          <6>3. IsFiniteSet(gap)
            <7> HIDE DEF old
            <7> QED BY <1>2, <4>3, Stretch
          <6> HIDE DEF gap
          <6> QED BY <6>1, <6>2, <6>3, FS_Union
        <5>2. \A v \in Units(old) \union gap : spent'[v] \in Nat /\ v # u
          <6>1. Units(old) \union gap \subseteq 1 .. clock
            BY <4>1, <4>3, UnitsAre
          <6> QED BY <1>2, <1>4, <6>1
        <5>3. Units(grown) = (Units(old) \union gap) \union {u}
          BY <1>2, <4>3, <4>7
        <5>4. u \notin Units(old) \union gap
          BY <5>2
        <5>5. Total(spent', Units(old) \union gap) = Total(spent', Units(old)) + Total(spent', gap)
          <6>1. \A v \in Units(old) \union gap : spent'[v] \in Int
            BY <5>2
          <6> HIDE DEF gap
          <6> QED BY <5>1, <6>1, TotalUnion
        <5>6. Total(spent', Units(old)) = Total(spent, Units(old))
          BY <1>0, <1>1, <4>1, OldBlock
        <5>7. Total(spent', (Units(old) \union gap) \union {u})
                = spent'[u] + Total(spent', Units(old) \union gap)
          <6>1. \A v \in (Units(old) \union gap) \union {u} : spent'[v] \in Int
            BY <1>0, <1>4, <5>2
          <6> HIDE DEF gap, u
          <6> QED BY <5>1, <5>4, <6>1, TotalAdd
        <5> HIDE DEF gap, old
        <5> QED BY <1>0, <1>4, <4>3, <4>9, <5>3, <5>5, <5>6, <5>7
      <4>11. /\ Total(spent, Units(old)) <= old.cost
             /\ ~ old.mixed => Total(spent, Units(old)) = old.cost
        BY <4>1 DEF BlocksInv, BilledInv
      <4> HIDE DEF old
      <4>12. /\ Total(spent', Units(grown)) <= grown.cost
             /\ ~ grown.mixed => Total(spent', Units(grown)) = grown.cost
        BY <1>0, <2>3, <4>3, <4>4, <4>10, <4>11
      <4>13. old.e <= u
        BY <1>2, <4>3
      <4> QED BY <3>1, <4>1, <4>4, <4>5, <4>6, <4>12, <4>13 DEF old
    <3>2. CASE ~ grows
      <4> DEFINE new == [s |-> u - 1, e |-> u, cost |-> Bill(c, isMixed), mixed |-> isMixed]
      <4>1. blocks' = Append(blocks, new) /\ m = n + 1
        BY <2>1, <3>2 DEF Used
      <4>2. new \in BlockType
        BY <1>2, <2>3 DEF BlockType
      <4>3. /\ blocks' \in Seq(BlockType) /\ Len(blocks') = n + 1
            /\ \A i \in 1 .. n : blocks'[i] = blocks[i]
            /\ blocks'[n + 1] = new
        <5> HIDE DEF new
        <5> QED BY <1>2, <4>1, <4>2
      <4>4. ASSUME NEW i \in 1 .. n PROVE blocks[i].e <= new.s
        BY <1>2, UnitsAre
      <4>5. Units(new) = {u}
        BY <1>2 DEF Units
      <4>6. Total(spent', {u}) = c
        <5>1. Total(spent', {} \union {u}) = spent'[u] + Total(spent', {})
          BY <1>0, <1>4, FS_EmptySet, TotalAdd
        <5> QED BY <1>0, <1>4, <5>1, TotalEmpty
      <4>7. new.e = u /\ new.cost = Bill(c, isMixed) /\ new.mixed = isMixed
        OBVIOUS
      <4> HIDE DEF new
      <4>8. m \in Nat \ {0} /\ m - 1 = n
        BY <2>2, <4>1
      <4>9. /\ Total(spent', Units(new)) <= new.cost
            /\ ~ new.mixed => Total(spent', Units(new)) = new.cost
        BY <1>0, <2>3, <4>5, <4>6, <4>7
      <4> QED BY <3>2, <4>1, <4>3, <4>4, <4>7, <4>8, <4>9
    <3> QED BY <3>1, <3>2
  <2> HIDE DEF m, grows
  <2>5. TypeInv'
    BY <1>3, <2>4 DEF TypeInv
  <2>6. ASSUME NEW i \in 1 .. m - 1
        PROVE  /\ blocks'[i] = blocks[i] /\ i \in 1 .. n /\ blocks[i].e \in Nat
               /\ blocks[i].e <= clock
               /\ Total(spent', Units(blocks[i])) = Total(spent, Units(blocks[i]))
    BY <1>0, <1>1, <2>4, UnitsAre, OldBlock
  <2>7. OrderInv'
    <3>1. ASSUME NEW i \in 1 .. m PROVE blocks'[i].e <= clock'
      BY <1>1, <1>2, <2>4, <2>6
    <3>2. ASSUME NEW i \in 1 .. m, NEW j \in 1 .. m, i < j PROVE blocks'[i].e <= blocks'[j].s
      <4>1. i \in 1 .. m - 1
        BY <2>4, <3>2
      <4>2. CASE j = m
        BY <2>4, <2>6, <4>1, <4>2
      <4>3. CASE j # m
        <5>1. j \in 1 .. m - 1
          BY <2>4, <4>3
        <5> QED BY <2>6, <3>2, <4>1, <5>1 DEF OrderInv, BlocksInv
      <4> QED BY <4>2, <4>3
    <3> QED BY <2>4, <3>1, <3>2 DEF OrderInv
  <2>8. BilledInv'
    <3>1. ASSUME NEW i \in 1 .. m
          PROVE  /\ Total(spent', Units(blocks'[i])) <= blocks'[i].cost
                 /\ ~ blocks'[i].mixed => Total(spent', Units(blocks'[i])) = blocks'[i].cost
      <4>1. CASE i = m
        BY <2>4, <4>1
      <4>2. CASE i # m
        <5>1. i \in 1 .. m - 1
          BY <2>4, <4>2
        <5> QED BY <2>6, <5>1 DEF BilledInv, BlocksInv
      <4> QED BY <4>1, <4>2
    <3> QED BY <2>4, <3>1 DEF BilledInv
  <2>9. CoveredInv'
    <3>1. ASSUME NEW v \in 1 .. clock', spent'[v] # 0
          PROVE  \E i \in 1 .. m : v \in Units(blocks'[i])
      <4>0. blocks'[m].s \in Nat /\ blocks'[m].s < u /\ m \in 1 .. m
        <5>1. blocks'[m] \in BlockType /\ m \in 1 .. m
          BY <2>4
        <5> QED BY <2>4, <5>1 DEF BlockType
      <4>1. CASE v = u
        <5>1. v \in Units(blocks'[m])
          BY <1>2, <2>4, <4>0, <4>1 DEF Units
        <5> QED BY <4>0, <5>1
      <4>2. CASE v # u
        <5>1. v \in 1 .. clock /\ spent[v] # 0
          BY <1>1, <1>2, <1>4, <3>1, <4>2
        <5>2. PICK i \in 1 .. n : v \in Units(blocks[i])
          BY <5>1 DEF CoveredInv, BlocksInv
        <5>3. CASE i \in 1 .. m - 1
          BY <2>4, <2>6, <5>2, <5>3
        <5>4. CASE i \notin 1 .. m - 1
          <6>1. i = m /\ grows
            BY <2>2, <2>4, <5>2, <5>4 DEF m
          <6>2. blocks[m].s = blocks'[m].s /\ blocks[m].e <= u /\ blocks[m].e \in Nat
            BY <2>4, <5>2, <6>1, UnitsAre
          <6>3. v \in Units(blocks'[m])
            <7>1. v \in (blocks[m].s + 1) .. blocks[m].e
              BY <5>2, <6>1 DEF Units
            <7> DEFINE new == blocks'[m]
            <7>2. new.e = u /\ new.s = blocks[m].s /\ u \in Nat
              BY <1>2, <2>4, <6>2
            <7>3. v \in (blocks[m].s + 1) .. u
              <8>1. blocks[m].s \in Nat
                BY <4>0, <6>2
              <8> HIDE DEF u
              <8> QED BY <6>2, <7>1, <7>2, <8>1
            <7> HIDE DEF new, u
            <7>4. v \in Units(new)
              BY <7>2, <7>3 DEF Units
            <7> QED BY <7>4 DEF new
          <6> QED BY <4>0, <6>3
        <5> QED BY <5>3, <5>4
      <4> QED BY <4>1, <4>2
    <3> QED BY <2>4, <3>1 DEF CoveredInv
  <2> QED BY <2>5, <2>7, <2>8, <2>9 DEF BlocksInv
<1> QED BY <1>5, <1>6

LEMMA BlocksInvariant == Spec => []BlocksInv
<1>1. BlocksInv /\ [Next]_vars => BlocksInv'
  <2> SUFFICES ASSUME BlocksInv, [Next]_vars PROVE BlocksInv'
    OBVIOUS
  <2>1. CASE UNCHANGED <<clock, spent, other, blocks>>
    BY <2>1 DEF BlocksInv, TypeInv, OrderInv, BilledInv, CoveredInv
  <2>2. ASSUME NEW c \in Spends, NEW isMixed \in BOOLEAN, Pass(c, isMixed) PROVE BlocksInv'
    BY <2>2, PassBlocks
  <2> QED BY <2>1, <2>2 DEF Next, Render, vars
<1> QED BY <1>1, BlocksInit, PTL DEF Spec

-----------------------------------------------------------------------------
(***************************************************************************)
(* The blocks as a set.                                                    *)
(***************************************************************************)
LEMMA ReportedIs ==
  ASSUME BlocksInv
  PROVE  /\ IsFiniteSet(Reported) /\ Reported \subseteq BlockType
         /\ \A b \in Reported : /\ b.s \in Nat /\ b.e \in Nat /\ b.cost \in Nat
                                /\ b.mixed \in BOOLEAN /\ b.s < b.e /\ b.e <= clock
                                /\ Units(b) \subseteq 1 .. clock /\ IsFiniteSet(Units(b))
                                /\ Total(spent, Units(b)) \in Nat
                                /\ Total(spent, Units(b)) <= b.cost
                                /\ ~ b.mixed => Total(spent, Units(b)) = b.cost
         /\ \A b, c \in Reported : b # c => Units(b) \cap Units(c) = {}
         /\ \A u \in 1 .. clock : spent[u] # 0 => \E b \in Reported : u \in Units(b)
<1> DEFINE n == Len(blocks)
<1>1. n \in Nat /\ DOMAIN blocks = 1 .. n
  BY DEF BlocksInv, TypeInv
<1>2. Reported = {blocks[i] : i \in 1 .. n}
  BY <1>1 DEF Reported, ToSet
<1> HIDE DEF n
<1>3. IsFiniteSet(Reported)
  <2>1. IsFiniteSet(1 .. n)
    BY <1>1, FS_Interval
  <2> DEFINE f == [i \in 1 .. n |-> blocks[i]]
  <2>2. f \in Surjection(1 .. n, Reported)
    BY <1>2 DEF Surjection
  <2> QED BY <2>1, <2>2, FS_Surjection
<1>4. ASSUME NEW b \in Reported
      PROVE  /\ b \in BlockType
             /\ b.s \in Nat /\ b.e \in Nat /\ b.cost \in Nat
             /\ b.mixed \in BOOLEAN /\ b.s < b.e /\ b.e <= clock
             /\ Units(b) \subseteq 1 .. clock /\ IsFiniteSet(Units(b))
             /\ Total(spent, Units(b)) \in Nat
             /\ Total(spent, Units(b)) <= b.cost
             /\ ~ b.mixed => Total(spent, Units(b)) = b.cost
  <2>1. PICK i \in 1 .. Len(blocks) : b = blocks[i]
    BY <1>2 DEF n
  <2>2. /\ Total(spent, Units(blocks[i])) <= blocks[i].cost
        /\ ~ blocks[i].mixed => Total(spent, Units(blocks[i])) = blocks[i].cost
    BY DEF BlocksInv, BilledInv
  <2> QED BY <2>1, <2>2, UnitsAre
<1>5. ASSUME NEW b \in Reported, NEW c \in Reported, b # c
      PROVE  Units(b) \cap Units(c) = {}
  <2>1. PICK i \in 1 .. n, j \in 1 .. n : b = blocks[i] /\ c = blocks[j]
    BY <1>2
  <2>2. b.e <= c.s \/ c.e <= b.s
    <3>1. i < j \/ j < i
      BY <1>1, <1>5, <2>1
    <3> QED BY <2>1, <3>1 DEF BlocksInv, OrderInv, n
  <2> QED BY <1>4, <2>2 DEF Units
<1>6. ASSUME NEW u \in 1 .. clock, spent[u] # 0 PROVE \E b \in Reported : u \in Units(b)
  <2>1. PICK i \in 1 .. n : u \in Units(blocks[i])
    BY <1>6 DEF BlocksInv, CoveredInv, n
  <2> QED BY <1>2, <2>1
<1> QED BY <1>3, <1>4, <1>5, <1>6

UnitsOf(W) == UNION {Units(b) : b \in W}
SpentIn(W) == [b \in W |-> Total(spent, Units(b))]

\* What was spent in several blocks is what was spent in their units.
LEMMA SpentInBlocks ==
  ASSUME BlocksInv, NEW W \in SUBSET Reported
  PROVE  /\ UnitsOf(W) \subseteq 1 .. clock /\ IsFiniteSet(UnitsOf(W))
         /\ \A u \in UnitsOf(W) : spent[u] \in Nat
         /\ Total(SpentIn(W), W) = Total(spent, UnitsOf(W))
<1> DEFINE f == SpentIn(W)
           F == {v \in SUBSET W : /\ IsFiniteSet(UnitsOf(v))
                                  /\ Total(f, v) = Total(spent, UnitsOf(v))}
<1>1. /\ IsFiniteSet(Reported)
      /\ \A b \in Reported : /\ Units(b) \subseteq 1 .. clock /\ IsFiniteSet(Units(b))
                             /\ Total(spent, Units(b)) \in Nat
      /\ \A b, c \in Reported : b # c => Units(b) \cap Units(c) = {}
  BY ReportedIs
<1>2. IsFiniteSet(W)
  BY <1>1, FS_Subset
<1>3. \A u \in 1 .. clock : spent[u] \in Nat
  BY DEF BlocksInv, TypeInv
<1>4. \A v \in SUBSET W : UnitsOf(v) \subseteq 1 .. clock
  BY <1>1 DEF UnitsOf
<1>5. \A b \in W : f[b] = Total(spent, Units(b)) /\ f[b] \in Int
  BY <1>1 DEF SpentIn
<1> HIDE DEF f
<1>6. {} \in F
  <2>1. UnitsOf({}) = {}
    BY DEF UnitsOf
  <2> QED BY <2>1, FS_EmptySet, TotalEmpty
<1>7. ASSUME NEW v \in F, NEW b \in W \ v PROVE v \union {b} \in F
  <2>1. v \in SUBSET W /\ IsFiniteSet(UnitsOf(v)) /\ Total(f, v) = Total(spent, UnitsOf(v))
    OBVIOUS
  <2>2. UnitsOf(v \union {b}) = UnitsOf(v) \union Units(b)
    BY DEF UnitsOf
  <2>3. UnitsOf(v) \cap Units(b) = {}
    BY <1>1, <2>1 DEF UnitsOf
  <2>4. IsFiniteSet(Units(b))
    BY <1>1
  <2>5. \A u \in UnitsOf(v) \union Units(b) : spent[u] \in Int
    <3>1. UnitsOf(v) \union Units(b) \subseteq 1 .. clock
      BY <1>1, <1>4, <2>1
    <3> QED BY <1>3, <3>1
  <2>6. /\ Total(spent, UnitsOf(v)) \in Int /\ Total(spent, Units(b)) \in Int
        /\ Total(spent, UnitsOf(v) \union Units(b)) = Total(spent, UnitsOf(v)) + Total(spent, Units(b))
    BY <2>1, <2>3, <2>4, <2>5, TotalUnion
  <2>7. Total(f, v \union {b}) = f[b] + Total(f, v)
    <3>1. IsFiniteSet(v) /\ b \notin v /\ \A x \in v \union {b} : f[x] \in Int
      BY <1>2, <1>5, <2>1, FS_Subset
    <3> QED BY <3>1, TotalAdd
  <2>8. IsFiniteSet(UnitsOf(v) \union Units(b))
    BY <2>1, <2>4, FS_Union
  <2>9. f[b] = Total(spent, Units(b))
    BY <1>5
  <2>10. Total(f, v \union {b}) = Total(spent, UnitsOf(v \union {b}))
    <3>1. Total(spent, UnitsOf(v \union {b})) = Total(spent, UnitsOf(v) \union Units(b))
      BY <2>2, Zenon
    <3> DEFINE x == Total(spent, UnitsOf(v))
               y == Total(spent, Units(b))
    <3>2. Total(f, v) = x /\ f[b] = y /\ x \in Int /\ y \in Int
      BY <2>1, <2>6, <2>9
    <3>3. Total(spent, UnitsOf(v) \union Units(b)) = x + y
      BY <2>6
    <3> HIDE DEF x, y
    <3> QED BY <2>7, <3>1, <3>2, <3>3
  <2>11. v \union {b} \in SUBSET W /\ IsFiniteSet(UnitsOf(v \union {b}))
    BY <2>1, <2>2, <2>8
  <2> QED BY <2>10, <2>11
<1>8. W \in F
  <2> HIDE DEF F
  <2>1. F \in SUBSET (SUBSET W)
    BY DEF F
  <2> QED BY <1>2, <1>6, <1>7, <2>1, AllOfIt
<1> QED BY <1>3, <1>4, <1>8 DEF f

-----------------------------------------------------------------------------
(***************************************************************************)
(* What a stretch of time is charged.                                      *)
(***************************************************************************)
Whole(t0, t1) == {b \in decodeBlocks(Reported) : t0 <= b.s /\ b.e <= t1}

\* Of the blocks that count, those in the stretch are charged in full, what was
\* spent in their units; those cut at its ends at most that; the others nothing.
LEMMA Charged ==
  ASSUME BlocksInv, NEW t0 \in Nat, NEW t1 \in Nat, t0 < t1
  PROVE  LET W == Whole(t0, t1)
             C == decodeBlocks(CutBlocks(t0, t1))
             all == costBetween(decodeBlocks(Reported), t0, t1)
         IN /\ W \subseteq Reported /\ IsFiniteSet(W) /\ W \cap CutBlocks(t0, t1) = {}
            /\ all \in Nat /\ BillOf(C) \in Nat
            /\ Total(spent, UnitsOf(W)) \in Nat
            /\ Total(spent, UnitsOf(W)) = Total(CostOf(Reported), W)
            /\ Dollar * Total(spent, UnitsOf(W)) <= all
            /\ all <= Dollar * Total(spent, UnitsOf(W)) + BillOf(C)
<1> DEFINE R == Reported
           D == decodeBlocks(R)
           W == Whole(t0, t1)
           C == decodeBlocks(CutBlocks(t0, t1))
           O == D \ (W \union C)
           f == ShareOf(D, t0, t1)
           cost == CostOf(R)
           in == SpentIn(W)
<1>1. /\ IsFiniteSet(R) /\ R \subseteq BlockType
      /\ \A b \in R : /\ b.s \in Nat /\ b.e \in Nat /\ b.cost \in Nat /\ b.mixed \in BOOLEAN
                      /\ b.s < b.e
                      /\ Total(spent, Units(b)) \in Nat
                      /\ ~ b.mixed => Total(spent, Units(b)) = b.cost
  BY ReportedIs
<1>2. Dollar \in Nat
  BY Sizes
<1>3. /\ D \subseteq R /\ \A b \in D : ~ b.mixed
      /\ W \subseteq D /\ C \subseteq D /\ O \subseteq D
      /\ W \cap C = {} /\ W \cap CutBlocks(t0, t1) = {} /\ (W \union C) \cap O = {}
      /\ D = (W \union C) \union O
  BY <1>1 DEF decodeBlocks, allAnthropic, Whole, CutBlocks, Cut
<1>4. IsFiniteSet(D) /\ IsFiniteSet(W) /\ IsFiniteSet(C) /\ IsFiniteSet(O) /\ IsFiniteSet(W \union C)
  <2> HIDE DEF D, W, C, O, R
  <2> QED BY <1>1, <1>3, FS_Subset, FS_Union
\* The shares.
<1>5. ASSUME NEW b \in D
      PROVE  /\ Share(b, t0, t1) \in Nat /\ Share(b, t0, t1) <= Dollar * b.cost
             /\ b \in W => Share(b, t0, t1) = Dollar * b.cost
             /\ b \in O => Share(b, t0, t1) = 0
  <2>1. b \in BlockType /\ b \in R /\ b.cost \in Nat /\ b.s \in Nat /\ b.e \in Nat
    BY <1>1, <1>3
  <2>2. Dollar * b.cost \in Nat
    BY <1>2, <2>1, Z3
  <2>3. b \in W => t0 <= b.s /\ b.e <= t1
    BY DEF Whole
  <2>4. b \in O => b.e <= t0 \/ t1 <= b.s
    <3>1. SUFFICES ASSUME b \in O PROVE b.e <= t0 \/ t1 <= b.s
      OBVIOUS
    <3>2. ~ Cut(b, t0) /\ ~ Cut(b, t1)
      BY <2>1, <3>1 DEF CutBlocks, decodeBlocks
    <3>3. ~ (t0 <= b.s /\ b.e <= t1)
      BY <2>1, <3>1 DEF Whole
    <3> QED BY <2>1, <3>2, <3>3 DEF Cut
  <2> HIDE DEF D, W, C, O, R
  <2>5. /\ Share(b, t0, t1) \in 0 .. Dollar * b.cost
        /\ t0 <= b.s /\ b.e <= t1 => Share(b, t0, t1) = Dollar * b.cost
        /\ b.e <= t0 \/ t1 <= b.s => Share(b, t0, t1) = 0
    BY <2>1, ShareBounds
  <2> DEFINE k == Dollar * b.cost
  <2> HIDE DEF k
  <2>6. k \in Nat /\ Share(b, t0, t1) \in 0 .. k
    BY <2>2, <2>5 DEF k
  <2>7. Share(b, t0, t1) \in Nat /\ Share(b, t0, t1) <= k
    BY <2>6
  <2> QED BY <2>3, <2>4, <2>5, <2>7 DEF k
<1>6. \A b \in D : /\ f[b] = Share(b, t0, t1) /\ f[b] \in Nat
                   /\ cost[b] = b.cost /\ cost[b] \in Nat
                   /\ f[b] <= Dollar * cost[b]
                   /\ b \in W => f[b] = Dollar * cost[b]
                   /\ b \in O => f[b] = 0
  BY <1>1, <1>3, <1>5 DEF ShareOf, CostOf
<1>7. costBetween(D, t0, t1) = Total(f, D)
  <2>1. \A b \in D : Share(b, t0, t1) \in Int
    BY <1>5
  <2> HIDE DEF D
  <2> QED BY <1>4, <2>1, CostIs
<1>8. BillOf(C) = Dollar * Total(CostOf(C), C)
  <2>1. \A b \in C : b.cost \in Int
    BY <1>1, <1>3
  <2> HIDE DEF C
  <2> QED BY <1>4, <2>1, BillIs
<1>9. Total(CostOf(C), C) = Total(cost, C)
  <2>1. \A b \in C : CostOf(C)[b] \in Int /\ CostOf(C)[b] = cost[b]
    BY <1>1, <1>3 DEF CostOf
  <2> HIDE DEF C, cost
  <2> QED BY <1>4, <2>1, TotalSame
<1>10. Total(in, W) = Total(spent, UnitsOf(W)) /\ Total(in, W) \in Nat
  <2>1. /\ IsFiniteSet(UnitsOf(W)) /\ \A u \in UnitsOf(W) : spent[u] \in Nat
        /\ Total(in, W) = Total(spent, UnitsOf(W))
    BY <1>3, SpentInBlocks
  <2> QED BY <2>1, TotalNat
<1>11. Total(in, W) = Total(cost, W)
  <2>1. \A b \in W : in[b] \in Int /\ in[b] = cost[b]
    BY <1>1, <1>3 DEF SpentIn, CostOf
  <2> HIDE DEF W, in, cost
  <2> QED BY <1>4, <2>1, TotalSame
<1> HIDE DEF R, D, W, C, O, f, cost, in
\* Their totals.
<1>12. Total(f, D) = Total(f, W) + Total(f, C)
       /\ Total(f, W) \in Nat /\ Total(f, C) \in Nat
  <2>1. \A b \in (W \union C) \union O : f[b] \in Int
    BY <1>3, <1>6
  <2>2. Total(f, (W \union C) \union O) = Total(f, W \union C) + Total(f, O)
    BY <1>3, <1>4, <2>1, TotalUnion
  <2>3. \A b \in W \union C : f[b] \in Int
    BY <2>1
  <2>4. Total(f, W \union C) = Total(f, W) + Total(f, C)
    BY <1>3, <1>4, <2>3, TotalUnion
  <2>5. \A b \in O : f[b] = 0
    BY <1>3, <1>6
  <2>6. Total(f, O) = 0
    BY <1>4, <2>5, TotalZero
  <2>7. (\A b \in W : f[b] \in Nat) /\ (\A b \in C : f[b] \in Nat)
    BY <1>3, <1>6
  <2>8. Total(f, W) \in Nat /\ Total(f, C) \in Nat
    BY <1>4, <2>7, TotalNat
  <2> QED BY <1>3, <2>2, <2>4, <2>6, <2>8
<1>13. Total(f, W) = Dollar * Total(cost, W)
  <2>1. \A b \in W : cost[b] \in Int
    BY <1>3, <1>6
  <2>2. \A b \in W : f[b] = Dollar * cost[b]
    BY <1>3, <1>6
  <2>3. Dollar \in Int
    BY <1>2
  <2> QED BY <1>4, <2>1, <2>2, <2>3, TotalTimes
<1>14. Total(f, C) <= Dollar * Total(cost, C) /\ Dollar * Total(cost, C) \in Nat
  <2> DEFINE g == [b \in C |-> Dollar * cost[b]]
  <2>1. \A b \in C : cost[b] \in Nat /\ cost[b] \in Int
    BY <1>3, <1>6
  <2>2. \A b \in C : g[b] = Dollar * cost[b]
    OBVIOUS
  <2>3. \A b \in C : Dollar * cost[b] \in Nat
    BY <1>2, <2>1, Z3
  <2>4. \A b \in C : f[b] \in Int /\ g[b] \in Int /\ f[b] <= g[b]
    BY <1>3, <1>6, <2>2, <2>3
  <2>5. \A b \in C : g[b] \in Nat
    BY <2>2, <2>3
  <2>6. Dollar \in Int
    BY <1>2
  <2> HIDE DEF g
  <2>7. Total(f, C) <= Total(g, C)
    BY <1>4, <2>4, TotalOrder
  <2>8. Total(g, C) = Dollar * Total(cost, C)
    BY <1>4, <2>1, <2>2, <2>6, TotalTimes
  <2>9. Total(g, C) \in Nat
    BY <1>4, <2>5, TotalNat
  <2> QED BY <2>7, <2>8, <2>9
<1> DEFINE p == Dollar * Total(cost, C)
           q == Dollar * Total(cost, W)
<1>15. BillOf(C) = p /\ p \in Nat /\ Total(f, C) <= p
  BY <1>8, <1>9, <1>14
<1>16. Total(f, W) = q
  BY <1>13
<1>17. q = Dollar * Total(spent, UnitsOf(W))
  BY <1>10, <1>11
<1> HIDE DEF p, q
<1>18. /\ costBetween(D, t0, t1) \in Nat /\ q <= costBetween(D, t0, t1)
       /\ costBetween(D, t0, t1) <= q + p
  BY <1>7, <1>12, <1>15, <1>16
<1>19. W \subseteq R /\ IsFiniteSet(W) /\ W \cap CutBlocks(t0, t1) = {}
  BY <1>3, <1>4
<1>20. Total(spent, UnitsOf(W)) \in Nat /\ Total(spent, UnitsOf(W)) = Total(cost, W)
  BY <1>10, <1>11
<1> QED BY <1>15, <1>17, <1>18, <1>19, <1>20 DEF R, D, W, C, cost

\* A stretch of time is charged what was spent on Claude in it, up to the blocks
\* cut at its ends and those shared with another vendor.
THEOREM ChargedIsReal == Spec => []CostIsWithinEdges
<1>1. BlocksInv => CostIsWithinEdges
  <2> SUFFICES ASSUME BlocksInv, NEW t0 \in 0 .. clock, NEW t1 \in (t0 + 1) .. clock
               PROVE  LET charged == costBetween(decodeBlocks(Reported), t0, t1)
                          true == Dollar * Spent(t0, t1)
                      IN /\ charged <= true + BillOf(decodeBlocks(CutBlocks(t0, t1)))
                         /\ true <= charged
                              + BillOf(CutBlocks(t0, t1) \union MixedBlocks(t0, t1))
    BY DEF CostIsWithinEdges
  <2> DEFINE R == Reported
             W == Whole(t0, t1)
             C == decodeBlocks(CutBlocks(t0, t1))
             U == (t0 + 1) .. t1
             Doubt == CutBlocks(t0, t1) \union MixedBlocks(t0, t1)
             all == costBetween(decodeBlocks(R), t0, t1)
             cost == CostOf(R)
             in == UnitsOf(W)
  <2>1. t0 \in Nat /\ t1 \in Nat /\ t0 < t1 /\ t1 <= clock /\ clock \in Nat /\ Dollar \in Nat
    BY Sizes DEF BlocksInv, TypeInv
  <2>2. /\ W \subseteq R /\ IsFiniteSet(W) /\ W \cap CutBlocks(t0, t1) = {}
        /\ all \in Nat /\ BillOf(C) \in Nat
        /\ Total(spent, in) \in Nat
        /\ Total(spent, in) = Total(cost, W)
        /\ Dollar * Total(spent, in) <= all
        /\ all <= Dollar * Total(spent, in) + BillOf(C)
    BY <2>1, Charged
  <2>3. /\ IsFiniteSet(R) /\ R \subseteq BlockType
        /\ \A b \in R : /\ b.s \in Nat /\ b.e \in Nat /\ b.cost \in Nat /\ b.mixed \in BOOLEAN
                        /\ b.s < b.e
                        /\ Total(spent, Units(b)) \in Nat
                        /\ Total(spent, Units(b)) <= b.cost
        /\ \A u \in 1 .. clock : spent[u] # 0 => \E b \in R : u \in Units(b)
    BY ReportedIs
  <2>4. Doubt \subseteq R /\ IsFiniteSet(Doubt) /\ W \cap Doubt = {}
    <3>1. Doubt \subseteq R /\ W \cap MixedBlocks(t0, t1) = {}
      BY DEF CutBlocks, MixedBlocks, Whole, decodeBlocks, allAnthropic
    <3> QED BY <2>2, <2>3, <3>1, FS_Subset
  <2>5. U \subseteq 1 .. clock /\ IsFiniteSet(U) /\ \A u \in U : spent[u] \in Nat
    <3>1. U \subseteq 1 .. clock
      BY <2>1
    <3>2. IsFiniteSet(U)
      BY <2>1, Stretch
    <3> QED BY <3>1, <3>2 DEF BlocksInv, TypeInv
  <2>6. Spent(t0, t1) = Total(spent, U) /\ Total(spent, U) \in Nat
    BY <2>5, SpentIs, TotalNat
  <2>7. in \subseteq U
    BY <2>1, <2>2, <2>3 DEF UnitsOf, Units, Whole
  <2>8. Total(spent, in) <= Total(spent, U)
    <3> HIDE DEF U, in
    <3> QED BY <2>5, <2>7, TotalPart
  \* What was spent was spent in a block.
  <2> DEFINE both == W \union Doubt
             Some == {u \in U : spent[u] # 0}
  <2>9. Some \subseteq UnitsOf(both)
    <3> SUFFICES ASSUME NEW u \in U, spent[u] # 0 PROVE \E b \in both : u \in Units(b)
      BY DEF UnitsOf
    <3>1. PICK b \in R : u \in Units(b)
      BY <2>3, <2>5
    <3>2. /\ b.s \in Nat /\ b.e \in Nat /\ b.mixed \in BOOLEAN
          /\ b.s < t1 /\ t0 < b.e
      BY <2>1, <2>3, <3>1 DEF Units
    <3>3. CASE b.mixed
      BY <3>1, <3>2, <3>3 DEF MixedBlocks
    <3>4. CASE Cut(b, t0) \/ Cut(b, t1)
      BY <3>1, <3>4 DEF CutBlocks
    <3>5. CASE ~ b.mixed /\ ~ Cut(b, t0) /\ ~ Cut(b, t1)
      <4>1. t0 <= b.s /\ b.e <= t1
        BY <2>1, <3>2, <3>5 DEF Cut
      <4> QED BY <3>1, <3>5, <4>1 DEF Whole, decodeBlocks, allAnthropic
    <3> QED BY <3>3, <3>4, <3>5
  <2>10. Total(spent, U) = Total(spent, Some)
    <3>1. Some \union (U \ Some) = U /\ Some \cap (U \ Some) = {}
      OBVIOUS
    <3>2. \A u \in Some \union (U \ Some) : spent[u] \in Int
      BY <2>5
    <3>3. \A u \in U \ Some : spent[u] = 0
      OBVIOUS
    <3>4. IsFiniteSet(Some) /\ IsFiniteSet(U \ Some)
      <4>1. Some \subseteq U /\ U \ Some \subseteq U
        OBVIOUS
      <4> HIDE DEF Some, U
      <4> QED BY <2>5, <4>1, FS_Subset
    <3> HIDE DEF Some, U
    <3>5. /\ Total(spent, Some) \in Int
          /\ Total(spent, Some \union (U \ Some)) = Total(spent, Some) + Total(spent, U \ Some)
      BY <3>1, <3>2, <3>4, TotalUnion
    <3>6. Total(spent, U \ Some) = 0
      BY <3>3, <3>4, TotalZero
    <3> QED BY <3>1, <3>5, <3>6
  <2>11. both \subseteq R /\ IsFiniteSet(both)
    <3>1. both \subseteq R
      BY <2>2, <2>4
    <3> HIDE DEF both
    <3> QED BY <2>3, <3>1, FS_Subset
  <2> DEFINE f == SpentIn(both)
  <2>12. /\ IsFiniteSet(UnitsOf(both)) /\ \A u \in UnitsOf(both) : spent[u] \in Nat
         /\ Total(f, both) = Total(spent, UnitsOf(both))
    BY <2>11, SpentInBlocks
  <2>13. Total(spent, Some) \in Nat /\ Total(spent, Some) <= Total(spent, UnitsOf(both))
    <3> HIDE DEF Some, both
    <3> QED BY <2>9, <2>12, TotalPart
  <2>14. Total(f, both) <= Total(cost, both) /\ Total(f, both) \in Int /\ Total(cost, both) \in Int
    <3>1. \A b \in both : f[b] \in Int /\ cost[b] \in Int /\ f[b] <= cost[b]
      BY <2>3, <2>11 DEF SpentIn, CostOf
    <3> HIDE DEF f, cost, both
    <3> QED BY <2>11, <3>1, TotalOrder
  <2>15. /\ Total(cost, both) = Total(cost, W) + Total(cost, Doubt)
         /\ Total(cost, Doubt) \in Int
    <3>1. \A b \in W \union Doubt : cost[b] \in Int
      BY <2>3, <2>11 DEF CostOf
    <3> HIDE DEF cost, W, Doubt
    <3> QED BY <2>2, <2>4, <3>1, TotalUnion
  <2>16. BillOf(Doubt) = Dollar * Total(cost, Doubt)
    <3>1. \A b \in Doubt : b.cost \in Int
      BY <2>3, <2>4
    <3>2. \A b \in Doubt : CostOf(Doubt)[b] \in Int /\ CostOf(Doubt)[b] = cost[b]
      BY <2>3, <2>4 DEF CostOf
    <3> HIDE DEF Doubt, cost
    <3>3. BillOf(Doubt) = Dollar * Total(CostOf(Doubt), Doubt)
      BY <2>4, <3>1, BillIs
    <3>4. Total(CostOf(Doubt), Doubt) = Total(cost, Doubt)
      BY <2>4, <3>2, TotalSame
    <3> QED BY <3>3, <3>4
  <2> DEFINE x == Total(spent, in)
             y == Total(spent, U)
             z == Total(cost, Doubt)
  <2>17. x \in Nat /\ y \in Nat /\ z \in Int /\ x <= y /\ y <= x + z
    <3>1. y <= Total(cost, W) + Total(cost, Doubt)
      <4> HIDE DEF both, Some, U, W, Doubt, f, cost
      <4> QED BY <2>6, <2>10, <2>12, <2>13, <2>14, <2>15
    <3> HIDE DEF in, U, W, Doubt, cost
    <3> QED BY <2>2, <2>6, <2>8, <2>15, <3>1
  <2>18. /\ all \in Nat /\ BillOf(C) \in Nat /\ Dollar * x <= all
         /\ all <= Dollar * x + BillOf(C)
    BY <2>2
  <2>19. BillOf(Doubt) = Dollar * z /\ Spent(t0, t1) = y
    BY <2>6, <2>16
  <2> HIDE DEF x, y, z, all, C, Doubt, U, W, in
  <2>20. /\ Dollar * x \in Nat /\ Dollar * y \in Nat /\ Dollar * z \in Int
         /\ Dollar * x <= Dollar * y /\ Dollar * y <= Dollar * x + Dollar * z
    BY <2>1, <2>17, Z3
  <2>21. /\ all <= Dollar * y + BillOf(C)
         /\ Dollar * y <= all + Dollar * z
    <3> DEFINE dx == Dollar * x
               dy == Dollar * y
               dz == Dollar * z
    <3>1. /\ dx \in Nat /\ dy \in Nat /\ dz \in Int /\ dx <= dy /\ dy <= dx + dz
          /\ dx <= all /\ all <= dx + BillOf(C)
      BY <2>18, <2>20
    <3> HIDE DEF dx, dy, dz
    <3>2. all <= dy + BillOf(C) /\ dy <= all + dz
      BY <2>18, <3>1
    <3> QED BY <3>2 DEF dy, dz
  <2>22. /\ all <= Dollar * Spent(t0, t1) + BillOf(C)
         /\ Dollar * Spent(t0, t1) <= all + BillOf(Doubt)
    BY <2>19, <2>21
  <2> QED BY <2>22 DEF all, C, Doubt
<1> QED BY <1>1, BlocksInvariant, PTL

-----------------------------------------------------------------------------
(***************************************************************************)
(* What has accrued since a reading.                                       *)
(***************************************************************************)
\* A quotient is not less than another when, with the divisors crossed, the
\* dividend is not.
LEMMA Quotients ==
  ASSUME NEW a \in Nat, NEW b \in Nat \ {0}, NEW x \in Nat, NEW y \in Nat \ {0},
         a * y <= x * b
  PROVE  a \div b <= x \div y
<1> DEFINE q == a \div b
           r == x \div y
<1>1. q \in Nat /\ q * b <= a
  BY Division
<1>2. r \in Nat /\ x < (r + 1) * y
  BY Division
<1> HIDE DEF q, r
<1>3. SUFFICES ASSUME r + 1 <= q PROVE FALSE
  BY <1>1, <1>2 DEF q, r
<1>4. (q * b) * y <= a * y
  BY <1>1, Z3
<1>5. x * b < ((r + 1) * y) * b
  BY <1>2, Z3
<1>6. ((r + 1) * y) * b <= (q * y) * b
  BY <1>1, <1>2, <1>3, Z3
<1> DEFINE k == (q * b) * y
           l == (q * y) * b
           m == ((r + 1) * y) * b
           ay == a * y
           xb == x * b
<1>7. k = l /\ k \in Int /\ l \in Int /\ m \in Int /\ ay \in Int /\ xb \in Int
  BY <1>1, <1>2, Z3
<1>8. k <= ay /\ ay <= xb /\ xb < m /\ m <= l
  BY <1>4, <1>5, <1>6
<1> HIDE DEF k, l, m, ay, xb
<1> QED BY <1>7, <1>8

\* A block that is over by t is charged the same at t and later.
LEMMA ShareOver ==
  ASSUME NEW b \in BlockType, NEW t0 \in Nat, NEW t \in Nat, b.e <= t
  PROVE  Share(b, t0, t + 1) = Share(b, t0, t)
<1>1. t + 1 \in Nat
  OBVIOUS
<1>2. b.e <= t + 1
  BY DEF BlockType
<1> DEFINE u == t + 1
<1>3. u \in Nat /\ b.e <= u
  BY <1>1, <1>2
<1> HIDE DEF u
<1>4. Overlap(b, t0, u) = Overlap(b, t0, t)
  BY <1>3 DEF Overlap
<1>5. Share(b, t0, u) = Share(b, t0, t)
  BY <1>3, <1>4, ShareIs
<1> QED BY <1>5 DEF u

\* A block that goes on is charged no less: it loses a smaller part of more.
LEMMA ShareGrows ==
  ASSUME NEW b \in BlockType, NEW t0 \in Nat, NEW t \in Nat, b.e <= t,
         NEW k \in Nat, NEW g \in BlockType,
         g.s = b.s, g.e = t + 1, g.cost = b.cost + k
  PROVE  Share(b, t0, t) <= Share(g, t0, t + 1)
<1> DEFINE lost == IF b.s >= t0 THEN 0 ELSE t0 - b.s
           l == b.e - b.s
           m == t + 1 - b.s
           c == b.cost
           d == g.cost
           u == t + 1
<1>1. /\ b.s \in Nat /\ b.e \in Nat /\ b.s < b.e /\ c \in Nat /\ d \in Nat /\ c <= d
      /\ u \in Nat /\ g.e = u /\ g.e - g.s = m
  BY DEF BlockType
<1>2. lost \in Nat /\ l \in Nat \ {0} /\ m \in Nat \ {0} /\ l <= m
  BY <1>1
<1>3. Overlap(b, t0, t) = l - lost /\ Overlap(g, t0, u) = m - lost
  BY <1>1 DEF Overlap
<1> HIDE DEF u, c, d, l, m, lost
<1>4. Share(b, t0, t) = IF l - lost <= 0 THEN 0 ELSE (c * (l - lost) * Dollar) \div l
  BY <1>3, ShareIs DEF c, l
<1>5. Share(g, t0, u) = IF m - lost <= 0 THEN 0 ELSE (d * (m - lost) * Dollar) \div m
  BY <1>1, <1>3, ShareIs DEF d
<1>6. Share(g, t0, u) \in 0 .. Dollar * g.cost
  BY <1>1, ShareBounds
<1>7. CASE l - lost <= 0
  <2> DEFINE z == Dollar * g.cost
  <2>1. Share(g, t0, u) \in 0 .. z
    BY <1>6
  <2>2. z \in Nat
    BY <1>1, Sizes, Z3 DEF d
  <2> HIDE DEF z
  <2>3. 0 <= Share(g, t0, u)
    BY <2>1, <2>2
  <2> QED BY <1>4, <1>7, <2>3 DEF u
<1>8. CASE l - lost > 0
  <2> DEFINE o == l - lost
             p == m - lost
  <2>1. o \in Nat \ {0} /\ p \in Nat \ {0} /\ o = l - lost /\ p = m - lost
    BY <1>2, <1>8
  <2> HIDE DEF o, p
  <2>2. Dollar \in Nat
    BY Sizes
  <2>3. o * m <= p * l
    BY <1>2, <2>1, Z3
  <2> DEFINE om == o * m
             pl == p * l
  <2>4. om \in Nat /\ pl \in Nat /\ om <= pl
    BY <1>2, <2>1, <2>3, Z3
  <2>5. (c * o * Dollar) * m = (c * Dollar) * om
    BY <1>1, <1>2, <2>1, <2>2, Z3
  <2>6. (d * p * Dollar) * l = (d * Dollar) * pl
    BY <1>1, <1>2, <2>1, <2>2, Z3
  <2> HIDE DEF om, pl
  <2>7. (c * Dollar) * om <= (d * Dollar) * pl
    <3>1. c * Dollar <= d * Dollar /\ c * Dollar \in Nat /\ d * Dollar \in Nat
      BY <1>1, <2>2, Z3
    <3> DEFINE x == c * Dollar
               y == d * Dollar
    <3> HIDE DEF x, y
    <3>2. x \in Nat /\ y \in Nat /\ x <= y
      BY <3>1 DEF x, y
    <3>3. x * om <= x * pl
      BY <2>4, <3>2, Z3
    <3>4. x * pl <= y * pl
      BY <2>4, <3>2, Z3
    <3>5. x * om <= y * pl
      BY <2>4, <3>2, <3>3, <3>4, Z3
    <3> QED BY <3>5 DEF x, y
  <2>8. (c * o * Dollar) \in Nat /\ (d * p * Dollar) \in Nat
    BY <1>1, <2>1, <2>2, Z3
  <2>9. (c * o * Dollar) * m <= (d * p * Dollar) * l
    BY <2>5, <2>6, <2>7
  <2> DEFINE x == c * o * Dollar
             y == d * p * Dollar
  <2>10. x \in Nat /\ y \in Nat /\ x * m <= y * l
    BY <2>8, <2>9
  <2> HIDE DEF x, y
  <2>11. x \div l <= y \div m
    BY <1>2, <2>10, Quotients
  <2>12. Share(b, t0, t) = x \div l
    <3>1. ~ (l - lost <= 0)
      BY <1>2, <1>8
    <3> QED BY <1>4, <3>1 DEF x, o
  <2>13. Share(g, t0, u) = y \div m
    <3>1. ~ (m - lost <= 0)
      BY <1>2, <2>1
    <3> QED BY <1>5, <3>1 DEF y, p
  <2> QED BY <2>11, <2>12, <2>13 DEF u
<1>9. l - lost \in Int
  BY <1>2
<1> QED BY <1>7, <1>8, <1>9

\* Money of Claude's alone makes the last block grow, or opens another.
LEMMA PassIs ==
  ASSUME BlocksInv, NEW c \in Spends, NEW isMixed \in BOOLEAN, ~ isMixed,
         Pass(c, isMixed)
  PROVE  /\ clock' = clock + 1
         /\ \/ Reported' = Reported
            \/ \E g \in BlockType : /\ g \notin Reported
                                    /\ Reported' = Reported \union {g}
            \/ \E b \in Reported : \E g \in BlockType :
                 /\ g \notin Reported
                 /\ Reported' = (Reported \ {b}) \union {g}
                 /\ g.s = b.s /\ g.e = clock + 1 /\ g.cost = b.cost + c
                 /\ g.mixed = b.mixed
<1> DEFINE n == Len(blocks)
           u == clock + 1
<1>1. clock' = u /\ clock \in Nat /\ blocks \in Seq(BlockType)
  BY DEF Pass, BlocksInv, TypeInv
<1>2. n \in Nat /\ DOMAIN blocks = 1 .. n /\ c \in Nat
  BY <1>1, Sizes
<1>3. Reported = {blocks[i] : i \in 1 .. n}
  BY <1>2 DEF Reported, ToSet
<1>4. \A b \in Reported : b \in BlockType /\ b.s \in Nat /\ b.e \in Nat /\ b.e <= clock
  BY ReportedIs
<1>5. Bill(c, isMixed) = c /\ Bill(c, isMixed) \in Nat
  BY <1>2 DEF Bill
<1>6. \A g : g.e = u => g \notin Reported
  BY <1>1, <1>4
<1>7. CASE ~ c > 0
  BY <1>1, <1>7 DEF Pass, Reported
<1>8. CASE c > 0 /\ blocks # << >> /\ u <= Last(blocks).s + BlockSpan
  <2> DEFINE old == blocks[n]
             grown == Grown(old, u, Bill(c, isMixed), isMixed)
  <2>1. blocks' = Used(blocks, u, c, isMixed)
    BY <1>8 DEF Pass
  <2>2. blocks' = [blocks EXCEPT ![n] = grown]
    BY <1>8, <2>1, Zenon DEF Used
  <2>3. n \in 1 .. n /\ old \in Reported /\ old \in BlockType
    BY <1>1, <1>2, <1>3, <1>4, <1>8
  <2>4. u \in Nat /\ old.s < u
    BY <1>1, <1>4, <2>3 DEF BlockType
  <2> HIDE DEF u
  <2>5. /\ grown.s = old.s /\ grown.e = u /\ grown.cost = old.cost + c
        /\ grown.mixed = (old.mixed \/ isMixed)
        /\ grown \in BlockType
    <3> HIDE DEF old
    <3> QED BY <1>2, <1>5, <2>3, <2>4, GrownIs
  <2>6. grown.mixed = old.mixed
    <3>1. old.mixed \in BOOLEAN
      BY <2>3 DEF BlockType
    <3> HIDE DEF grown, old
    <3> QED BY <2>5, <3>1
  <2> HIDE DEF grown, n
  <2>7. DOMAIN blocks' = 1 .. n /\ \A i \in 1 .. n : blocks'[i] = IF i = n THEN grown ELSE blocks[i]
    BY <1>2, <2>2
  <2>8. Reported' = {blocks'[i] : i \in 1 .. n}
    BY <2>7 DEF Reported, ToSet
  <2>9. ASSUME NEW i \in 1 .. n, i # n PROVE blocks[i] # old
    <3>1. i < n
      BY <1>2, <2>9
    <3>2. blocks[i].e <= old.s
      BY <2>3, <3>1 DEF BlocksInv, OrderInv, n
    <3>3. old.s < old.e /\ old.s \in Nat /\ old.e \in Nat
      BY <2>3 DEF BlockType
    <3> QED BY <3>2, <3>3
  <2> HIDE DEF old
  <2>10. Reported' = (Reported \ {old}) \union {grown}
    <3>1. ASSUME NEW i \in 1 .. n PROVE blocks'[i] \in (Reported \ {old}) \union {grown}
      BY <1>3, <2>7, <2>9
    <3>2. ASSUME NEW b \in (Reported \ {old}) \union {grown} PROVE \E i \in 1 .. n : blocks'[i] = b
      <4>1. CASE b = grown
        BY <2>3, <2>7, <4>1
      <4>2. CASE b \in Reported \ {old}
        <5>1. PICK i \in 1 .. n : b = blocks[i]
          BY <1>3, <4>2
        <5>2. i # n
          BY <4>2, <5>1 DEF old
        <5> QED BY <2>7, <5>1, <5>2
      <4> QED BY <4>1, <4>2
    <3> QED BY <2>8, <3>1, <3>2
  <2> QED BY <1>1, <1>6, <2>3, <2>5, <2>6, <2>10 DEF u
<1>9. CASE c > 0 /\ ~ (blocks # << >> /\ u <= Last(blocks).s + BlockSpan)
  <2> DEFINE new == [s |-> u - 1, e |-> u, cost |-> Bill(c, isMixed), mixed |-> isMixed]
  <2>1. blocks' = Used(blocks, u, c, isMixed)
    BY <1>9 DEF Pass
  <2>2. blocks' = Append(blocks, new)
    BY <1>9, <2>1, Zenon DEF Used
  <2>3. new \in BlockType /\ new.e = u
    BY <1>1, <1>2, <1>5 DEF BlockType
  <2> HIDE DEF new
  <2>4. /\ blocks' \in Seq(BlockType) /\ Len(blocks') = n + 1
        /\ \A i \in 1 .. n : blocks'[i] = blocks[i]
        /\ blocks'[n + 1] = new
    BY <1>1, <2>2, <2>3
  <2>5. Reported' = {blocks'[i] : i \in 1 .. n + 1}
    BY <2>4 DEF Reported, ToSet
  <2> HIDE DEF n, u
  <2>6. Reported' = Reported \union {new}
    <3>1. \A i \in 1 .. n + 1 : i \in 1 .. n \/ i = n + 1
      BY <1>2
    <3>2. n + 1 \in 1 .. n + 1 /\ \A i \in 1 .. n : i \in 1 .. n + 1
      BY <1>2
    <3> QED BY <1>3, <2>4, <2>5, <3>1, <3>2
  <2> QED BY <1>1, <1>6, <2>3, <2>6 DEF u
<1> QED BY <1>7, <1>8, <1>9

\* The charge of a set of blocks.
ChargeOf(R, t0, t1) == costBetween(decodeBlocks(R), t0, t1)

LEMMA ChargeIs ==
  ASSUME NEW R, IsFiniteSet(R), R \subseteq BlockType, NEW t0 \in Nat, NEW t1 \in Nat
  PROVE  /\ IsFiniteSet(decodeBlocks(R)) /\ decodeBlocks(R) \subseteq R
         /\ ChargeOf(R, t0, t1) = Total(ShareOf(decodeBlocks(R), t0, t1), decodeBlocks(R))
         /\ \A b \in R : Share(b, t0, t1) \in Nat
<1> DEFINE D == decodeBlocks(R)
<1>1. IsFiniteSet(D) /\ D \subseteq R
  <2>1. D \subseteq R
    BY DEF decodeBlocks
  <2> HIDE DEF D
  <2> QED BY <2>1, FS_Subset
<1>2. ASSUME NEW b \in R PROVE Share(b, t0, t1) \in Nat
  <2> DEFINE k == Dollar * b.cost
  <2>1. b.cost \in Nat
    BY DEF BlockType
  <2>2. k \in Nat
    BY <2>1, Sizes, Z3
  <2>3. Share(b, t0, t1) \in 0 .. k
    BY ShareBounds
  <2> HIDE DEF k
  <2> QED BY <2>2, <2>3
<1> HIDE DEF D
<1>3. \A b \in D : Share(b, t0, t1) \in Int
  BY <1>1, <1>2
<1>4. costBetween(D, t0, t1) = Total(ShareOf(D, t0, t1), D)
  BY <1>1, <1>3, CostIs
<1> QED BY <1>1, <1>2, <1>4 DEF D, ChargeOf

LEMMA ChargeWith ==
  ASSUME NEW R, IsFiniteSet(R), R \subseteq BlockType, NEW t0 \in Nat, NEW t1 \in Nat,
         NEW g \in BlockType, g \notin R
  PROVE  /\ ChargeOf(R, t0, t1) \in Int
         /\ Share(g, t0, t1) \in Nat
         /\ ChargeOf(R \union {g}, t0, t1)
              = (IF g.mixed THEN 0 ELSE Share(g, t0, t1)) + ChargeOf(R, t0, t1)
<1> DEFINE Q == R \union {g}
           D == decodeBlocks(R)
           E == decodeBlocks(Q)
           f == ShareOf(D, t0, t1)
           h == ShareOf(E, t0, t1)
<1>1. IsFiniteSet(Q) /\ Q \subseteq BlockType
  BY FS_AddElement
<1>2. /\ E = IF g.mixed THEN D ELSE D \union {g}
      /\ g \notin D /\ D \subseteq E
  BY DEF decodeBlocks, allAnthropic
<1> HIDE DEF Q, D, E
<1>3. /\ IsFiniteSet(D) /\ D \subseteq R /\ ChargeOf(R, t0, t1) = Total(f, D)
      /\ \A b \in R : Share(b, t0, t1) \in Nat
  BY ChargeIs DEF D
<1>4. /\ IsFiniteSet(E) /\ E \subseteq Q /\ ChargeOf(Q, t0, t1) = Total(h, E)
      /\ \A b \in Q : Share(b, t0, t1) \in Nat
  BY <1>1, ChargeIs DEF E
<1>5. g \in Q
  BY DEF Q
<1>6. Share(g, t0, t1) \in Nat
  BY <1>4, <1>5
<1>7. /\ \A b \in D : f[b] \in Int /\ f[b] = h[b]
      /\ \A b \in E : h[b] \in Int /\ h[b] = Share(b, t0, t1)
  BY <1>2, <1>3, <1>4 DEF ShareOf
<1> HIDE DEF f, h
<1>8. Total(f, D) \in Int
  BY <1>3, <1>7, TotalOfOneOf
<1>9. Total(f, D) = Total(h, D)
  BY <1>3, <1>7, TotalSame
<1>10. CASE g.mixed
  BY <1>2, <1>3, <1>4, <1>6, <1>8, <1>9, <1>10 DEF Q
<1>11. CASE ~ g.mixed
  <2>1. E = D \union {g} /\ g \notin D
    BY <1>2, <1>11
  <2>2. \A b \in D \union {g} : h[b] \in Int
    BY <1>7, <2>1
  <2>3. Total(h, D \union {g}) = h[g] + Total(h, D)
    BY <1>3, <2>1, <2>2, TotalAdd
  <2>4. h[g] = Share(g, t0, t1)
    BY <1>7, <2>1
  <2>5. Total(h, E) = Total(h, D \union {g})
    BY <2>1, Zenon
  <2>6. ChargeOf(Q, t0, t1) = Share(g, t0, t1) + ChargeOf(R, t0, t1)
    BY <1>3, <1>4, <1>9, <2>3, <2>4, <2>5
  <2> QED BY <1>3, <1>6, <1>8, <1>11, <2>6 DEF Q
<1> QED BY <1>10, <1>11

LEMMA ChargeLater ==
  ASSUME NEW R, IsFiniteSet(R), R \subseteq BlockType, NEW t0 \in Nat, NEW t \in Nat,
         \A b \in R : b.e <= t
  PROVE  ChargeOf(R, t0, t + 1) = ChargeOf(R, t0, t)
<1> DEFINE D == decodeBlocks(R)
           u == t + 1
           f == ShareOf(D, t0, t)
           h == ShareOf(D, t0, u)
<1>1. u \in Nat
  OBVIOUS
<1>2. \A b \in R : Share(b, t0, u) = Share(b, t0, t)
  BY ShareOver
<1> HIDE DEF D, u
<1>3. /\ IsFiniteSet(D) /\ D \subseteq R /\ ChargeOf(R, t0, t) = Total(f, D)
      /\ \A b \in R : Share(b, t0, t) \in Nat
  BY ChargeIs DEF D
<1>4. ChargeOf(R, t0, u) = Total(h, D)
  BY <1>1, ChargeIs DEF D
<1>5. \A b \in D : f[b] \in Int /\ f[b] = h[b]
  BY <1>2, <1>3 DEF ShareOf
<1> HIDE DEF f, h
<1>6. Total(f, D) = Total(h, D)
  BY <1>3, <1>5, TotalSame
<1> QED BY <1>3, <1>4, <1>6 DEF u

\* While a reading ages, the cost accrued since it never falls, unless another
\* vendor is used: a block that goes on is charged no less, a new one adds.
THEOREM AccruedRises == Spec => AccruedNeverFalls
<1>1. ASSUME BlocksInv, [Next]_vars, other' = other, NEW t0 \in 0 .. clock
      PROVE  CostSince(t0)' >= CostSince(t0)
  <2> DEFINE R == Reported
             P == Reported'
  <2>1. t0 \in Nat /\ clock \in Nat /\ other \subseteq 1 .. clock
    BY <1>1 DEF BlocksInv, TypeInv
  <2>2. IsFiniteSet(R) /\ R \subseteq BlockType /\ \A b \in R : b.e <= clock
    BY <1>1, ReportedIs
  <2>3. CostSince(t0) = ChargeOf(R, t0, clock) /\ CostSince(t0)' = ChargeOf(P, t0, clock')
    BY DEF CostSince, ChargeOf
  <2> DEFINE x == ChargeOf(R, t0, clock)
  <2>4. x \in Int
    <3>1. /\ IsFiniteSet(decodeBlocks(R)) /\ decodeBlocks(R) \subseteq R
          /\ x = Total(ShareOf(decodeBlocks(R), t0, clock), decodeBlocks(R))
          /\ \A b \in R : Share(b, t0, clock) \in Nat
      BY <2>1, <2>2, ChargeIs
    <3>2. \A b \in decodeBlocks(R) : ShareOf(decodeBlocks(R), t0, clock)[b] \in Int
      BY <3>1 DEF ShareOf
    <3> HIDE DEF R, x
    <3> QED BY <3>1, <3>2, TotalOfOneOf
  <2>5. CASE UNCHANGED <<clock, blocks>>
    <3>1. P = R /\ clock' = clock
      BY <2>5 DEF Reported
    <3> HIDE DEF R, P
    <3>2. ChargeOf(P, t0, clock') = x
      BY <3>1, Zenon
    <3> HIDE DEF x
    <3>3. CostSince(t0)' = x /\ CostSince(t0) = x
      BY <2>3, <3>2 DEF x
    <3> QED BY <2>4, <3>3
  <2>6. ASSUME NEW c \in Spends, NEW isMixed \in BOOLEAN, Pass(c, isMixed)
        PROVE  CostSince(t0)' >= CostSince(t0)
    <3>1. ~ isMixed
      <4>1. clock + 1 \notin other
        BY <2>1
      <4> QED BY <1>1, <2>6, <4>1 DEF Pass
    <3> DEFINE u == clock + 1
    <3>2. /\ clock' = u
          /\ \/ P = R
             \/ \E g \in BlockType : g \notin R /\ P = R \union {g}
             \/ \E b \in R : \E g \in BlockType :
                  /\ g \notin R /\ P = (R \ {b}) \union {g}
                  /\ g.s = b.s /\ g.e = u /\ g.cost = b.cost + c /\ g.mixed = b.mixed
      BY <1>1, <2>6, <3>1, PassIs
    <3> DEFINE y == ChargeOf(P, t0, u)
    <3>3. CostSince(t0) = x /\ CostSince(t0)' = y
      BY <2>3, <3>2
    <3>4. u \in Nat
      BY <2>1
    <3>5. ChargeOf(R, t0, u) = x
      <4> HIDE DEF R
      <4> QED BY <2>1, <2>2, ChargeLater
    <3> SUFFICES y >= x
      BY <3>3
    <3>6. CASE P = R
      <4>1. y = x
        <5> HIDE DEF P, R, u
        <5> QED BY <3>5, <3>6
      <4> HIDE DEF x, y
      <4> QED BY <2>4, <4>1
    <3>7. ASSUME NEW g \in BlockType, g \notin R, P = R \union {g} PROVE y >= x
      <4> HIDE DEF u, R, P
      <4>1. /\ Share(g, t0, u) \in Nat
            /\ ChargeOf(R \union {g}, t0, u)
                 = (IF g.mixed THEN 0 ELSE Share(g, t0, u)) + ChargeOf(R, t0, u)
        BY <2>1, <2>2, <3>4, <3>7, ChargeWith
      <4>2. ChargeOf(R \union {g}, t0, u) = y
        BY <3>7, Zenon
      <4> HIDE DEF x, y
      <4> QED BY <2>4, <3>5, <4>1, <4>2
    <3>8. ASSUME NEW b \in R, NEW g \in BlockType, g \notin R, P = (R \ {b}) \union {g},
                 g.s = b.s, g.e = u, g.cost = b.cost + c, g.mixed = b.mixed
          PROVE  y >= x
      <4> DEFINE Q == R \ {b}
      <4>1. /\ Q \subseteq R /\ b \notin Q /\ g \notin Q /\ R = Q \union {b} /\ P = Q \union {g}
            /\ b \in BlockType
        BY <2>2, <3>8
      <4> HIDE DEF R, P, Q
      <4>2. IsFiniteSet(Q) /\ Q \subseteq BlockType /\ \A d \in Q : d.e <= clock
        BY <2>2, <4>1, FS_Subset
      <4>3. ChargeOf(Q, t0, u) = ChargeOf(Q, t0, clock)
        BY <2>1, <4>2, ChargeLater
      <4>4. Share(b, t0, clock) <= Share(g, t0, u)
        <5>1. c \in Nat /\ b.e <= clock
          BY <2>2, Sizes
        <5> QED BY <2>1, <3>8, <4>1, <5>1, ShareGrows
      <4> HIDE DEF u
      <4>5. /\ ChargeOf(Q, t0, clock) \in Int /\ Share(b, t0, clock) \in Nat
            /\ ChargeOf(Q \union {b}, t0, clock)
                 = (IF b.mixed THEN 0 ELSE Share(b, t0, clock)) + ChargeOf(Q, t0, clock)
        BY <2>1, <4>1, <4>2, ChargeWith
      <4>6. /\ Share(g, t0, u) \in Nat
            /\ ChargeOf(Q \union {g}, t0, u)
                 = (IF g.mixed THEN 0 ELSE Share(g, t0, u)) + ChargeOf(Q, t0, u)
        BY <2>1, <3>4, <3>8, <4>1, <4>2, ChargeWith
      <4>7. ChargeOf(Q \union {b}, t0, clock) = x /\ ChargeOf(Q \union {g}, t0, u) = y
        BY <4>1, Zenon
      <4> HIDE DEF x, y
      <4> QED BY <3>8, <4>3, <4>4, <4>5, <4>6, <4>7
    <3> QED BY <3>2, <3>6, <3>7, <3>8
  <2> QED BY <1>1, <2>5, <2>6 DEF Next, Render, vars
<1>2. BlocksInv /\ [Next]_vars
        => [other' = other => \A t0 \in 0 .. clock : CostSince(t0)' >= CostSince(t0)]_vars
  BY <1>1
<1> QED BY <1>2, BlocksInvariant, PTL DEF Spec, AccruedNeverFalls

-----------------------------------------------------------------------------
(***************************************************************************)
(* The runs of the weekly percentage.                                      *)
(***************************************************************************)
LEMMA TimeRanks ==
  ASSUME NEW T \in SUBSET Nat, IsFiniteSet(T), NEW s \in T
  PROVE  /\ Cardinality(Sooner(T, s)) \in 0 .. Cardinality(T) - 1
         /\ \A u \in T : s < u => Cardinality(Sooner(T, s)) < Cardinality(Sooner(T, u))
<1> DEFINE others == T \ {s}
<1>1. Cardinality(T) \in Nat
  BY FS_CardinalityType
<1>2. IsFiniteSet(others) /\ Cardinality(others) = Cardinality(T) - 1
  BY FS_RemoveElement
<1>3. \A u \in T : Sooner(T, u) \in SUBSET T
  BY DEF Sooner
<1>4. \A u \in T : IsFiniteSet(Sooner(T, u)) /\ Cardinality(Sooner(T, u)) \in Nat
  BY <1>3, FS_Subset, FS_CardinalityType
<1>5. Sooner(T, s) \in SUBSET others
  BY DEF Sooner
<1>6. Cardinality(Sooner(T, s)) <= Cardinality(T) - 1
  BY <1>2, <1>5, FS_Subset
<1>7. ASSUME NEW u \in T, s < u
      PROVE  Cardinality(Sooner(T, s)) < Cardinality(Sooner(T, u))
  <2> DEFINE more == Sooner(T, s) \union {s}
  <2>1. s \notin Sooner(T, s)
    BY DEF Sooner
  <2>2. Cardinality(more) = Cardinality(Sooner(T, s)) + 1
    BY <1>4, <2>1, FS_AddElement
  <2>3. more \in SUBSET Sooner(T, u)
    <3> SUFFICES ASSUME NEW x \in more PROVE x \in Sooner(T, u)
      OBVIOUS
    <3>1. x \in T /\ (x < s \/ x = s)
      BY DEF Sooner
    <3>2. x \in Nat /\ s \in Nat /\ u \in Nat
      BY <3>1
    <3> QED BY <1>7, <3>1, <3>2 DEF Sooner
  <2> HIDE DEF more
  <2>4. Cardinality(more) <= Cardinality(Sooner(T, u))
    BY <1>4, <2>3, FS_Subset
  <2> QED BY <1>4, <2>2, <2>4
<1> QED BY <1>1, <1>4, <1>6, <1>7

\* InOrder has every time once, and rising.
LEMMA TimesOrdered ==
  ASSUME NEW T \in SUBSET Nat, IsFiniteSet(T)
  PROVE  LET o == InOrder(T) IN
         /\ Cardinality(T) \in Nat
         /\ o \in Seq(T) /\ Len(o) = Cardinality(T) /\ DOMAIN o = 1 .. Cardinality(T)
         /\ \A i \in 1 .. Cardinality(T) : o[i] \in T
         /\ \A i, j \in 1 .. Cardinality(T) : i < j => o[i] < o[j]
<1> DEFINE n == Cardinality(T)
           o == InOrder(T)
           Rank(s) == Cardinality(Sooner(T, s))
           f == [s \in T |-> Rank(s) + 1]
<1>1. n \in Nat
  BY FS_CardinalityType
<1>2. \A s \in T : Rank(s) \in 0 .. n - 1
  BY TimeRanks
<1>3. \A s, u \in T : s < u => Rank(s) < Rank(u)
  BY TimeRanks
<1>4. \A s, u \in T : s # u => s < u \/ u < s
  OBVIOUS
<1>5. \A s, u \in T : Rank(s) = Rank(u) => s = u
  BY <1>2, <1>3, <1>4
<1> HIDE DEF Rank, n
<1>6. f \in [T -> 1 .. n] /\ \A s, u \in T : f[s] = f[u] => s = u
  BY <1>1, <1>2, <1>5
<1>7. f \in Injection(T, 1 .. n)
  <2> HIDE DEF f
  <2> QED BY <1>6 DEF Injection, IsInjective
<1>8. IsFiniteSet(1 .. n) /\ Cardinality(1 .. n) = n
  BY <1>1, FS_Interval
<1>9. f \in Surjection(T, 1 .. n)
  <2> HIDE DEF f
  <2> QED BY <1>7, <1>8, FS_Injection DEF n
<1>10. ASSUME NEW i \in 1 .. n PROVE \E s \in T : Rank(s) = i - 1
  <2>1. \E s \in T : f[s] = i
    <3> HIDE DEF f
    <3> QED BY <1>9 DEF Surjection
  <2>2. PICK s \in T : f[s] = i
    BY <2>1
  <2>3. Rank(s) + 1 = i
    BY <2>2
  <2> QED BY <1>2, <2>3
<1>11. o = [i \in 1 .. n |-> CHOOSE s \in T : Rank(s) = i - 1]
  BY DEF InOrder, Rank, n
<1> HIDE DEF o
<1>12. \A i \in 1 .. n : o[i] \in T /\ Rank(o[i]) = i - 1
  BY <1>10, <1>11
<1>13. o \in [1 .. n -> T]
  BY <1>11, <1>12
<1>14. o \in Seq(T) /\ Len(o) = n /\ DOMAIN o = 1 .. n
  BY <1>1, <1>13
<1>15. ASSUME NEW i \in 1 .. n, NEW j \in 1 .. n, i < j PROVE o[i] < o[j]
  <2>1. Rank(o[i]) = i - 1 /\ Rank(o[j]) = j - 1 /\ o[i] \in T /\ o[j] \in T
    BY <1>12
  <2>2. o[i] # o[j]
    BY <1>1, <1>15, <2>1
  <2>3. ~ o[j] < o[i]
    <3>1. SUFFICES ASSUME o[j] < o[i] PROVE FALSE
      OBVIOUS
    <3>2. Rank(o[j]) < Rank(o[i])
      BY <1>3, <2>1, <3>1
    <3>3. j - 1 < i - 1
      BY <2>1, <3>2
    <3> QED BY <1>1, <1>15, <3>3
  <2> QED BY <1>4, <2>1, <2>2, <2>3
<1> QED BY <1>1, <1>12, <1>14, <1>15 DEF o, n

\* Those up to a limit come first.
LEMMA FirstOnes ==
  ASSUME NEW n \in Nat, NEW o, \A i \in 1 .. n : o[i] \in Nat,
         \A i, j \in 1 .. n : i < j => o[i] < o[j], NEW b \in Nat,
         NEW J, \A i : i \in J <=> i \in 1 .. n /\ o[i] <= b
  PROVE  Cardinality(J) \in 0 .. n /\ J = 1 .. Cardinality(J)
<1>1. J \subseteq 1 .. n /\ IsFiniteSet(1 .. n)
  BY FS_Interval
<1>2. \A j \in J : \A i \in 1 .. n : i < j => i \in J
  <2> SUFFICES ASSUME NEW j \in J, NEW i \in 1 .. n, i < j PROVE o[i] <= b
    OBVIOUS
  <2>1. o[i] \in Nat /\ o[j] \in Nat /\ o[i] < o[j] /\ o[j] <= b
    OBVIOUS
  <2> QED BY <2>1
<1>3. IsFiniteSet(J)
  BY <1>1, FS_Subset
<1>4. CASE J = {}
  <2>1. Cardinality(J) = 0
    BY <1>4, FS_EmptySet
  <2> QED BY <1>4, <2>1
<1>5. CASE J # {}
  <2> DEFINE m == Max(J)
  <2>1. J \in SUBSET Int
    BY <1>1
  <2>2. m \in J /\ \A i \in J : i <= m
    BY <1>3, <1>5, <2>1, FiniteMax
  <2> HIDE DEF m
  <2>3. m \in 1 .. n
    BY <1>1, <2>2
  <2>4. ASSUME NEW i \in 1 .. m PROVE i \in J
    <3>1. i \in 1 .. n /\ (i < m \/ i = m)
      BY <2>3
    <3> QED BY <1>2, <2>2, <3>1
  <2>5. ASSUME NEW i \in J PROVE i \in 1 .. m
    <3>1. i \in 1 .. n /\ i <= m
      BY <1>1, <2>2
    <3> QED BY <2>3, <3>1
  <2>6. J = 1 .. m
    BY <2>4, <2>5
  <2>7. Cardinality(1 .. m) = m
    BY <2>3, FS_Interval
  <2>8. Cardinality(J) = m
    BY <2>6, <2>7, Zenon
  <2> QED BY <2>3, <2>6, <2>8
<1> QED BY <1>4, <1>5

\* The rows of a window, up to its reset, say what W says, which never falls.
Says(h, b, W) ==
  /\ \A s \in h : s.r.wkReset = b /\ s.r.t <= b => W[s.r.t] \in Nat /\ s.r.wk = W[s.r.t]
  /\ \A s, u \in h : s.r.wkReset = b /\ u.r.wkReset = b /\ s.r.t <= u.r.t /\ u.r.t <= b
                      => W[s.r.t] <= W[u.r.t]

\* The run of such a window.
LEMMA RunIs ==
  ASSUME Minute = 1, NEW h, IsFiniteSet(h), \A s \in h : s.r.t \in Nat, NEW b \in Nat,
         NEW W, Says(h, b, W),
         NEW r \in boundaryRun(WkPoints(h, b), b)
  PROVE  /\ r.bnd = b /\ r.dw >= MinRunDW
         /\ \E s, u \in h : /\ s.r.wkReset = b /\ u.r.wkReset = b
                            /\ s.r.t = r.t0 /\ u.r.t = r.t1
                            /\ r.t0 < r.t1 /\ r.t1 <= b
                            /\ r.dw = W[r.t1] - W[r.t0]
<1> DEFINE rows == {s \in h : s.r.wkReset = b}
           T == {ToMinute(s.r.t) : s \in rows}
           o == InOrder(T)
           n == Cardinality(T)
           pts == WkPoints(h, b)
           win == Clip(pts, b)
<1>1. \A t \in Nat : ToMinute(t) = t
  BY DEF ToMinute
<1>2. /\ \A s \in rows : s \in h /\ s.r.t \in Nat /\ s.r.wkReset = b /\ ToMinute(s.r.t) = s.r.t
      /\ \A s \in rows : s.r.t <= b => W[s.r.t] \in Nat /\ s.r.wk = W[s.r.t]
      /\ \A s, u \in rows : s.r.t <= u.r.t /\ u.r.t <= b => W[s.r.t] <= W[u.r.t]
  BY <1>1 DEF Says
<1>3. T \in SUBSET Nat /\ IsFiniteSet(T)
  <2>1. IsFiniteSet(rows)
    BY FS_Subset
  <2> DEFINE f == [s \in rows |-> ToMinute(s.r.t)]
  <2>2. f \in Surjection(rows, T)
    BY DEF Surjection
  <2>3. IsFiniteSet(T)
    <3> HIDE DEF f, rows, T
    <3> QED BY <2>1, <2>2, FS_Surjection
  <2>4. T \in SUBSET Nat
    BY <1>2
  <2> QED BY <2>3, <2>4
<1>4. pts = [i \in DOMAIN o |->
               [minute |-> o[i], wk |-> Max({s.r.wk : s \in {u \in rows : ToMinute(u.r.t) = o[i]}})]]
  BY Zenon DEF WkPoints
<1>5. \A t \in T : \E s \in rows : s.r.t = t
  BY <1>2
<1> HIDE DEF T
<1>6. /\ n \in Nat /\ DOMAIN o = 1 .. n
      /\ \A i \in 1 .. n : o[i] \in T /\ o[i] \in Nat
      /\ \A i, j \in 1 .. n : i < j => o[i] < o[j]
  BY <1>3, TimesOrdered
<1> HIDE DEF rows, o, n, pts
<1>7. /\ DOMAIN pts = 1 .. n
      /\ \A i \in 1 .. n : pts[i].minute = o[i]
  BY <1>4, <1>6
\* What a point says.
<1>8. ASSUME NEW i \in 1 .. n, o[i] <= b PROVE pts[i].wk = W[o[i]] /\ W[o[i]] \in Nat
  <2> DEFINE S == {s.r.wk : s \in {u \in rows : ToMinute(u.r.t) = o[i]}}
  <2>1. pts[i].wk = Max(S)
    BY <1>4, <1>6
  <2>2. PICK s \in rows : s.r.t = o[i]
    BY <1>5, <1>6
  <2>3. W[o[i]] \in Nat
    BY <1>2, <1>8, <2>2
  <2>4. S = {W[o[i]]}
    BY <1>2, <1>8, <2>2
  <2>5. Max({W[o[i]]}) = W[o[i]]
    BY <2>3 DEF Max
  <2> HIDE DEF S
  <2> QED BY <2>1, <2>3, <2>4, <2>5
\* The points of the window.
<1> DEFINE k == Cardinality({i \in 1 .. n : o[i] <= b})
<1>9. k \in 0 .. n /\ {i \in 1 .. n : o[i] <= b} = 1 .. k
  <2>1. n \in Nat /\ b \in Nat /\ \A i \in 1 .. n : o[i] \in Nat
    BY <1>6
  <2>2. \A i, j \in 1 .. n : i < j => o[i] < o[j]
    BY <1>6
  <2> DEFINE J == {i \in 1 .. n : o[i] <= b}
  <2>3. \A i : i \in J <=> i \in 1 .. n /\ o[i] <= b
    OBVIOUS
  <2> HIDE DEF J
  <2>4. Cardinality(J) \in 0 .. n /\ J = 1 .. Cardinality(J)
    BY <2>1, <2>2, <2>3, FirstOnes
  <2> QED BY <2>4 DEF J
<1>10. {i \in DOMAIN pts : pts[i].minute <= b} = {i \in 1 .. n : o[i] <= b}
  BY <1>7
<1>11. win = SubSeq(pts, 1, k)
  BY <1>10 DEF Clip
<1> HIDE DEF k, win
<1>12. /\ Len(win) = k /\ DOMAIN win = 1 .. k
       /\ \A i \in 1 .. k : win[i] = pts[i]
  <2> DEFINE S == {pts[i] : i \in 1 .. n}
  <2>1. k \in Int /\ 1 \in Int /\ \A i \in 1 .. k : pts[i] \in S
    BY <1>6, <1>9
  <2> HIDE DEF S
  <2>2. /\ SubSeq(pts, 1, k) \in Seq(S)
        /\ Len(SubSeq(pts, 1, k)) = IF 1 <= k THEN k - 1 + 1 ELSE 0
        /\ \A i \in 1 .. k - 1 + 1 : SubSeq(pts, 1, k)[i] = pts[1 + i - 1]
    BY <2>1, SubSeqProperties
  <2>3. Len(win) = k /\ win \in Seq(S)
    BY <1>6, <1>9, <1>11, <2>2
  <2>4. DOMAIN win = 1 .. k
    BY <2>3
  <2>5. ASSUME NEW i \in 1 .. k PROVE win[i] = pts[i]
    <3>1. i \in 1 .. k - 1 + 1 /\ 1 + i - 1 = i
      BY <2>1
    <3> QED BY <1>11, <2>2, <3>1
  <2> QED BY <2>3, <2>4, <2>5
<1>13. \A i \in 1 .. k : /\ i \in 1 .. n /\ o[i] <= b /\ o[i] \in Nat
                         /\ win[i].minute = o[i] /\ win[i].wk = W[o[i]] /\ W[o[i]] \in Nat
  BY <1>6, <1>7, <1>8, <1>9, <1>12
<1> DEFINE top == Max({win[i].wk : i \in DOMAIN win})
<1>14. /\ k >= 2
       /\ r = [t0 |-> win[1].minute, t1 |-> win[k].minute, dw |-> top - win[1].wk, bnd |-> b]
       /\ ~ (top - win[1].wk < MinRunDW)
  BY <1>12 DEF boundaryRun, win, pts, Last
<1>15. 1 \in 1 .. k /\ k \in 1 .. k /\ 1 < k /\ k \in Nat
  BY <1>6, <1>9, <1>14
<1>16. ASSUME NEW i \in 1 .. k PROVE W[o[i]] <= W[o[k]]
  <2>1. PICK s \in rows : s.r.t = o[i]
    BY <1>5, <1>6, <1>13
  <2>2. PICK u \in rows : u.r.t = o[k]
    BY <1>5, <1>6, <1>13, <1>15
  <2>3. o[i] <= o[k]
    <3>1. i = k \/ i < k
      BY <1>15
    <3>2. o[i] \in Nat /\ o[k] \in Nat /\ i \in 1 .. n /\ k \in 1 .. n
      BY <1>13, <1>15
    <3> QED BY <1>6, <3>1, <3>2
  <2>4. s.r.t <= u.r.t /\ u.r.t <= b
    BY <1>13, <1>15, <2>1, <2>2, <2>3
  <2> QED BY <1>2, <2>1, <2>2, <2>4
<1>17. top = W[o[k]]
  <2> DEFINE V == {win[i].wk : i \in DOMAIN win}
  <2>1. V = {W[o[i]] : i \in 1 .. k}
    BY <1>12, <1>13
  <2>2. W[o[k]] \in V /\ \A v \in V : v \in Nat /\ W[o[k]] >= v
    BY <1>13, <1>15, <1>16, <2>1
  <2> HIDE DEF V
  <2>3. Max(V) \in V /\ \A v \in V : Max(V) >= v
    BY <2>2 DEF Max
  <2>4. Max(V) = W[o[k]]
    BY <2>2, <2>3
  <2> QED BY <2>4 DEF V
<1> HIDE DEF top
<1>18. /\ r.t0 = o[1] /\ r.t1 = o[k] /\ r.bnd = b /\ r.dw = W[o[k]] - W[o[1]]
       /\ W[o[k]] \in Nat /\ W[o[1]] \in Nat
  BY <1>13, <1>14, <1>15, <1>17
<1>19. r.dw >= MinRunDW
  <2>1. MinRunDW \in Nat
    BY CalibAssumption
  <2> QED BY <1>13, <1>14, <1>15, <1>17, <1>18, <2>1
<1>20. PICK s \in rows : s.r.t = o[1]
  BY <1>5, <1>6, <1>13, <1>15
<1>21. PICK u \in rows : u.r.t = o[k]
  BY <1>5, <1>6, <1>13, <1>15
<1>22. o[1] < o[k] /\ o[k] <= b
  BY <1>6, <1>13, <1>15
<1>23. s \in h /\ u \in h /\ s.r.wkReset = b /\ u.r.wkReset = b
  BY <1>2
<1> QED BY <1>18, <1>19, <1>20, <1>21, <1>22, <1>23

-----------------------------------------------------------------------------
(***************************************************************************)
(* What the readings say.                                                  *)
(***************************************************************************)
LEMMA NextPart ==
  ASSUME NEW c \in Nat, NEW size \in Nat \ {0}
  PROVE  (c + 1) \div size = IF (c + 1) % size = 0 THEN c \div size + 1 ELSE c \div size
<1> DEFINE q == c \div size
           p == (c + 1) \div size
           m == (c + 1) % size
<1>1. q \in Nat /\ q * size <= c /\ c < (q + 1) * size
  BY Division
<1>2. p \in Nat /\ m \in 0 .. size - 1 /\ c + 1 = p * size + m
  BY Z3
<1> HIDE DEF q, p, m
<1>3. CASE m = 0
  <2>1. q * size < p * size /\ p * size <= (q + 1) * size
    <3> DEFINE x == q * size
               y == p * size
               z == (q + 1) * size
    <3>1. x \in Int /\ y \in Int /\ z \in Int
      BY <1>1, <1>2, Z3
    <3> HIDE DEF x, y, z
    <3>2. x <= c /\ c < z /\ c + 1 = y + m
      BY <1>1, <1>2 DEF x, y, z
    <3> QED BY <1>3, <3>1, <3>2 DEF x, y, z
  <2>2. q < p /\ p <= q + 1
    BY <1>1, <1>2, <2>1, Z3
  <2> QED BY <1>1, <1>2, <1>3, <2>2 DEF q, p, m
<1>4. CASE m # 0
  <2>1. q * size < (p + 1) * size /\ p * size < (q + 1) * size
    <3> DEFINE x == q * size
               y == p * size
               z == (q + 1) * size
    <3>1. x \in Int /\ y \in Int /\ z \in Int /\ (p + 1) * size = y + size
      BY <1>1, <1>2, Z3
    <3> HIDE DEF x, y, z
    <3>2. x <= c /\ c < z /\ c + 1 = y + m
      BY <1>1, <1>2 DEF x, y, z
    <3>3. x < y + size /\ y < z
      BY <1>2, <1>4, <3>1, <3>2
    <3> QED BY <3>1, <3>3 DEF x, y, z
  <2>2. q < p + 1 /\ p < q + 1
    BY <1>1, <1>2, <2>1, Z3
  <2> QED BY <1>1, <1>2, <1>4, <2>2 DEF q, p, m
<1> QED BY <1>3, <1>4

LEMMA DivisionOrder ==
  ASSUME NEW a \in Nat, NEW b \in Nat, a <= b, NEW x \in Nat \ {0}
  PROVE  a \div x \in Nat /\ b \div x \in Nat /\ a \div x <= b \div x
<1> DEFINE p == a \div x
           q == b \div x
<1>1. p \in Nat /\ p * x <= a
  BY Division
<1>2. q \in Nat /\ b < (q + 1) * x
  BY Division
<1> HIDE DEF p, q
<1>3. p * x < (q + 1) * x
  <2> DEFINE y == p * x
             z == (q + 1) * x
  <2>1. y \in Int /\ z \in Int
    BY <1>1, <1>2, Z3
  <2> HIDE DEF y, z
  <2> QED BY <1>1, <1>2, <2>1 DEF y, z
<1>4. p < q + 1
  BY <1>1, <1>2, <1>3, Z3
<1> QED BY <1>1, <1>2, <1>4 DEF p, q

\* What is spent in a time, and in the two parts of a time.
LEMMA SpentParts ==
  ASSUME BlocksInv, NEW a \in Nat, NEW t0 \in Nat, NEW t1 \in 0 .. clock, a <= t0, t0 <= t1
  PROVE  /\ Spent(a, t0) \in Nat /\ Spent(t0, t1) \in Nat
         /\ Spent(a, t1) = Spent(a, t0) + Spent(t0, t1)
<1> DEFINE A == (a + 1) .. t0
           B == (t0 + 1) .. t1
<1>1. clock \in Nat /\ spent \in Seq(Nat) /\ Len(spent) = clock
  BY DEF BlocksInv, TypeInv
<1>2. A \cap B = {} /\ A \union B = (a + 1) .. t1 /\ \A u \in A \union B : u \in 1 .. clock
  BY <1>1
<1>3. IsFiniteSet(A) /\ IsFiniteSet(B)
  BY <1>1, Stretch
<1>4. \A u \in A \union B : spent[u] \in Nat /\ spent[u] \in Int
  BY <1>1, <1>2
<1> HIDE DEF A, B
<1>5. Total(spent, A) \in Nat /\ Total(spent, B) \in Nat
  BY <1>3, <1>4, TotalNat
<1>6. Total(spent, A \union B) = Total(spent, A) + Total(spent, B)
  BY <1>2, <1>3, <1>4, TotalUnion
<1>7. /\ Spent(a, t0) = Total(spent, A) /\ Spent(t0, t1) = Total(spent, B)
      /\ Spent(a, t1) = Total(spent, A \union B)
  BY <1>2, SpentIs, Zenon DEF A, B
<1> QED BY <1>5, <1>6, <1>7

\* The whole percents of week k at t.
Reached(k, t) == Spent(Week * k, t) \div rate[k + 1]

\* A reading is of a week so far; one that is not stale has its percents, or is
\* at the limit.
ReadingsInv ==
  /\ IsFiniteSet(hist)
  /\ rate \in Seq(Nat \ {0}) /\ Len(rate) = WeekOf(clock) + 1
  /\ \A s \in hist :
       /\ s.r.t \in 0 .. clock
       /\ s.r.wkReset # Nil =>
            \E k \in 0 .. WeekOf(clock) :
              /\ s.r.wkReset = Week * (k + 1) /\ Week * k <= s.r.t
              /\ s.r.t <= s.r.wkReset => s.r.wk \in {100, Reached(k, s.r.t)}

LEMMA SpentNext ==
  ASSUME NEW CONSTANT t0, NEW CONSTANT t1
  PROVE  Spent(t0, t1)' = Total(spent', (t0 + 1) .. t1)
BY Zenon DEF Spent, Total, MapThenSumSet, MapThenFoldSet

LEMMA ReachedIs ==
  ASSUME NEW CONSTANT k, NEW CONSTANT t
  PROVE  /\ Reached(k, t) = Total(spent, (Week * k + 1) .. t) \div rate[k + 1]
         /\ Reached(k, t)' = Total(spent', (Week * k + 1) .. t) \div rate'[k + 1]
<1> DEFINE a == Week * k
<1>1. Spent(a, t) = Total(spent, (a + 1) .. t) /\ Spent(a, t)' = Total(spent', (a + 1) .. t)
  BY SpentIs, SpentNext
<1> QED BY <1>1, Zenon DEF Reached

LEMMA ReachedSame ==
  ASSUME NEW CONSTANT k, NEW CONSTANT t, spent' = spent, rate' = rate
  PROVE  Reached(k, t)' = Reached(k, t)
BY ReachedIs, Zenon

LEMMA WeekIs ==
  ASSUME NEW t \in Nat
  PROVE  /\ Week \in Nat \ {0} /\ WeekOf(t) \in Nat
         /\ Week * WeekOf(t) \in Nat
         /\ Week * WeekOf(t) <= t /\ t < Week * (WeekOf(t) + 1)
<1>1. Week \in Nat \ {0}
  BY PricingAssumption
<1> DEFINE w == WeekOf(t)
<1>2. w \in Nat /\ w * Week <= t /\ t < (w + 1) * Week
  BY <1>1, Division DEF WeekOf
<1> HIDE DEF w
<1>3. w * Week = Week * w /\ (w + 1) * Week = Week * (w + 1) /\ Week * w \in Nat
  BY <1>1, <1>2, Z3
<1> QED BY <1>1, <1>2, <1>3 DEF w

LEMMA ReadingsInit == Init => ReadingsInv
<1> SUFFICES ASSUME Init PROVE ReadingsInv
  OBVIOUS
<1>1. clock = 0 /\ hist = {}
  BY DEF Init
<1>2. PICK x \in Rates : rate = <<x>>
  BY DEF Init
<1>3. x \in Nat \ {0} /\ Week \in Nat \ {0}
  BY PricingAssumption
<1>4. 0 \div Week = 0
  BY <1>3, Z3
<1> QED BY <1>1, <1>2, <1>3, <1>4, FS_EmptySet DEF ReadingsInv, WeekOf

\* A new row shows the week as it is, or as it was at its end.
LEMMA RenderReadings ==
  ASSUME BlocksInv, ReadingsInv, Render PROVE ReadingsInv'
<1>1. /\ UNCHANGED <<clock, spent, rate>>
      /\ clock \in Nat /\ rate \in Seq(Nat \ {0}) /\ Len(rate) = WeekOf(clock) + 1
  BY DEF Render, ReadingsInv, BlocksInv, TypeInv
<1>2. PICK x \in Session, pay \in Reading :
        /\ Appends(hist, PreparedRow(pay, clock, x))
        /\ hist' = hist \union {[id |-> NextId(hist), r |-> PreparedRow(pay, clock, x)]}
  BY Zenon DEF Render
<1> DEFINE w == WeekOf(clock)
           n == [id |-> NextId(hist), r |-> PreparedRow(pay, clock, x)]
           Week0 == Week * w
<1>3. /\ w \in Nat /\ Week \in Nat \ {0} /\ Week0 \in Nat
      /\ Week0 <= clock /\ clock < Week * (w + 1)
  BY <1>1, WeekIs
<1>4. /\ n.r.t = clock
      /\ n.r.wkReset \in {Nil, pay.wkReset}
      /\ n.r.wk = sanePct(pay.wk) /\ n.r.wk # Nil
  BY <1>2 DEF PreparedRow, Appends, saneReset
<1>5. n.r.wk \in {100, pay.wk}
  BY <1>4 DEF sanePct
<1>6. \/ pay.wk = Reached(w, clock) /\ pay.wkReset = Week * (w + 1)
      \/ w # 0 /\ pay.wk = Reached(w - 1, Week * w) /\ pay.wkReset = Week * w
  <2>1. pay = Limits(w, clock) \/ (w # 0 /\ pay = Limits(w - 1, Week * w))
    BY <1>2 DEF Reading
  <2>2. w - 1 + 1 = w
    BY <1>3
  <2> HIDE DEF w
  <2> QED BY <2>1, <2>2 DEF Limits, Reached
<1> HIDE DEF w, n
<1>7. /\ n.r.t \in 0 .. clock
      /\ n.r.wkReset # Nil =>
           \E k \in 0 .. w : /\ n.r.wkReset = Week * (k + 1) /\ Week * k <= n.r.t
                             /\ n.r.t <= n.r.wkReset => n.r.wk \in {100, Reached(k, n.r.t)}
  <2>1. CASE pay.wk = Reached(w, clock) /\ pay.wkReset = Week * (w + 1)
    BY <1>1, <1>3, <1>4, <1>5, <2>1
  <2>2. CASE w # 0 /\ pay.wk = Reached(w - 1, Week * w) /\ pay.wkReset = Week * w
    <3>1. w - 1 \in 0 .. w /\ w - 1 + 1 = w
      BY <1>3, <2>2
    <3> DEFINE k == w - 1
    <3>2. Week * k <= Week * w /\ Week * k \in Int
      BY <1>3, <3>1, Z3
    <3>3. Week * w <= clock /\ Week * w \in Int
      BY <1>3
    <3> DEFINE earlier == Week * k
               start == Week * w
    <3>4. earlier <= clock
      <4>1. earlier \in Int /\ start \in Int /\ earlier <= start /\ start <= clock
        BY <3>2, <3>3
      <4> HIDE DEF earlier, start
      <4> QED BY <1>1, <4>1
    <3>5. clock <= Week * w => clock = Week * w
      BY <1>1, <1>3 DEF Week0
    <3>6. k \in 0 .. w /\ k + 1 = w
      BY <3>1
    <3> HIDE DEF k
    <3>7. pay.wk = Reached(k, Week * w)
      BY <2>2 DEF k
    <3>8. n.r.wkReset # Nil => n.r.wkReset = Week * (k + 1)
      BY <1>4, <2>2, <3>6
    <3>9. n.r.t <= n.r.wkReset /\ n.r.wkReset # Nil => n.r.wk \in {100, Reached(k, n.r.t)}
      BY <1>4, <1>5, <2>2, <3>5, <3>7
    <3> QED BY <1>1, <1>4, <3>4, <3>6, <3>8, <3>9
  <2> QED BY <1>6, <2>1, <2>2
<1>8. \A k, t : Reached(k, t)' = Reached(k, t)
  BY <1>1, ReachedSame
<1>9. IsFiniteSet(hist')
  <2>1. hist' = hist \union {n} /\ IsFiniteSet(hist)
    BY <1>2 DEF n, ReadingsInv
  <2> QED BY <2>1, FS_AddElement
<1>10. WeekOf(clock)' = w /\ clock' = clock /\ rate' = rate
  BY <1>1 DEF w, WeekOf
<1>11. ASSUME NEW s \in hist'
       PROVE  /\ s.r.t \in 0 .. clock
              /\ s.r.wkReset # Nil =>
                   \E k \in 0 .. w : /\ s.r.wkReset = Week * (k + 1) /\ Week * k <= s.r.t
                                     /\ s.r.t <= s.r.wkReset
                                          => s.r.wk \in {100, Reached(k, s.r.t)}
  <2>1. s \in hist \/ s = n
    BY <1>2 DEF n
  <2>2. CASE s \in hist
    BY <2>2 DEF ReadingsInv, w
  <2> QED BY <1>7, <2>1, <2>2
<1> QED BY <1>1, <1>8, <1>9, <1>10, <1>11, Zenon DEF ReadingsInv, w

LEMMA PassReadings ==
  ASSUME BlocksInv, ReadingsInv, NEW c \in Spends, NEW isMixed \in BOOLEAN, Pass(c, isMixed)
  PROVE  ReadingsInv'
<1> DEFINE w == WeekOf(clock)
           u == clock + 1
<1>1. /\ clock \in Nat /\ spent \in Seq(Nat) /\ Len(spent) = clock
      /\ rate \in Seq(Nat \ {0}) /\ Len(rate) = w + 1
      /\ clock' = u /\ spent' = Append(spent, c) /\ hist' = hist
      /\ IF u % Week = 0 THEN \E x \in Rates : rate' = Append(rate, x) ELSE rate' = rate
  BY DEF Pass, ReadingsInv, BlocksInv, TypeInv
<1>2. /\ Rates \subseteq Nat \ {0} /\ c \in Nat /\ w \in Nat /\ u \in Nat
      /\ Week \in Nat \ {0}
  BY <1>1, WeekIs, PricingAssumption
<1>3. WeekOf(u) = IF u % Week = 0 THEN w + 1 ELSE w
  BY <1>1, <1>2, NextPart DEF WeekOf
<1> HIDE DEF w, u
<1>4. /\ rate' \in Seq(Nat \ {0}) /\ Len(rate') = WeekOf(u) + 1
      /\ \A i \in 1 .. w + 1 : rate'[i] = rate[i]
  <2>1. CASE u % Week = 0
    <3>1. PICK x \in Rates : rate' = Append(rate, x)
      BY <1>1, <2>1
    <3>2. x \in Nat \ {0}
      BY <1>2
    <3>3. /\ Append(rate, x) \in Seq(Nat \ {0}) /\ Len(Append(rate, x)) = Len(rate) + 1
          /\ \A i \in 1 .. Len(rate) : Append(rate, x)[i] = rate[i]
      BY <1>1, <3>2
    <3> QED BY <1>1, <1>2, <1>3, <2>1, <3>1, <3>3
  <2>2. CASE u % Week # 0
    BY <1>1, <1>3, <2>2
  <2> QED BY <2>1, <2>2
<1>5. ASSUME NEW k \in 0 .. w, NEW t \in 0 .. clock PROVE Reached(k, t)' = Reached(k, t)
  <2> DEFINE S == (Week * k + 1) .. t
             a == Week * k
  <2>1. a \in Nat
    BY <1>2, Z3
  <2>2. S = (a + 1) .. t
    OBVIOUS
  <2> HIDE DEF a, S
  <2>3. IsFiniteSet(S)
    BY <2>1, <2>2, Stretch
  <2>4. \A i \in S : spent[i] \in Int /\ spent[i] = spent'[i]
    BY <1>1, <1>2, <2>1, <2>2
  <2>5. Total(spent, S) = Total(spent', S)
    BY <2>3, <2>4, TotalSame
  <2>6. /\ Reached(k, t) = Total(spent, S) \div rate[k + 1]
        /\ Reached(k, t)' = Total(spent', S) \div rate'[k + 1]
    BY ReachedIs DEF S
  <2>7. rate'[k + 1] = rate[k + 1]
    <3>1. k + 1 \in 1 .. w + 1
      BY <1>2
    <3> QED BY <1>4, <3>1
  <2> QED BY <2>5, <2>6, <2>7, Zenon
<1>6. ASSUME NEW s \in hist
      PROVE  /\ s.r.t \in 0 .. u
             /\ s.r.wkReset # Nil =>
                  \E k \in 0 .. WeekOf(u) :
                    /\ s.r.wkReset = Week * (k + 1) /\ Week * k <= s.r.t
                    /\ s.r.t <= s.r.wkReset => s.r.wk \in {100, Reached(k, s.r.t)'}
  <2>1. s.r.t \in 0 .. clock /\ s.r.t \in 0 .. u
    BY <1>1 DEF ReadingsInv, u
  <2>2. ASSUME s.r.wkReset # Nil
        PROVE  \E k \in 0 .. WeekOf(u) :
                 /\ s.r.wkReset = Week * (k + 1) /\ Week * k <= s.r.t
                 /\ s.r.t <= s.r.wkReset => s.r.wk \in {100, Reached(k, s.r.t)'}
    <3>1. PICK k \in 0 .. w :
            /\ s.r.wkReset = Week * (k + 1) /\ Week * k <= s.r.t
            /\ s.r.t <= s.r.wkReset => s.r.wk \in {100, Reached(k, s.r.t)}
      BY <2>2 DEF ReadingsInv, w
    <3>2. Reached(k, s.r.t)' = Reached(k, s.r.t)
      BY <1>5, <2>1
    <3>3. k \in 0 .. WeekOf(u)
      BY <1>2, <1>3
    <3> QED BY <3>1, <3>2, <3>3
  <2> QED BY <2>1, <2>2
<1>7. IsFiniteSet(hist') /\ WeekOf(clock)' = WeekOf(u)
  BY <1>1 DEF ReadingsInv, WeekOf
<1> QED BY <1>1, <1>4, <1>6, <1>7, Zenon DEF ReadingsInv

LEMMA ReadingsInvariant == Spec => []ReadingsInv
<1>1. ASSUME BlocksInv, ReadingsInv, UNCHANGED vars PROVE ReadingsInv'
  <2>1. UNCHANGED <<clock, spent, rate, hist>>
    BY <1>1 DEF vars
  <2>2. \A k, t : Reached(k, t)' = Reached(k, t)
    BY <2>1, ReachedSame
  <2>3. WeekOf(clock)' = WeekOf(clock)
    BY <2>1 DEF WeekOf
  <2> QED BY <1>1, <2>1, <2>2, <2>3, Zenon DEF ReadingsInv
<1>2. ASSUME BlocksInv, ReadingsInv, [Next]_vars PROVE ReadingsInv'
  BY <1>1, <1>2, RenderReadings, PassReadings DEF Next
<1> QED BY <1>2, ReadingsInit, BlocksInvariant, PTL DEF Spec

-----------------------------------------------------------------------------
(***************************************************************************)
(* What a window says of its rate.                                         *)
(***************************************************************************)
\* No block is charged in doubt, so the window costs what was spent in it.
LEMMA SurelyCharged ==
  ASSUME BlocksInv, CostIsWithinEdges, NEW t0 \in 0 .. clock, NEW t1 \in (t0 + 1) .. clock,
         CutBlocks(t0, t1) \union MixedBlocks(t0, t1) = {}
  PROVE  costBetween(decodeBlocks(Reported), t0, t1) = Dollar * Spent(t0, t1)
<1> DEFINE charged == costBetween(decodeBlocks(Reported), t0, t1)
           true == Dollar * Spent(t0, t1)
<1>1. CutBlocks(t0, t1) = {} /\ decodeBlocks(CutBlocks(t0, t1)) = {}
  BY DEF decodeBlocks
<1>2. BillOf({}) = 0
  <2>1. Total(CostOf({}), {}) = 0
    BY TotalEmpty
  <2>2. BillOf({}) = Dollar * Total(CostOf({}), {})
    BY FS_EmptySet, BillIs
  <2>3. Dollar * 0 = 0
    BY Sizes, Z3
  <2> QED BY <2>1, <2>2, <2>3
<1>3. clock \in Nat /\ t0 \in Nat /\ t1 \in Nat /\ t1 \in 0 .. clock /\ t0 <= t1
  BY DEF BlocksInv, TypeInv
<1>4. Spent(t0, t1) \in Nat
  BY <1>3, SpentParts
<1>5. true \in Int
  <2> DEFINE c == Spent(t0, t1)
  <2> HIDE DEF c
  <2>1. Dollar * c \in Int
    BY <1>4, Sizes, Z3 DEF c
  <2> QED BY <2>1 DEF c
<1>6. charged \in Int
  <2>1. IsFiniteSet(Reported) /\ Reported \subseteq BlockType
    BY ReportedIs
  <2> DEFINE D == decodeBlocks(Reported)
             f == ShareOf(D, t0, t1)
  <2>2. /\ IsFiniteSet(D) /\ D \subseteq Reported /\ charged = Total(f, D)
        /\ \A b \in Reported : Share(b, t0, t1) \in Nat
    BY <1>3, <2>1, ChargeIs DEF ChargeOf
  <2>3. \A b \in D : f[b] \in Int
    BY <2>2 DEF ShareOf
  <2> HIDE DEF D, f
  <2> QED BY <2>2, <2>3, TotalOfOneOf
<1>7. /\ charged <= true + BillOf(decodeBlocks(CutBlocks(t0, t1)))
      /\ true <= charged + BillOf(CutBlocks(t0, t1) \union MixedBlocks(t0, t1))
  BY DEF CostIsWithinEdges
<1>8. charged <= true + BillOf({}) /\ true <= charged + BillOf({})
  BY <1>1, <1>7, Zenon
<1> HIDE DEF charged, true
<1>9. charged = true
  BY <1>2, <1>5, <1>6, <1>8
<1> QED BY <1>9 DEF charged, true

\* Whole percents at two times bound what was spent in between.
LEMMA ClimbIs ==
  ASSUME NEW a \in Nat, NEW c \in Nat, NEW x \in Nat \ {0}
  PROVE  LET dw == (a + c) \div x - a \div x
         IN  x * (dw - 1) < c /\ c < x * (dw + 1)
<1> DEFINE p == a \div x
           q == (a + c) \div x
           dw == q - p
<1>1. p \in Nat /\ p * x <= a /\ a < (p + 1) * x
  BY Division
<1>2. q \in Nat /\ q * x <= a + c /\ a + c < (q + 1) * x
  <2> DEFINE b == a + c
  <2>1. b \in Nat
    OBVIOUS
  <2> HIDE DEF b
  <2>2. /\ b \div x \in Nat /\ (b \div x) * x <= b /\ b < (b \div x + 1) * x
    BY <2>1, Division
  <2> QED BY <2>2 DEF b
<1> HIDE DEF p, q
<1> DEFINE px == p * x
           qx == q * x
<1>3. px \in Int /\ qx \in Int /\ (p + 1) * x = px + x /\ (q + 1) * x = qx + x
  BY <1>1, <1>2, Z3
<1>4. x * (dw - 1) = (qx - px) - x /\ x * (dw + 1) = (qx - px) + x
  BY <1>1, <1>2, Z3
<1> HIDE DEF px, qx
<1>5. px <= a /\ a < px + x /\ qx <= a + c /\ a + c < qx + x
  BY <1>1, <1>2, <1>3 DEF px, qx
<1>6. (qx - px) - x < c /\ c < (qx - px) + x
  BY <1>3, <1>5
<1> QED BY <1>4, <1>6 DEF p, q

\* A window that leaves no doubt.
Plain(w) == CutBlocks(w.t0, w.t1) \union MixedBlocks(w.t0, w.t1) = {} /\ ~ Capped(w)

LEMMA WindowIs ==
  ASSUME BlocksInv, ReadingsInv, CostIsWithinEdges, NEW w \in Windows, Plain(w)
  PROVE  /\ w.bnd \in Nat /\ w.dw \in Nat /\ w.dw >= MinRunDW
         /\ RateOf(w) \in Nat \ {0}
         /\ \E c \in Nat : /\ w.cost = Dollar * c
                           /\ RateOf(w) * (w.dw - 1) < c /\ c < RateOf(w) * (w.dw + 1)
<1>1. PICK r \in wkRuns(hist) :
        w = [bnd |-> r.bnd, t0 |-> r.t0, t1 |-> r.t1, dw |-> r.dw,
             cost |-> costBetween(decodeBlocks(Reported), r.t0, r.t1)]
  BY DEF Windows
<1>2. PICK b \in Boundaries(hist) : r \in boundaryRun(WkPoints(hist, b), b)
  <2>1. wkRuns(hist) \subseteq UNION {boundaryRun(WkPoints(hist, b), b) : b \in Boundaries(hist)}
    BY DEF wkRuns
  <2> QED BY <2>1
<1>3. PICK z \in hist : z.r.wkReset = b /\ b # Nil
  BY DEF Boundaries
<1>4. clock \in Nat /\ WeekOf(clock) \in Nat /\ Week \in Nat \ {0}
  BY WeekIs DEF BlocksInv, TypeInv
<1>5. PICK k \in 0 .. WeekOf(clock) : b = Week * (k + 1)
  BY <1>3 DEF ReadingsInv
<1>6. k \in Nat
  BY <1>4
<1> DEFINE start == Week * k
           x == rate[k + 1]
           W == [t \in 0 .. clock |-> Spent(start, t) \div x]
<1>7. start \in Nat /\ b \in Nat
  BY <1>4, <1>5, <1>6, Z3
<1>8. x \in Nat \ {0}
  <2>1. k + 1 \in 1 .. Len(rate) /\ rate \in Seq(Nat \ {0})
    BY <1>4 DEF ReadingsInv
  <2> QED BY <2>1
<1>9. b \div Week = k + 1
  <2>1. k + 1 \in Nat
    BY <1>6
  <2> DEFINE m == k + 1
  <2> HIDE DEF m
  <2>2. (Week * m) \div Week = m
    BY <1>4, <2>1, Z3 DEF m
  <2> QED BY <1>5, <2>2 DEF m
\* What its rows say.
<1>10. ASSUME NEW s \in hist, s.r.wkReset = b
       PROVE  /\ s.r.t \in 0 .. clock /\ s.r.t \in Nat /\ start <= s.r.t
              /\ s.r.t <= b => s.r.wk \in {100, Reached(k, s.r.t)}
  <2>1. s.r.t \in 0 .. clock
    BY DEF ReadingsInv
  <2>2. PICK i \in 0 .. WeekOf(clock) :
          /\ s.r.wkReset = Week * (i + 1) /\ Week * i <= s.r.t
          /\ s.r.t <= s.r.wkReset => s.r.wk \in {100, Reached(i, s.r.t)}
    BY <1>3, <1>10 DEF ReadingsInv
  <2>3. i = k
    <3>1. i \in Nat /\ Week * (i + 1) = Week * (k + 1)
      BY <1>4, <1>5, <1>10, <2>2
    <3> QED BY <1>4, <1>6, <3>1, Z3
  <2>4. s.r.t \in Nat
    BY <1>4, <2>1
  <2> QED BY <1>10, <2>1, <2>2, <2>3, <2>4
<1>11. w.bnd = r.bnd /\ w.t0 = r.t0 /\ w.t1 = r.t1 /\ w.dw = r.dw
       /\ w.cost = costBetween(decodeBlocks(Reported), r.t0, r.t1)
  BY <1>1
<1>12. \A t \in 0 .. clock : W[t] = Spent(start, t) \div x /\ W[t] = Reached(k, t)
  BY DEF Reached
<1> HIDE DEF W
<1>13. ASSUME NEW t \in 0 .. clock, NEW u \in 0 .. clock, start <= t, t <= u
       PROVE  /\ Spent(start, t) \in Nat /\ Spent(t, u) \in Nat
              /\ Spent(start, u) = Spent(start, t) + Spent(t, u)
              /\ W[t] \in Nat /\ W[t] <= W[u]
  <2>1. t \in Nat
    BY <1>4
  <2> HIDE DEF start, x
  <2>2. /\ Spent(start, t) \in Nat /\ Spent(t, u) \in Nat
        /\ Spent(start, u) = Spent(start, t) + Spent(t, u)
    BY <1>7, <1>13, <2>1, SpentParts
  <2>3. Spent(start, u) \in Nat /\ Spent(start, t) <= Spent(start, u)
    BY <2>2
  <2>4. /\ Spent(start, t) \div x \in Nat
        /\ Spent(start, t) \div x <= Spent(start, u) \div x
    BY <1>8, <2>2, <2>3, DivisionOrder
  <2> QED BY <1>12, <2>2, <2>4
<1> HIDE DEF start
<1>14. r.bnd = b
  BY <1>2 DEF boundaryRun
<1>15. \A s \in hist : s.r.wkReset = b => s.r.wk # 100
  BY <1>11, <1>14 DEF Plain, Capped
<1>16. /\ r.bnd = b /\ r.dw >= MinRunDW
       /\ \E s, u \in hist : /\ s.r.wkReset = b /\ u.r.wkReset = b
                             /\ s.r.t = r.t0 /\ u.r.t = r.t1
                             /\ r.t0 < r.t1 /\ r.t1 <= b
                             /\ r.dw = W[r.t1] - W[r.t0]
  <2>1. Minute = 1
    BY PricingAssumption
  <2>2. IsFiniteSet(hist) /\ \A s \in hist : s.r.t \in Nat
    BY <1>4 DEF ReadingsInv
  <2>3. ASSUME NEW s \in hist, s.r.wkReset = b, s.r.t <= b
        PROVE  W[s.r.t] \in Nat /\ s.r.wk = W[s.r.t]
    <3>1. s.r.t \in 0 .. clock /\ start <= s.r.t /\ s.r.wk \in {100, Reached(k, s.r.t)}
      BY <1>10, <2>3
    <3>2. W[s.r.t] \in Nat
      BY <1>4, <1>13, <3>1
    <3>3. s.r.wk # 100
      BY <1>15, <2>3
    <3> QED BY <1>12, <3>1, <3>2, <3>3
  <2>4. ASSUME NEW s \in hist, NEW u \in hist, s.r.wkReset = b, u.r.wkReset = b,
               s.r.t <= u.r.t, u.r.t <= b
        PROVE  W[s.r.t] <= W[u.r.t]
    <3>1. s.r.t \in 0 .. clock /\ start <= s.r.t /\ u.r.t \in 0 .. clock
      BY <1>10, <2>4
    <3> QED BY <1>13, <2>4, <3>1
  <2>5. Says(hist, b, W)
    BY <2>3, <2>4, Zenon DEF Says
  <2> QED BY <1>2, <1>7, <2>1, <2>2, <2>5, RunIs
<1>17. PICK s \in hist, u \in hist : /\ s.r.wkReset = b /\ u.r.wkReset = b
                                     /\ s.r.t = r.t0 /\ u.r.t = r.t1
                                     /\ r.t0 < r.t1 /\ r.t1 <= b
                                     /\ r.dw = W[r.t1] - W[r.t0]
  BY <1>16
<1>18. /\ r.t0 \in 0 .. clock /\ r.t1 \in 0 .. clock /\ start <= r.t0
       /\ r.t0 \in Nat /\ r.t1 \in Nat /\ r.t0 <= r.t1 /\ r.t1 \in (r.t0 + 1) .. clock
  <2>1. /\ r.t0 \in 0 .. clock /\ r.t1 \in 0 .. clock /\ start <= r.t0
        /\ r.t0 \in Nat /\ r.t1 \in Nat
    BY <1>10, <1>17
  <2> QED BY <1>4, <1>17, <2>1
<1> DEFINE a == Spent(start, r.t0)
           c == Spent(r.t0, r.t1)
<1>19. a \in Nat /\ c \in Nat /\ Spent(start, r.t1) = a + c /\ W[r.t0] \in Nat /\ W[r.t0] <= W[r.t1]
       /\ W[r.t1] \in Nat
  <2>1. start <= r.t1
    BY <1>4, <1>7, <1>18
  <2> QED BY <1>13, <1>18, <2>1
<1>20. w.cost = Dollar * c
  <2>1. CutBlocks(r.t0, r.t1) \union MixedBlocks(r.t0, r.t1) = {}
    BY <1>11 DEF Plain
  <2> QED BY <1>11, <1>18, <2>1, SurelyCharged
<1>21. RateOf(w) = x
  BY <1>9, <1>11, <1>14 DEF RateOf
<1> HIDE DEF x, a, c
<1>22. r.dw = (a + c) \div x - a \div x /\ r.dw \in Nat
  BY <1>12, <1>17, <1>18, <1>19 DEF a
<1>23. x * (r.dw - 1) < c /\ c < x * (r.dw + 1)
  <2>1. LET dw == (a + c) \div x - a \div x IN x * (dw - 1) < c /\ c < x * (dw + 1)
    BY <1>8, <1>19, ClimbIs
  <2> QED BY <1>22, <2>1, Zenon
<1>24. w.bnd \in Nat /\ w.dw \in Nat /\ w.dw >= MinRunDW /\ RateOf(w) \in Nat \ {0}
  BY <1>7, <1>8, <1>11, <1>14, <1>16, <1>21, <1>22
<1>25. RateOf(w) * (w.dw - 1) < c /\ c < RateOf(w) * (w.dw + 1)
  BY <1>11, <1>21, <1>23
<1> QED BY <1>19, <1>20, <1>24, <1>25

\* Products of numbers, in order.
LEMMA Products ==
  ASSUME NEW a \in Int, NEW b \in Int, NEW c \in Nat
  PROVE  /\ a * c \in Int /\ a * c = c * a
         /\ a <= b => a * c <= b * c
         /\ a < b /\ c > 0 => a * c < b * c
         /\ a * c < b * c => a < b
BY Z3

\* In a window that climbs far enough a percent's whole is little.
LEMMA BoundsIs ==
  ASSUME NEW M \in Nat \ {0}, NEW D \in Nat \ {0}, NEW x \in Nat \ {0}, NEW dw \in Nat, dw >= M,
         NEW c \in Nat, x * (dw - 1) < c, c < x * (dw + 1)
  PROVE  /\ D * c \in Nat
         /\ (D * x * (M - 1)) * dw < M * (D * c)
         /\ M * (D * c) < (D * x * (M + 1)) * dw
<1> DEFINE n == D * M
           lo == x * (dw - 1)
           hi == x * (dw + 1)
           k == D * x
<1>1. /\ n \in Nat /\ n > 0 /\ lo \in Int /\ hi \in Int /\ k \in Nat
      /\ D * c \in Nat /\ M * (D * c) = c * n
  BY Z3
<1>2. lo * n = k * (M * dw - M) /\ hi * n = k * (M * dw + M)
  BY Z3
<1>3. (D * x * (M - 1)) * dw = k * (M * dw - dw) /\ (D * x * (M + 1)) * dw = k * (M * dw + dw)
  BY Z3
<1> DEFINE m == M * dw
<1>4. m \in Int
  BY Z3
<1> HIDE DEF n, lo, hi, k, m
<1>5. lo * n < c * n /\ c * n < hi * n
  <2>1. lo < c /\ c < hi
    BY DEF lo, hi
  <2> QED BY <1>1, <2>1, Products
<1>6. k * (m - dw) <= k * (m - M) /\ k * (m + M) <= k * (m + dw)
  <2> DEFINE p == m - dw
             q == m - M
             r == m + M
             s == m + dw
  <2>1. p \in Int /\ q \in Int /\ r \in Int /\ s \in Int /\ p <= q /\ r <= s
    BY <1>4
  <2> HIDE DEF p, q, r, s
  <2>2. p * k <= q * k /\ r * k <= s * k
    BY <1>1, <2>1, Products
  <2>3. p * k = k * p /\ q * k = k * q /\ r * k = k * r /\ s * k = k * s
    BY <1>1, <2>1, Products
  <2> QED BY <2>2, <2>3 DEF p, q, r, s
<1> DEFINE pp == k * (m - dw)
           qq == k * (m - M)
           rr == k * (m + M)
           ss == k * (m + dw)
<1>7. pp \in Int /\ qq \in Int /\ rr \in Int /\ ss \in Int
  BY <1>1, <1>4, Z3
<1>8. c * n \in Int /\ lo * n = qq /\ hi * n = rr
  BY <1>1, <1>2, Products DEF m
<1> DEFINE cn == c * n
<1> HIDE DEF pp, qq, rr, ss, cn
<1>9. pp < cn /\ cn < ss
  BY <1>5, <1>6, <1>7, <1>8 DEF pp, qq, rr, ss, cn
<1> QED BY <1>1, <1>3, <1>9 DEF pp, ss, m, cn

LEMMA DearerIs ==
  ASSUME NEW M \in Nat \ {0}, NEW R \in Nat \ {0}, NEW D \in Nat \ {0},
         NEW x \in Nat \ {0}, NEW y \in Nat \ {0}, NEW a \in Nat \ {0}, NEW b \in Nat \ {0},
         NEW A \in Nat, NEW B \in Nat,
         (D * y * (M - 1)) * a < M * A, M * B < (D * x * (M + 1)) * b,
         (M - 1) * y >= R * (M + 1) * x
  PROVE  A * b > R * B * a
<1> DEFINE L == D * y * (M - 1)
           U == D * x * (M + 1)
<1>1. L \in Int /\ U \in Int
  BY Z3
<1>2. R * U <= L
  <2> DEFINE p == R * (M + 1) * x
             q == (M - 1) * y
  <2>1. p \in Int /\ q \in Int /\ R * U = p * D /\ L = q * D
    BY Z3
  <2> HIDE DEF p, q, L, U
  <2>2. p <= q
    BY <2>1 DEF p, q
  <2> QED BY <2>1, <2>2, Products
<1> HIDE DEF L, U
<1>3. L * a < M * A /\ M * B < U * b
  BY DEF L, U
<1> DEFINE la == L * a
           ma == M * A
           mb == M * B
           ub == U * b
           ra == R * a
           ab == a * b
           ru == R * U
<1>4. /\ la \in Int /\ ma \in Int /\ mb \in Int /\ ub \in Int /\ ru \in Int
      /\ ra \in Nat /\ ra > 0 /\ ab \in Nat
  BY <1>1, Z3
<1>5. /\ la * b = L * ab /\ ub * ra = ru * ab
      /\ ma * b = (A * b) * M /\ mb * ra = (R * B * a) * M
  BY <1>1, Z3
<1> DEFINE g == A * b
           h == R * B * a
<1>6. g \in Int /\ h \in Int
  BY Z3
<1> HIDE DEF la, ma, mb, ub, ra, ab, ru, g, h
<1>7. la * b < ma * b /\ mb * ra < ub * ra /\ ru * ab <= L * ab
  <2>1. la < ma /\ mb < ub /\ ru <= L
    BY <1>2, <1>3 DEF la, ma, mb, ub, ru
  <2>2. la * b < ma * b
    BY <1>4, <2>1, Products
  <2>3. mb * ra < ub * ra
    BY <1>4, <2>1, Products
  <2>4. ru * ab <= L * ab
    BY <1>1, <1>4, <2>1, Products
  <2> QED BY <2>2, <2>3, <2>4
<1>8. la * b \in Int /\ ma * b \in Int /\ mb * ra \in Int /\ ub * ra \in Int
  BY <1>4, Products
<1>9. mb * ra < ma * b
  <2> DEFINE e1 == la * b
             e2 == ma * b
             e3 == mb * ra
             e4 == ub * ra
  <2>1. e1 < e2 /\ e3 < e4 /\ e4 <= e1
    BY <1>5, <1>7
  <2> HIDE DEF e1, e2, e3, e4
  <2>2. e1 \in Int /\ e2 \in Int /\ e3 \in Int /\ e4 \in Int
    BY <1>8 DEF e1, e2, e3, e4
  <2>3. e3 < e2
    BY <2>1, <2>2
  <2> QED BY <2>3 DEF e2, e3
<1>10. h * M < g * M
  BY <1>5, <1>9 DEF g, h
<1>11. h < g
  BY <1>6, <1>10, Products
<1> QED BY <1>6, <1>11 DEF g, h

\* A window that leaves no doubt costs what its rate says, but for a percent.
LEMMA WindowBounds ==
  ASSUME BlocksInv, ReadingsInv, CostIsWithinEdges, NEW w \in Windows, Plain(w)
  PROVE  LET x == RateOf(w) IN
         /\ w.bnd \in Nat /\ w.dw \in Nat \ {0} /\ w.cost \in Nat
         /\ x \in Nat \ {0} /\ Dollar \in Nat \ {0} /\ MinRunDW \in Nat \ {0}
         /\ (Dollar * x * (MinRunDW - 1)) * w.dw < MinRunDW * w.cost
         /\ MinRunDW * w.cost < (Dollar * x * (MinRunDW + 1)) * w.dw
<1> DEFINE x == RateOf(w)
           dw == w.dw
<1>1. /\ w.bnd \in Nat /\ dw \in Nat /\ dw >= MinRunDW /\ x \in Nat \ {0}
      /\ \E c \in Nat : w.cost = Dollar * c /\ x * (dw - 1) < c /\ c < x * (dw + 1)
  BY WindowIs
<1> HIDE DEF x, dw
<1>2. PICK c \in Nat : w.cost = Dollar * c /\ x * (dw - 1) < c /\ c < x * (dw + 1)
  BY <1>1
<1>3. MinRunDW \in Nat \ {0} /\ Dollar \in Nat
  BY CalibAssumption, PricingAssumption
<1>4. Dollar \in Nat \ {0}
  <2>1. w.cost > 0
    BY DEF Windows
  <2>2. Dollar # 0
    <3>1. 0 * c = 0
      OBVIOUS
    <3> QED BY <1>2, <2>1, <3>1
  <2> QED BY <1>3, <2>2
<1>5. /\ Dollar * c \in Nat
      /\ (Dollar * x * (MinRunDW - 1)) * dw < MinRunDW * (Dollar * c)
      /\ MinRunDW * (Dollar * c) < (Dollar * x * (MinRunDW + 1)) * dw
  BY <1>1, <1>2, <1>3, <1>4, BoundsIs
<1>6. dw # 0
  BY <1>1, <1>3
<1>7. /\ w.cost \in Nat
      /\ (Dollar * x * (MinRunDW - 1)) * dw < MinRunDW * w.cost
      /\ MinRunDW * w.cost < (Dollar * x * (MinRunDW + 1)) * dw
  BY <1>2, <1>5, Zenon
<1> QED BY <1>1, <1>3, <1>4, <1>6, <1>7 DEF x, dw

-----------------------------------------------------------------------------
(***************************************************************************)
(* The rate that is pooled.                                                *)
(***************************************************************************)
LEMMA WindowsFinite == ASSUME ReadingsInv PROVE IsFiniteSet(Windows)
<1> DEFINE B == Boundaries(hist)
           Run(b) == boundaryRun(WkPoints(hist, b), b)
           runs == UNION {Run(b) : b \in B}
           Of(r) == [bnd |-> r.bnd, t0 |-> r.t0, t1 |-> r.t1, dw |-> r.dw,
                     cost |-> costBetween(decodeBlocks(Reported), r.t0, r.t1)]
           made == {Of(r) : r \in wkRuns(hist)}
<1>1. IsFiniteSet(B)
  <2> DEFINE f == [s \in hist |-> s.r.wkReset]
             all == {s.r.wkReset : s \in hist}
  <2>1. f \in Surjection(hist, all)
    BY DEF Surjection
  <2>2. IsFiniteSet(all)
    <3> HIDE DEF f, all
    <3> QED BY <2>1, FS_Surjection DEF ReadingsInv
  <2>3. B \subseteq all
    BY DEF Boundaries
  <2> HIDE DEF all, B
  <2> QED BY <2>2, <2>3, FS_Subset
<1>2. \A b \in B : IsFiniteSet(Run(b))
  <2> SUFFICES ASSUME NEW b \in B PROVE IsFiniteSet(Run(b))
    OBVIOUS
  <2>1. Run(b) = {} \/ \E r : Run(b) = {r}
    BY DEF boundaryRun
  <2> HIDE DEF Run
  <2> QED BY <2>1, FS_EmptySet, FS_Singleton
<1> HIDE DEF B, Run
<1>3. IsFiniteSet(runs)
  <2> DEFINE f == [b \in B |-> Run(b)]
             sets == {Run(b) : b \in B}
  <2>1. f \in Surjection(B, sets)
    BY DEF Surjection
  <2>2. \A T \in sets : IsFiniteSet(T)
    BY <1>2
  <2>3. IsFiniteSet(sets)
    <3> HIDE DEF f, sets
    <3> QED BY <1>1, <2>1, FS_Surjection
  <2> HIDE DEF sets
  <2>4. IsFiniteSet(UNION sets)
    BY <2>2, <2>3, FS_UNION
  <2> QED BY <2>4 DEF sets
<1>4. wkRuns(hist) \subseteq runs
  BY DEF wkRuns, B, Run
<1> HIDE DEF runs
<1>5. IsFiniteSet(wkRuns(hist))
  BY <1>3, <1>4, FS_Subset
<1>6. IsFiniteSet(made)
  <2> DEFINE f == [r \in wkRuns(hist) |-> Of(r)]
  <2> HIDE DEF Of
  <2>1. f \in Surjection(wkRuns(hist), made)
    BY DEF Surjection
  <2> HIDE DEF f, made
  <2> QED BY <1>5, <2>1, FS_Surjection
<1>7. Windows \subseteq made
  BY DEF Windows
<1> HIDE DEF made
<1> QED BY <1>6, <1>7, FS_Subset

LEMMA NewestIs ==
  ASSUME NEW ws, IsFiniteSet(ws), ws # {}, \A w \in ws : w.bnd \in Nat
  PROVE  Newest(ws) \in ws
<1> DEFINE f == [w \in ws |-> w.bnd]
           S == {w.bnd : w \in ws}
<1>1. f \in Surjection(ws, S)
  BY DEF Surjection
<1>2. S \in SUBSET Int /\ S # {} /\ \A w \in ws : w.bnd \in S
  OBVIOUS
<1>3. IsFiniteSet(S)
  <2> HIDE DEF f, S
  <2> QED BY <1>1, FS_Surjection
<1>4. PICK m \in S : \A n \in S : m >= n
  <2> HIDE DEF S
  <2> QED BY <1>2, <1>3, FiniteMax
<1>5. PICK w \in ws : w.bnd = m
  BY <1>4
<1>6. \A u \in ws : u.bnd <= w.bnd
  BY <1>2, <1>4, <1>5
<1> QED BY <1>5, <1>6 DEF Newest

ClimbsOf(ws) == [w \in ws |-> w.dw]

LEMMA ClimbSum ==
  ASSUME NEW ws, IsFiniteSet(ws), \A w \in ws : w.dw \in Int
  PROVE  MapThenSumSet(LAMBDA w : w.dw, ws) = Total(ClimbsOf(ws), ws)
<1> DEFINE f == ClimbsOf(ws)
           P(g) == g = [s \in SUBSET ws |-> IF s = {} THEN 0
                          ELSE OneOf(s).dw + g[s \ {OneOf(s)}]]
<1>1. MapThenSumSet(LAMBDA w : w.dw, ws) = (CHOOSE g : P(g))[ws]
  BY Zenon DEF OneOf, MapThenSumSet, MapThenFoldSet
<1>2. \A x \in ws : f[x] = x.dw /\ f[x] \in Int
  BY DEF ClimbsOf
<1>3. \A s \in SUBSET ws : s # {} => OneOf(s) \in ws
  BY DEF OneOf
<1> HIDE DEF f
<1>4. \A g : P(g) <=> Tallies(f, ws, g)
  BY <1>2, <1>3 DEF Tallies
<1>5. PICK g : Tallies(f, ws, g)
  BY <1>2, TallyExists
<1>6. P(g)
  BY <1>4, <1>5
<1> HIDE DEF P
<1>7. P(CHOOSE h : P(h))
  BY <1>6
<1>8. Tallies(f, ws, CHOOSE h : P(h))
  BY <1>4, <1>7
<1>9. Total(f, ws) = (CHOOSE h : P(h))[ws]
  BY <1>8, TotalIs
<1> QED BY <1>1, <1>9 DEF f

\* Windows of one rate together say what each of them says.
LEMMA PooledBounds ==
  ASSUME NEW ws, IsFiniteSet(ws), ws # {}, NEW lo \in Int, NEW hi \in Int, NEW M \in Nat,
         \A w \in ws : /\ w.cost \in Nat /\ w.dw \in Nat
                       /\ lo * w.dw < M * w.cost /\ M * w.cost < hi * w.dw
  PROVE  LET c == MapThenSumSet(LAMBDA w : w.cost, ws)
             d == MapThenSumSet(LAMBDA w : w.dw, ws)
         IN  c \in Int /\ d \in Int /\ lo * d < M * c /\ M * c < hi * d
<1> DEFINE C == CostOf(ws)
           d == ClimbsOf(ws)
           low == [w \in ws |-> lo * w.dw]
           mid == [w \in ws |-> M * w.cost]
           high == [w \in ws |-> hi * w.dw]
<1>1. /\ MapThenSumSet(LAMBDA w : w.cost, ws) = Total(C, ws)
      /\ MapThenSumSet(LAMBDA w : w.dw, ws) = Total(d, ws)
  BY CostSum, ClimbSum
<1>2. \A w \in ws : C[w] = w.cost /\ d[w] = w.dw /\ C[w] \in Int /\ d[w] \in Int
  BY DEF CostOf, ClimbsOf
<1> HIDE DEF C, d
<1>3. \A w \in ws : low[w] = lo * d[w] /\ mid[w] = M * C[w] /\ high[w] = hi * d[w]
  BY <1>2
<1>4. \A w \in ws : /\ low[w] \in Int /\ mid[w] \in Int /\ high[w] \in Int
                    /\ low[w] < mid[w] /\ mid[w] < high[w]
  <2> SUFFICES ASSUME NEW w \in ws
               PROVE  /\ low[w] \in Int /\ mid[w] \in Int /\ high[w] \in Int
                      /\ low[w] < mid[w] /\ mid[w] < high[w]
    OBVIOUS
  <2> DEFINE a == w.cost
             e == w.dw
  <2>1. a \in Nat /\ e \in Nat
    OBVIOUS
  <2>2. low[w] = lo * e /\ mid[w] = M * a /\ high[w] = hi * e
    OBVIOUS
  <2>3. lo * e < M * a /\ M * a < hi * e
    OBVIOUS
  <2> HIDE DEF a, e, low, mid, high
  <2>4. lo * e \in Int /\ M * a \in Int /\ hi * e \in Int
    BY <2>1, Z3
  <2> QED BY <2>2, <2>3, <2>4, Zenon
<1> HIDE DEF low, mid, high
<1>5. Total(C, ws) \in Int /\ Total(d, ws) \in Int
  BY <1>2, TotalOfOneOf
<1>6. Total(low, ws) = lo * Total(d, ws)
  BY <1>2, <1>3, TotalTimes
<1>7. Total(mid, ws) = M * Total(C, ws)
  <2>1. M \in Int
    OBVIOUS
  <2> QED BY <1>2, <1>3, <2>1, TotalTimes
<1>8. Total(high, ws) = hi * Total(d, ws)
  BY <1>2, <1>3, TotalTimes
<1>9. Total(low, ws) < Total(mid, ws)
  BY <1>4, TotalLess
<1>10. Total(mid, ws) < Total(high, ws)
  BY <1>4, TotalLess
<1> QED BY <1>1, <1>5, <1>6, <1>7, <1>8, <1>9, <1>10, Zenon

\* A rate far from the newest shows in the windows.
LEMMA ApartDisagree ==
  ASSUME BlocksInv, ReadingsInv, CostIsWithinEdges, NEW ws, ws \subseteq Windows,
         \A w \in ws : Plain(w), NEW w \in ws, NEW u \in ws, Apart(RateOf(w), RateOf(u))
  PROVE  Disagree(ws)
<1> DEFINE x == RateOf(u)
           y == RateOf(w)
           M == MinRunDW
           D == Dollar
           R == DisagreeRatio
<1>1. /\ w.dw \in Nat \ {0} /\ w.cost \in Nat /\ y \in Nat \ {0}
      /\ D \in Nat \ {0} /\ M \in Nat \ {0}
      /\ (D * y * (M - 1)) * w.dw < M * w.cost
      /\ M * w.cost < (D * y * (M + 1)) * w.dw
  BY WindowBounds
<1>2. /\ u.dw \in Nat \ {0} /\ u.cost \in Nat /\ x \in Nat \ {0}
      /\ (D * x * (M - 1)) * u.dw < M * u.cost
      /\ M * u.cost < (D * x * (M + 1)) * u.dw
  BY WindowBounds
<1>3. R \in Nat \ {0}
  BY PricingAssumption
<1>4. \/ (M - 1) * y >= R * (M + 1) * x
      \/ (M - 1) * x >= R * (M + 1) * y
  BY DEF Apart
<1> HIDE DEF x, y, M, D, R
<1>5. CASE (M - 1) * y >= R * (M + 1) * x
  <2>1. w.cost * u.dw > R * u.cost * w.dw
    BY <1>1, <1>2, <1>3, <1>5, DearerIs
  <2> QED BY <2>1, Zenon DEF Disagree, Dearer, R
<1>6. CASE (M - 1) * x >= R * (M + 1) * y
  <2>1. u.cost * w.dw > R * w.cost * u.dw
    BY <1>1, <1>2, <1>3, <1>6, DearerIs
  <2> QED BY <2>1, Zenon DEF Disagree, Dearer, R
<1> QED BY <1>4, <1>5, <1>6

\* While the rate stays, and once a window of a sharply different rate
\* calibrates, $/1% is that of the newest window but for the whole percents.
THEOREM RateIsReal == Spec => []RateIsTheNewest
<1>1. ASSUME BlocksInv, ReadingsInv, CostIsWithinEdges PROVE RateIsTheNewest
  <2> DEFINE ws == Windows
             new == Newest(ws)
             x == RateOf(new)
             M == MinRunDW
             D == Dollar
  <2>1. SUFFICES ASSUME ws # {}, \A w \in ws : Plain(w),
                        \/ \A w \in ws : RateOf(w) = x
                        \/ \E w \in ws : Apart(RateOf(w), x)
                 PROVE  M * Abs(compute.cost - D * x * compute.dw) < D * x * compute.dw
    BY DEF RateIsTheNewest, Plain
  <2>2. IsFiniteSet(ws)
    BY <1>1, WindowsFinite
  <2>3. \A w \in ws : w.bnd \in Nat
    BY <1>1, <2>1, WindowBounds
  <2>4. new \in ws
    <3> HIDE DEF ws
    <3> QED BY <2>1, <2>2, <2>3, NewestIs
  <2> DEFINE pool == IF Disagree(ws) THEN {new} ELSE ws
  <2>5. /\ IsFiniteSet(pool) /\ pool # {} /\ pool \subseteq ws
        /\ \A w \in pool : RateOf(w) = x
    <3>1. CASE Disagree(ws)
      <4>1. pool = {new}
        BY <3>1
      <4> HIDE DEF pool, ws
      <4> QED BY <2>4, <4>1, FS_Singleton
    <3>2. CASE ~ Disagree(ws)
      <4>1. pool = ws
        BY <3>2
      <4>2. ~ \E w \in ws : Apart(RateOf(w), x)
        BY <1>1, <2>1, <2>4, <3>2, ApartDisagree
      <4> HIDE DEF pool, ws
      <4> QED BY <2>1, <2>2, <4>1, <4>2
    <3> QED BY <3>1, <3>2
  <2>6. /\ compute.cost = MapThenSumSet(LAMBDA w : w.cost, pool)
        /\ compute.dw = MapThenSumSet(LAMBDA w : w.dw, pool)
    BY DEF compute, combineWindows
  <2>7. x \in Nat \ {0} /\ D \in Nat \ {0} /\ M \in Nat \ {0}
    BY <1>1, <2>1, <2>4, WindowBounds
  <2> HIDE DEF pool
  <2> DEFINE lo == D * x * (M - 1)
             hi == D * x * (M + 1)
  <2>8. \A w \in pool : /\ w.cost \in Nat /\ w.dw \in Nat
                        /\ lo * w.dw < M * w.cost /\ M * w.cost < hi * w.dw
    <3> SUFFICES ASSUME NEW w \in pool
                 PROVE  /\ w.cost \in Nat /\ w.dw \in Nat
                        /\ lo * w.dw < M * w.cost /\ M * w.cost < hi * w.dw
      OBVIOUS
    <3>1. w \in Windows /\ Plain(w) /\ RateOf(w) = x
      BY <2>1, <2>5
    <3>2. /\ w.dw \in Nat \ {0} /\ w.cost \in Nat
          /\ (D * RateOf(w) * (M - 1)) * w.dw < M * w.cost
          /\ M * w.cost < (D * RateOf(w) * (M + 1)) * w.dw
      BY <1>1, <3>1, WindowBounds
    <3> HIDE DEF x, D, M
    <3> QED BY <3>1, <3>2, Zenon
  <2> DEFINE c == compute.cost
             d == compute.dw
  <2> HIDE DEF x, D, M
  <2>9. lo \in Int /\ hi \in Int
    BY <2>7, Z3
  <2> HIDE DEF lo, hi
  <2>10. c \in Int /\ d \in Int /\ lo * d < M * c /\ M * c < hi * d
    BY <2>5, <2>6, <2>7, <2>8, <2>9, PooledBounds
  <2> HIDE DEF c, d
  <2>11. M * Abs(c - D * x * d) < D * x * d
    <3> DEFINE e == D * x * d
               me == M * e
               mc == M * c
    <3>1. /\ e \in Int /\ me \in Int /\ mc \in Int
          /\ lo * d = me - e /\ hi * d = me + e
      BY <2>7, <2>10, Z3 DEF lo, hi
    <3>2. M * (c - e) = mc - me /\ M * (-(c - e)) = me - mc
      BY <2>7, <2>10, <3>1, Z3
    <3>3. me - e < mc /\ mc < me + e
      BY <2>10, <3>1, Zenon
    <3> HIDE DEF e, me, mc
    <3>4. mc - me < e /\ me - mc < e
      BY <3>1, <3>3
    <3>5. Abs(c - e) = c - e \/ Abs(c - e) = -(c - e)
      BY DEF Abs
    <3>6. M * Abs(c - e) < e
      BY <3>2, <3>4, <3>5, Zenon
    <3> QED BY <3>6 DEF e
  <2> QED BY <2>11 DEF c, d
<1> QED BY <1>1, BlocksInvariant, ReadingsInvariant, ChargedIsReal, PTL

=============================================================================
