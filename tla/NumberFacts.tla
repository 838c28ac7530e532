---------------------------- MODULE NumberFacts ----------------------------
(***************************************************************************)
(* Facts about numbers that the proofs about several components need: the  *)
(* greatest of a bounded set, induction in the form of a set of            *)
(* counterexamples, division, sums over finite sets.                       *)
(***************************************************************************)
EXTENDS FiniteSetsExt, FiniteSetTheorems, WellFoundedInduction, TLAPS

\* A set of numbers has a least one.
LEMMA LeastIsIn ==
  ASSUME NEW S \in SUBSET Nat, S # {}
  PROVE  \E n \in S : \A m \in S : n <= m
<1>1. PICK n \in S : \A m \in S : ~ (<<m, n>> \in OpToRel(<, Nat))
  BY NatLessThanWellFounded, WFMin
<1>2. \A m \in S : ~ m < n
  BY <1>1 DEF OpToRel
<1> QED BY <1>2

\* Induction: a set of numbers that has 0, and n + 1 with n, has all.
LEMMA AllNumbers ==
  ASSUME NEW S \in SUBSET Nat, 0 \in S, \A n \in S : n + 1 \in S
  PROVE  S = Nat
<1>1. SUFFICES ASSUME Nat \ S # {} PROVE FALSE
  OBVIOUS
<1>2. PICK n \in Nat \ S : \A m \in Nat \ S : n <= m
  BY <1>1, LeastIsIn
<1>3. n # 0 /\ n - 1 \in Nat
  BY <1>2
<1>4. n - 1 \in S
  BY <1>2, <1>3
<1> QED BY <1>2, <1>3, <1>4

\* A bounded set of numbers has a greatest one.
LEMMA MaxIsIn ==
  ASSUME NEW S \in SUBSET Nat, S # {}, NEW bound \in Nat, \A n \in S : n <= bound
  PROVE  Max(S) \in S /\ \A n \in S : n <= Max(S)
<1> DEFINE T == {b \in Nat : \A n \in S : n <= b}
<1>1. T \subseteq Nat /\ T # {}
  OBVIOUS
<1>2. PICK b \in T : \A c \in T : b <= c
  BY <1>1, LeastIsIn
<1>3. b \in S
  <2>1. SUFFICES ASSUME b \notin S PROVE FALSE
    OBVIOUS
  <2>2. \A n \in S : n <= b - 1
    BY <2>1
  <2>3. PICK n \in S : n <= b - 1
    BY <2>2
  <2>4. b - 1 \in Nat
    BY <2>3
  <2>5. b - 1 \in T
    BY <2>2, <2>4
  <2> QED BY <1>2, <2>4, <2>5
<1>4. \E x \in S : \A y \in S : x >= y
  BY <1>3
<1>5. Max(S) \in S /\ \A y \in S : Max(S) >= y
  BY <1>4 DEF Max
<1> QED BY <1>5

\* A finite set of numbers has a greatest one.
LEMMA FiniteMax ==
  ASSUME NEW S \in SUBSET Int, S # {}, IsFiniteSet(S)
  PROVE  Max(S) \in S /\ \A n \in S : n <= Max(S)
<1> DEFINE c == Cardinality(S)
<1>1. c \in Nat /\ ExistsBijection(1 .. c, S)
  BY FS_CardinalityType
<1>2. c # 0
  BY FS_EmptySet
<1> HIDE DEF c
<1>3. PICK f \in [1 .. c -> S] : \A n \in S : \E i \in 1 .. c : f[i] = n
  BY <1>1 DEF ExistsBijection, Bijection, Surjection
<1> DEFINE Tops(k) == k \in 1 .. c => \E m \in 1 .. c : \A i \in 1 .. k : f[i] <= f[m]
           T == {k \in Nat : Tops(k)}
<1>4. 0 \in T
  OBVIOUS
<1>5. ASSUME NEW k \in T PROVE k + 1 \in T
  <2>1. SUFFICES ASSUME k + 1 \in 1 .. c
                 PROVE  \E m \in 1 .. c : \A i \in 1 .. k + 1 : f[i] <= f[m]
    BY <1>1
  <2>2. \A i \in 1 .. c : f[i] \in Int
    OBVIOUS
  <2>3. CASE k = 0
    BY <1>1, <2>1, <2>2, <2>3
  <2>4. CASE k \in 1 .. c
    <3>1. PICK m \in 1 .. c : \A i \in 1 .. k : f[i] <= f[m]
      BY <2>4
    <3>2. \A i \in 1 .. k + 1 : i \in 1 .. k \/ i = k + 1
      OBVIOUS
    <3>3. CASE f[k + 1] <= f[m]
      BY <3>1, <3>2, <3>3
    <3>4. CASE f[m] <= f[k + 1]
      <4>1. ASSUME NEW i \in 1 .. k PROVE f[i] <= f[k + 1]
        <5>1. i \in 1 .. c /\ f[i] <= f[m]
          BY <1>1, <2>4, <3>1
        <5> QED BY <2>1, <2>2, <3>4, <5>1
      <4> QED BY <2>1, <2>2, <3>2, <4>1
    <3> QED BY <2>1, <2>2, <3>3, <3>4
  <2> QED BY <1>1, <2>1, <2>3, <2>4
<1>6. T = Nat
  <2>1. T \in SUBSET Nat
    OBVIOUS
  <2> HIDE DEF T
  <2> QED BY <1>4, <1>5, <2>1, AllNumbers
<1>7. PICK m \in 1 .. c : \A i \in 1 .. c : f[i] <= f[m]
  <2>1. c \in T /\ c \in 1 .. c
    <3> HIDE DEF T
    <3> QED BY <1>1, <1>2, <1>6
  <2> QED BY <2>1
<1>8. f[m] \in S /\ \A n \in S : f[m] >= n
  BY <1>3, <1>7
<1>9. Max(S) \in S /\ \A n \in S : Max(S) >= n
  BY <1>8 DEF Max
<1> QED BY <1>9

\* Division rounds down.
LEMMA Division ==
  ASSUME NEW a \in Int, NEW b \in Nat \ {0}
  PROVE  /\ a \div b \in Int
         /\ (a \div b) * b <= a /\ a < (a \div b + 1) * b
         /\ a \in Nat => a \div b \in Nat
         /\ a % b \in 0 .. b - 1
BY Z3

\* A time before the end of part w of a division in parts is in w or earlier.
LEMMA PartOf ==
  ASSUME NEW t \in Nat, NEW size \in Nat \ {0}, NEW w \in Nat, (w + 1) * size > t
  PROVE  w >= t \div size
<1>1. t \div size \in Nat /\ (t \div size) * size <= t
  BY Division
<1>2. SUFFICES ASSUME w + 1 <= t \div size PROVE FALSE
  BY <1>1
<1>3. (w + 1) * size <= (t \div size) * size
  BY <1>1, <1>2, Z3
<1> QED BY <1>1, <1>3

-----------------------------------------------------------------------------
(***************************************************************************)
(* Sums over finite sets.                                                  *)
(***************************************************************************)
\* Induction: a family of subsets of S that has {}, and s with one element
\* more if it has s, has S.
LEMMA AllOfIt ==
  ASSUME NEW S, IsFiniteSet(S), NEW F \in SUBSET (SUBSET S), {} \in F,
         \A s \in F : \A x \in S \ s : s \union {x} \in F
  PROVE  S \in F
<1> DEFINE Has(n) == \A s \in SUBSET S : Cardinality(s) = n => s \in F
           N == {n \in Nat : Has(n)}
<1>1. \A s \in SUBSET S : IsFiniteSet(s) /\ Cardinality(s) \in Nat
  BY FS_Subset, FS_CardinalityType
<1>2. 0 \in N
  BY <1>1, FS_EmptySet
<1>3. ASSUME NEW n \in N PROVE n + 1 \in N
  <2>1. SUFFICES ASSUME NEW s \in SUBSET S, Cardinality(s) = n + 1 PROVE s \in F
    OBVIOUS
  <2>0. n \in Nat /\ n + 1 # 0
    OBVIOUS
  <2>2. s # {}
    BY <2>0, <2>1, FS_EmptySet
  <2>3. PICK x \in s : TRUE
    BY <2>2
  <2>4. Cardinality(s \ {x}) = n
    <3>1. Cardinality(s \ {x}) = Cardinality(s) - 1
      BY <1>1, FS_RemoveElement
    <3> QED BY <2>0, <2>1, <3>1
  <2>5. s \ {x} \in F /\ x \in S \ (s \ {x})
    BY <2>4
  <2>6. (s \ {x}) \union {x} \in F
    BY <2>5
  <2>7. (s \ {x}) \union {x} = s
    OBVIOUS
  <2> QED BY <2>6, <2>7
<1>4. N = Nat
  <2>1. N \in SUBSET Nat
    OBVIOUS
  <2> HIDE DEF N
  <2> QED BY <1>2, <1>3, <2>1, AllNumbers
<1>5. Has(Cardinality(S))
  BY <1>1, <1>4
<1> QED BY <1>5

Total(f, S) == MapThenSumSet(LAMBDA x : f[x], S)

\* One element after another.
OneOf(s) == CHOOSE x \in s : TRUE

Tallies(f, S, g) ==
  g = [s \in SUBSET S |-> IF s = {} THEN 0 ELSE f[OneOf(s)] + g[s \ {OneOf(s)}]]

LEMMA TotalTally ==
  ASSUME NEW f, NEW S PROVE Total(f, S) = (CHOOSE g : Tallies(f, S, g))[S]
BY Zenon DEF Total, Tallies, OneOf, MapThenSumSet, MapThenFoldSet

LEMMA TallyOnce ==
  ASSUME NEW f, NEW S, IsFiniteSet(S), NEW g, Tallies(f, S, g), NEW h, Tallies(f, S, h)
  PROVE  g = h
<1> DEFINE Same(n) == \A s \in SUBSET S : Cardinality(s) = n => g[s] = h[s]
           N == {n \in Nat : Same(n)}
<1>1. \A s \in SUBSET S : IsFiniteSet(s) /\ Cardinality(s) \in Nat
  BY FS_Subset, FS_CardinalityType
<1>2. \A s \in SUBSET S :
        /\ g[s] = IF s = {} THEN 0 ELSE f[OneOf(s)] + g[s \ {OneOf(s)}]
        /\ h[s] = IF s = {} THEN 0 ELSE f[OneOf(s)] + h[s \ {OneOf(s)}]
  BY DEF Tallies
<1>3. 0 \in N
  BY <1>1, <1>2, FS_EmptySet
<1>4. ASSUME NEW n \in N PROVE n + 1 \in N
  <2>1. SUFFICES ASSUME NEW s \in SUBSET S, Cardinality(s) = n + 1 PROVE g[s] = h[s]
    OBVIOUS
  <2>0. n \in Nat /\ n + 1 # 0
    OBVIOUS
  <2>2. s # {}
    BY <2>0, <2>1, FS_EmptySet
  <2>3. OneOf(s) \in s
    BY <2>2 DEF OneOf
  <2>4. Cardinality(s \ {OneOf(s)}) = n
    <3>1. Cardinality(s \ {OneOf(s)}) = Cardinality(s) - 1
      BY <1>1, <2>3, FS_RemoveElement
    <3> QED BY <2>0, <2>1, <3>1
  <2>5. g[s \ {OneOf(s)}] = h[s \ {OneOf(s)}]
    BY <2>4
  <2> QED BY <1>2, <2>2, <2>5
<1>5. N = Nat
  <2>1. N \in SUBSET Nat
    OBVIOUS
  <2> HIDE DEF N
  <2> QED BY <1>3, <1>4, <2>1, AllNumbers
<1>6. \A s \in SUBSET S : g[s] = h[s]
  BY <1>1, <1>5
<1>7. g = [s \in SUBSET S |-> g[s]] /\ h = [s \in SUBSET S |-> h[s]]
  BY DEF Tallies
<1> QED BY <1>6, <1>7

LEMMA TallyExists ==
  ASSUME NEW f, NEW S, IsFiniteSet(S), \A x \in S : f[x] \in Int
  PROVE  \E g \in [SUBSET S -> Int] : Tallies(f, S, g)
<1> DEFINE Body(g, s) == IF s = {} THEN 0 ELSE f[OneOf(s)] + g[s \ {OneOf(s)}]
           Upto(n) == \E g \in [SUBSET S -> Int] :
                        \A s \in SUBSET S : Cardinality(s) <= n => g[s] = Body(g, s)
           N == {n \in Nat : Upto(n)}
<1>1. \A s \in SUBSET S : IsFiniteSet(s) /\ Cardinality(s) \in Nat
  BY FS_Subset, FS_CardinalityType
<1>2. \A s \in SUBSET S : s # {} =>
        /\ OneOf(s) \in s /\ f[OneOf(s)] \in Int
        /\ s \ {OneOf(s)} \in SUBSET S
        /\ Cardinality(s \ {OneOf(s)}) = Cardinality(s) - 1
  <2>1. ASSUME NEW s \in SUBSET S, s # {}
        PROVE  /\ OneOf(s) \in s /\ f[OneOf(s)] \in Int
               /\ s \ {OneOf(s)} \in SUBSET S
               /\ Cardinality(s \ {OneOf(s)}) = Cardinality(s) - 1
    <3>1. OneOf(s) \in s
      BY <2>1 DEF OneOf
    <3>2. Cardinality(s \ {OneOf(s)}) = Cardinality(s) - 1
      BY <1>1, <3>1, FS_RemoveElement
    <3> QED BY <3>1, <3>2
  <2> QED BY <2>1
<1>3. 0 \in N
  <2> DEFINE g == [s \in SUBSET S |-> 0]
  <2>1. g \in [SUBSET S -> Int] /\ \A s \in SUBSET S : Cardinality(s) <= 0 => g[s] = Body(g, s)
    BY <1>1, FS_EmptySet
  <2> QED BY <2>1
<1>4. ASSUME NEW n \in N PROVE n + 1 \in N
  <2>1. PICK g \in [SUBSET S -> Int] :
          \A s \in SUBSET S : Cardinality(s) <= n => g[s] = Body(g, s)
    OBVIOUS
  <2> DEFINE h == [s \in SUBSET S |-> Body(g, s)]
  <2>2. h \in [SUBSET S -> Int]
    <3>1. ASSUME NEW s \in SUBSET S PROVE Body(g, s) \in Int
      <4>1. CASE s = {}
        BY <4>1
      <4>2. CASE s # {}
        <5>1. f[OneOf(s)] \in Int /\ s \ {OneOf(s)} \in SUBSET S
          BY <1>2, <4>2
        <5>2. g[s \ {OneOf(s)}] \in Int
          BY <2>1, <5>1
        <5> QED BY <4>2, <5>1, <5>2
      <4> QED BY <4>1, <4>2
    <3> QED BY <3>1
  <2>3. ASSUME NEW s \in SUBSET S, Cardinality(s) <= n + 1 PROVE h[s] = Body(h, s)
    <3>1. CASE s = {}
      BY <3>1
    <3>2. CASE s # {}
      <4> DEFINE r == s \ {OneOf(s)}
      <4>1. r \in SUBSET S /\ Cardinality(r) <= n
        BY <1>1, <1>2, <2>3, <3>2
      <4>2. h[r] = g[r]
        <5>1. g[r] = Body(g, r)
          BY <2>1, <4>1
        <5>2. h[r] = Body(g, r)
          BY <4>1
        <5> QED BY <5>1, <5>2
      <4>3. h[s] = f[OneOf(s)] + g[r]
        BY <3>2
      <4>4. Body(h, s) = f[OneOf(s)] + h[r]
        BY <3>2
      <4> HIDE DEF h, r, Body
      <4> QED BY <4>2, <4>3, <4>4
    <3> QED BY <3>1, <3>2
  <2>4. Upto(n + 1)
    <3> HIDE DEF h, Body
    <3> QED BY <2>2, <2>3
  <2>5. n + 1 \in Nat
    OBVIOUS
  <2> HIDE DEF Upto
  <2> QED BY <2>4, <2>5
<1>5. N = Nat
  <2>1. N \in SUBSET Nat
    OBVIOUS
  <2> HIDE DEF N
  <2> QED BY <1>3, <1>4, <2>1, AllNumbers
<1>6. PICK g \in [SUBSET S -> Int] :
        \A s \in SUBSET S : Cardinality(s) <= Cardinality(S) => g[s] = Body(g, s)
  <2>1. Upto(Cardinality(S))
    BY <1>1, <1>5
  <2> QED BY <2>1
<1>7. \A s \in SUBSET S : g[s] = Body(g, s)
  <2>1. \A s \in SUBSET S : Cardinality(s) <= Cardinality(S)
    BY FS_Subset
  <2> QED BY <1>6, <2>1
<1>8. g = [s \in SUBSET S |-> Body(g, s)]
  BY <1>6, <1>7
<1> QED BY <1>6, <1>8 DEF Tallies

\* A total is the total of all but one element, and that one.
LEMMA TotalOfOneOf ==
  ASSUME NEW f, NEW S, IsFiniteSet(S), \A x \in S : f[x] \in Int
  PROVE  /\ Total(f, S) \in Int
         /\ S = {} => Total(f, S) = 0
         /\ S # {} => Total(f, S) = f[OneOf(S)] + Total(f, S \ {OneOf(S)})
<1>1. PICK g \in [SUBSET S -> Int] : Tallies(f, S, g)
  BY TallyExists
<1>2. Total(f, S) = g[S]
  <2>1. Tallies(f, S, CHOOSE h : Tallies(f, S, h))
    BY <1>1
  <2>2. (CHOOSE h : Tallies(f, S, h)) = g
    BY <1>1, <2>1, TallyOnce
  <2> QED BY <2>2, TotalTally
<1>3. \A s \in SUBSET S : g[s] = IF s = {} THEN 0 ELSE f[OneOf(s)] + g[s \ {OneOf(s)}]
  BY <1>1 DEF Tallies
<1>4. CASE S = {}
  <2>1. S \in SUBSET S
    OBVIOUS
  <2>2. g[S] = 0
    BY <1>3, <1>4, <2>1
  <2> QED BY <1>2, <1>4, <2>2
<1>5. CASE S # {}
  <2> DEFINE R == S \ {OneOf(S)}
             h == [s \in SUBSET R |-> g[s]]
  <2>1. IsFiniteSet(R) /\ R \in SUBSET S /\ SUBSET R \subseteq SUBSET S
    BY FS_Subset
  <2>2. Tallies(f, R, h)
    <3>1. ASSUME NEW s \in SUBSET R
          PROVE  g[s] = IF s = {} THEN 0 ELSE f[OneOf(s)] + h[s \ {OneOf(s)}]
      <4>1. s \in SUBSET S /\ s \ {OneOf(s)} \in SUBSET R
        BY <2>1
      <4>2. h[s \ {OneOf(s)}] = g[s \ {OneOf(s)}]
        BY <4>1
      <4> QED BY <1>3, <4>1, <4>2
    <3>2. h = [s \in SUBSET R |-> IF s = {} THEN 0 ELSE f[OneOf(s)] + h[s \ {OneOf(s)}]]
      BY <3>1
    <3> QED BY <3>2 DEF Tallies
  <2>3. Total(f, R) = h[R]
    <3>1. Tallies(f, R, CHOOSE k : Tallies(f, R, k))
      BY <2>2
    <3>2. (CHOOSE k : Tallies(f, R, k)) = h
      BY <2>1, <2>2, <3>1, TallyOnce
    <3> QED BY <3>2, TotalTally
  <2>4. h[R] = g[R]
    OBVIOUS
  <2>5. g[S] = f[OneOf(S)] + g[R]
    BY <1>3, <1>5
  <2>6. g[S] \in Int
    BY <1>1
  <2> QED BY <1>2, <1>5, <2>3, <2>4, <2>5, <2>6
<1> QED BY <1>4, <1>5

LEMMA TotalIs ==
  ASSUME NEW f, NEW S, IsFiniteSet(S), NEW g, Tallies(f, S, g)
  PROVE  Total(f, S) = g[S]
<1>1. Tallies(f, S, CHOOSE h : Tallies(f, S, h))
  OBVIOUS
<1>2. (CHOOSE h : Tallies(f, S, h)) = g
  BY <1>1, TallyOnce
<1> QED BY <1>2, TotalTally

\* In any order.
LEMMA TotalOf ==
  ASSUME NEW f, NEW S, IsFiniteSet(S), \A x \in S : f[x] \in Int, NEW x \in S
  PROVE  Total(f, S) = f[x] + Total(f, S \ {x})
<1> DEFINE Any(n) == \A s \in SUBSET S : Cardinality(s) = n =>
                       \A y \in s : Total(f, s) = f[y] + Total(f, s \ {y})
           N == {n \in Nat : Any(n)}
<1>1. \A s \in SUBSET S : IsFiniteSet(s) /\ Cardinality(s) \in Nat
  BY FS_Subset, FS_CardinalityType
<1>2. ASSUME NEW s \in SUBSET S
      PROVE  /\ Total(f, s) \in Int
             /\ s # {} => OneOf(s) \in s /\ Total(f, s) = f[OneOf(s)] + Total(f, s \ {OneOf(s)})
  <2>1. IsFiniteSet(s) /\ \A y \in s : f[y] \in Int
    BY <1>1
  <2> QED BY <2>1, TotalOfOneOf DEF OneOf
<1>3. 0 \in N
  BY <1>1, FS_EmptySet
<1>4. ASSUME NEW n \in N PROVE n + 1 \in N
  <2>0. n \in Nat /\ n + 1 \in Nat /\ Any(n)
    OBVIOUS
  <2>1. SUFFICES ASSUME NEW s \in SUBSET S, Cardinality(s) = n + 1, NEW y \in s
                 PROVE  Total(f, s) = f[y] + Total(f, s \ {y})
    BY <2>0
  <2> DEFINE p == OneOf(s)
             rest == s \ {p, y}
  <2>2. p \in s /\ Total(f, s) = f[p] + Total(f, s \ {p})
    BY <1>2
  <2> HIDE DEF p, Any
  <2>3. CASE y = p
    BY <2>2, <2>3
  <2>4. CASE y # p
    <3>1. Cardinality(s \ {p}) = Cardinality(s) - 1
      BY <1>1, <2>2, FS_RemoveElement
    <3>2. Cardinality(s \ {y}) = Cardinality(s) - 1
      BY <1>1, FS_RemoveElement
    <3>3. Cardinality(s \ {p}) = n /\ Cardinality(s \ {y}) = n
      BY <2>0, <2>1, <3>1, <3>2
    <3>4. Total(f, s \ {p}) = f[y] + Total(f, (s \ {p}) \ {y})
      <4>1. y \in s \ {p} /\ s \ {p} \in SUBSET S
        BY <2>4
      <4> QED BY <2>0, <3>3, <4>1 DEF Any
    <3>5. Total(f, s \ {y}) = f[p] + Total(f, (s \ {y}) \ {p})
      <4>1. p \in s \ {y} /\ s \ {y} \in SUBSET S
        BY <2>2, <2>4
      <4> QED BY <2>0, <3>3, <4>1 DEF Any
    <3>6. (s \ {p}) \ {y} = rest /\ (s \ {y}) \ {p} = rest
      OBVIOUS
    <3>7. f[p] \in Int /\ f[y] \in Int /\ Total(f, rest) \in Int
      <4>1. rest \in SUBSET S
        OBVIOUS
      <4> QED BY <1>2, <2>2, <4>1
    <3> HIDE DEF rest
    <3>8. Total(f, s) = f[p] + (f[y] + Total(f, rest))
      BY <2>2, <3>4, <3>6
    <3>9. Total(f, s \ {y}) = f[p] + Total(f, rest)
      BY <3>5, <3>6
    <3> QED BY <3>7, <3>8, <3>9
  <2> QED BY <2>3, <2>4
<1>5. N = Nat
  <2>1. N \in SUBSET Nat
    OBVIOUS
  <2> HIDE DEF N
  <2> QED BY <1>3, <1>4, <2>1, AllNumbers
<1>6. Any(Cardinality(S))
  BY <1>1, <1>5
<1> QED BY <1>6

LEMMA TotalAdd ==
  ASSUME NEW f, NEW S, IsFiniteSet(S), NEW x, x \notin S, \A y \in S \union {x} : f[y] \in Int
  PROVE  /\ Total(f, S) \in Int /\ Total(f, S \union {x}) \in Int
         /\ Total(f, S \union {x}) = f[x] + Total(f, S)
<1>1. IsFiniteSet(S \union {x})
  BY FS_AddElement
<1>2. (S \union {x}) \ {x} = S /\ x \in S \union {x}
  OBVIOUS
<1>3. Total(f, S \union {x}) = f[x] + Total(f, (S \union {x}) \ {x})
  BY <1>1, <1>2, TotalOf
<1>4. Total(f, S) \in Int /\ Total(f, S \union {x}) \in Int
  BY <1>1, TotalOfOneOf
<1> QED BY <1>2, <1>3, <1>4

LEMMA TotalEmpty == ASSUME NEW f PROVE Total(f, {}) = 0
BY TotalOfOneOf, FS_EmptySet

\* Totals of what is not greater.
LEMMA TotalOrder ==
  ASSUME NEW S, IsFiniteSet(S), NEW f, NEW g,
         \A x \in S : f[x] \in Int /\ g[x] \in Int /\ f[x] <= g[x]
  PROVE  /\ Total(f, S) \in Int /\ Total(g, S) \in Int
         /\ Total(f, S) <= Total(g, S)
<1> DEFINE F == {s \in SUBSET S : Total(f, s) <= Total(g, s)}
<1>1. \A s \in SUBSET S : IsFiniteSet(s) /\ Total(f, s) \in Int /\ Total(g, s) \in Int
  <2>1. ASSUME NEW s \in SUBSET S
        PROVE  IsFiniteSet(s) /\ Total(f, s) \in Int /\ Total(g, s) \in Int
    <3>1. IsFiniteSet(s)
      BY FS_Subset
    <3> QED BY <3>1, TotalOfOneOf
  <2> QED BY <2>1
<1>2. {} \in F
  BY TotalEmpty
<1>3. ASSUME NEW s \in F, NEW x \in S \ s PROVE s \union {x} \in F
  <2>1. Total(f, s \union {x}) = f[x] + Total(f, s)
    BY <1>1, TotalAdd
  <2>2. Total(g, s \union {x}) = g[x] + Total(g, s)
    BY <1>1, TotalAdd
  <2>3. Total(f, s) <= Total(g, s) /\ s \in SUBSET S
    OBVIOUS
  <2>4. Total(f, s \union {x}) <= Total(g, s \union {x})
    BY <1>1, <2>1, <2>2, <2>3
  <2> QED BY <2>3, <2>4
<1>4. S \in F
  <2>1. F \in SUBSET (SUBSET S)
    OBVIOUS
  <2> HIDE DEF F
  <2> QED BY <1>2, <1>3, <2>1, AllOfIt
<1> QED BY <1>1, <1>4

LEMMA TotalSame ==
  ASSUME NEW S, IsFiniteSet(S), NEW f, NEW g, \A x \in S : f[x] \in Int /\ f[x] = g[x]
  PROVE  Total(f, S) = Total(g, S)
<1>1. /\ Total(f, S) \in Int /\ Total(g, S) \in Int /\ Total(f, S) <= Total(g, S)
  BY TotalOrder
<1>2. Total(g, S) <= Total(f, S)
  BY TotalOrder
<1> QED BY <1>1, <1>2

\* Totals of numbers from 0.
LEMMA TotalNat ==
  ASSUME NEW S, IsFiniteSet(S), NEW f, \A x \in S : f[x] \in Nat
  PROVE  Total(f, S) \in Nat
<1> DEFINE F == {s \in SUBSET S : Total(f, s) \in Nat}
<1>1. {} \in F
  BY TotalEmpty
<1>2. ASSUME NEW s \in F, NEW x \in S \ s PROVE s \union {x} \in F
  <2>1. IsFiniteSet(s) /\ s \in SUBSET S /\ Total(f, s) \in Nat
    BY FS_Subset
  <2>2. Total(f, s \union {x}) = f[x] + Total(f, s)
    BY <2>1, TotalAdd
  <2> QED BY <2>1, <2>2
<1>3. S \in F
  <2>1. F \in SUBSET (SUBSET S)
    OBVIOUS
  <2> HIDE DEF F
  <2> QED BY <1>1, <1>2, <2>1, AllOfIt
<1> QED BY <1>3

LEMMA TotalZero ==
  ASSUME NEW S, IsFiniteSet(S), NEW f, \A x \in S : f[x] = 0
  PROVE  Total(f, S) = 0
<1> DEFINE F == {s \in SUBSET S : Total(f, s) = 0}
<1>1. {} \in F
  BY TotalEmpty
<1>2. ASSUME NEW s \in F, NEW x \in S \ s PROVE s \union {x} \in F
  <2>1. IsFiniteSet(s) /\ s \in SUBSET S /\ Total(f, s) = 0
    BY FS_Subset
  <2>2. Total(f, s \union {x}) = f[x] + Total(f, s)
    BY <2>1, TotalAdd
  <2> QED BY <2>1, <2>2
<1>3. S \in F
  <2>1. F \in SUBSET (SUBSET S)
    OBVIOUS
  <2> HIDE DEF F
  <2> QED BY <1>1, <1>2, <2>1, AllOfIt
<1> QED BY <1>3

LEMMA TotalUnion ==
  ASSUME NEW A, IsFiniteSet(A), NEW B, IsFiniteSet(B), A \cap B = {},
         NEW f, \A x \in A \union B : f[x] \in Int
  PROVE  /\ Total(f, A) \in Int /\ Total(f, B) \in Int
         /\ Total(f, A \union B) = Total(f, A) + Total(f, B)
<1> DEFINE F == {s \in SUBSET B : Total(f, A \union s) = Total(f, A) + Total(f, s)}
<1>1. Total(f, A) \in Int /\ Total(f, B) \in Int
  BY TotalOfOneOf
<1>2. {} \in F
  <2>1. A \union {} = A
    OBVIOUS
  <2> QED BY <1>1, <2>1, TotalEmpty
<1>3. ASSUME NEW s \in F, NEW x \in B \ s PROVE s \union {x} \in F
  <2>1. /\ IsFiniteSet(s) /\ s \in SUBSET B /\ IsFiniteSet(A \union s)
        /\ Total(f, A \union s) = Total(f, A) + Total(f, s)
    BY FS_Subset, FS_Union
  <2>2. Total(f, s \union {x}) = f[x] + Total(f, s) /\ Total(f, s) \in Int /\ f[x] \in Int
    BY <2>1, TotalAdd
  <2>3. Total(f, (A \union s) \union {x}) = f[x] + Total(f, A \union s)
    BY <2>1, TotalAdd
  <2>4. (A \union s) \union {x} = A \union (s \union {x})
    OBVIOUS
  <2>5. Total(f, A \union (s \union {x})) = f[x] + (Total(f, A) + Total(f, s))
    BY <2>1, <2>3, <2>4
  <2>6. Total(f, A \union (s \union {x})) = Total(f, A) + Total(f, s \union {x})
    BY <1>1, <2>2, <2>5
  <2> QED BY <2>1, <2>6
<1>4. B \in F
  <2>1. F \in SUBSET (SUBSET B)
    OBVIOUS
  <2> HIDE DEF F
  <2> QED BY <1>2, <1>3, <2>1, AllOfIt
<1> QED BY <1>1, <1>4

LEMMA TotalPart ==
  ASSUME NEW S, IsFiniteSet(S), NEW A \in SUBSET S, NEW f, \A x \in S : f[x] \in Nat
  PROVE  /\ Total(f, A) \in Nat /\ Total(f, S) \in Nat /\ Total(f, A) <= Total(f, S)
<1>1. IsFiniteSet(A) /\ IsFiniteSet(S \ A)
  BY FS_Subset
<1>2. Total(f, A \union (S \ A)) = Total(f, A) + Total(f, S \ A)
  <2>1. A \cap (S \ A) = {} /\ \A x \in A \union (S \ A) : f[x] \in Int
    OBVIOUS
  <2> QED BY <1>1, <2>1, TotalUnion
<1>3. A \union (S \ A) = S
  OBVIOUS
<1>4. Total(f, A) \in Nat /\ Total(f, S \ A) \in Nat /\ Total(f, S) \in Nat
  BY <1>1, TotalNat
<1> QED BY <1>2, <1>3, <1>4

LEMMA TotalTimes ==
  ASSUME NEW S, IsFiniteSet(S), NEW f, \A x \in S : f[x] \in Int, NEW k \in Int,
         NEW g, \A x \in S : g[x] = k * f[x]
  PROVE  Total(f, S) \in Int /\ Total(g, S) = k * Total(f, S)
<1> DEFINE F == {s \in SUBSET S : Total(g, s) = k * Total(f, s)}
<1>1. {} \in F
  BY TotalEmpty
<1>2. ASSUME NEW s \in F, NEW x \in S \ s PROVE s \union {x} \in F
  <2>1. IsFiniteSet(s) /\ s \in SUBSET S /\ Total(g, s) = k * Total(f, s)
    BY FS_Subset
  <2>2. \A y \in S : g[y] \in Int
    BY Z3
  <2>3. Total(f, s \union {x}) = f[x] + Total(f, s) /\ Total(f, s) \in Int /\ f[x] \in Int
    BY <2>1, TotalAdd
  <2>4. Total(g, s \union {x}) = g[x] + Total(g, s)
    BY <2>1, <2>2, TotalAdd
  <2> DEFINE tf == Total(f, s)
             fx == f[x]
  <2>5. k * (fx + tf) = k * fx + k * tf
    <3> HIDE DEF tf, fx
    <3>1. tf \in Int /\ fx \in Int
      BY <2>3 DEF tf, fx
    <3> QED BY <3>1, Z3
  <2>6. Total(g, s \union {x}) = k * Total(f, s \union {x})
    BY <2>1, <2>3, <2>4, <2>5
  <2> QED BY <2>1, <2>6
<1>3. S \in F
  <2>1. F \in SUBSET (SUBSET S)
    OBVIOUS
  <2> HIDE DEF F
  <2> QED BY <1>1, <1>2, <2>1, AllOfIt
<1> QED BY <1>3, TotalOfOneOf

\* Totals of what is less.
LEMMA TotalLess ==
  ASSUME NEW S, IsFiniteSet(S), S # {}, NEW f, NEW g,
         \A x \in S : f[x] \in Int /\ g[x] \in Int /\ f[x] < g[x]
  PROVE  /\ Total(f, S) \in Int /\ Total(g, S) \in Int
         /\ Total(f, S) < Total(g, S)
<1>1. PICK x \in S : TRUE
  OBVIOUS
<1> DEFINE rest == S \ {x}
<1>2. IsFiniteSet(rest)
  BY FS_RemoveElement
<1>3. \A y \in rest : f[y] \in Int /\ g[y] \in Int /\ f[y] <= g[y]
  OBVIOUS
<1>4. (\A y \in S : f[y] \in Int) /\ (\A y \in S : g[y] \in Int)
  OBVIOUS
<1>5. Total(f, S) = f[x] + Total(f, rest) /\ Total(g, S) = g[x] + Total(g, rest)
  BY <1>1, <1>4, TotalOf
<1> HIDE DEF rest
<1>6. /\ Total(f, rest) \in Int /\ Total(g, rest) \in Int
      /\ Total(f, rest) <= Total(g, rest)
  BY <1>2, <1>3, TotalOrder
<1>7. f[x] \in Int /\ g[x] \in Int /\ f[x] < g[x]
  BY <1>1
<1> QED BY <1>5, <1>6, <1>7

=============================================================================
