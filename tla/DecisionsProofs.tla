-------------------------- MODULE DecisionsProofs ---------------------------
(***************************************************************************)
(* What run, check, status and warn say is true of the account and agrees, *)
(* for any number of sessions and runs, any profile of the week, any       *)
(* limits and any lateness that the pool takes for one window.             *)
(***************************************************************************)
EXTENDS CommandsProofs, NumberFacts

LEMMA Units ==
  /\ Week \in Nat \ {0} /\ FiveHours \in Nat \ {0} /\ MaxClock \in Nat
  /\ Slack \in Nat /\ PoolJitter \in Nat /\ 2 * PoolJitter < Week
  /\ Coast \in Nat /\ Margin \in Nat /\ Stale \in Nat /\ MaxStale \in Nat /\ Forfeit \in Nat
  /\ FiveHCap \in Nat /\ SesFull \in Nat /\ SesWarn \in Nat /\ WeeklyLow \in Nat
  /\ MaxSpends \in Nat /\ MaxRenders \in Nat /\ MaxDrops \in Nat
BY DecisionsAssumption, SlotsBounds

-----------------------------------------------------------------------------
(***************************************************************************)
(* Pace: the integral of the profile is a number, so what is elapsed is a  *)
(* percentage.                                                             *)
(***************************************************************************)
Instants == 0 .. MaxClock + 2 * Week

\* A function that adds up the profile as far as n.
AddsUp(f, n) ==
  /\ f \in [0 .. n -> Nat]
  /\ \A t \in 0 .. n : f[t] = IF t = 0 THEN 0 ELSE f[t - 1] + Weight[(t - 1) % Week]

LEMMA ActivityAddsUp == AddsUp(Activity, MaxClock + 2 * Week)
<1> USE Units
<1> DEFINE S == {n \in Nat : \E f : AddsUp(f, n)}
           last == MaxClock + 2 * Week
           Body(f) == [t \in 0 .. last |-> IF t = 0 THEN 0 ELSE f[t - 1] + Weight[(t - 1) % Week]]
<1>1. 0 \in S
  <2>1. AddsUp([t \in 0 .. 0 |-> 0], 0)
    BY DEF AddsUp
  <2> QED BY <2>1
<1>2. ASSUME NEW n \in S PROVE n + 1 \in S
  <2>1. PICK f : AddsUp(f, n)
    OBVIOUS
  <2> DEFINE more == f[n] + Weight[n % Week]
             g == [t \in 0 .. n + 1 |-> IF t = n + 1 THEN more ELSE f[t]]
  <2>2. n \in Nat /\ n % Week \in 0 .. Week - 1 /\ Weight[n % Week] \in Nat
    BY Division, DecisionsAssumption
  <2>3. more \in Nat
    BY <2>1, <2>2 DEF AddsUp
  <2>4. g \in [0 .. n + 1 -> Nat]
    BY <2>1, <2>2, <2>3 DEF AddsUp
  <2>5. ASSUME NEW t \in 0 .. n + 1
        PROVE  g[t] = IF t = 0 THEN 0 ELSE g[t - 1] + Weight[(t - 1) % Week]
    <3>1. CASE t = n + 1
      BY <2>2, <3>1
    <3>2. CASE t \in 0 .. n
      BY <2>1, <2>2, <3>2 DEF AddsUp
    <3> QED BY <2>2, <2>5, <3>1, <3>2
  <2>6. AddsUp(g, n + 1)
    BY <2>4, <2>5 DEF AddsUp
  <2> QED BY <2>2, <2>6
<1>3. last \in S
  <2>1. S = Nat
    BY <1>1, <1>2, AllNumbers
  <2>2. last \in Nat
    OBVIOUS
  <2> HIDE DEF S, last
  <2> QED BY <2>1, <2>2
<1>4. PICK f : AddsUp(f, last)
  BY <1>3
<1>5. f = Body(f)
  BY <1>4 DEF AddsUp
<1>6. Activity = Body(Activity)
  <2>1. Activity = CHOOSE h : h = Body(h)
    BY DEF Activity
  <2> QED BY <1>5, <2>1
<1>7. Activity = f
  <2> DEFINE T == {n \in Nat : n <= last => Activity[n] = f[n]}
  <2>1. 0 \in T
    BY <1>5, <1>6
  <2>2. ASSUME NEW n \in T, n + 1 <= last PROVE Activity[n + 1] = f[n + 1]
    <3>1. Activity[n + 1] = Activity[n] + Weight[n % Week]
      BY <1>6, <2>2
    <3>2. f[n + 1] = f[n] + Weight[n % Week]
      BY <1>5, <2>2
    <3> QED BY <2>2, <3>1, <3>2
  <2>3. T = Nat
    <3>1. \A n \in T : n + 1 \in T
      BY <2>2
    <3> HIDE DEF T
    <3>2. T \in SUBSET Nat
      BY DEF T
    <3> QED BY <2>1, <3>1, <3>2, AllNumbers
  <2>4. \A n \in 0 .. last : Activity[n] = f[n]
    BY <2>3
  <2> QED BY <1>5, <1>6, <2>4
<1> QED BY <1>4, <1>7

LEMMA ActivityType == Activity \in [Instants -> Nat]
BY ActivityAddsUp DEF AddsUp, Instants

\* What is elapsed of a week is a percentage.
LEMMA ElapsedType ==
  ASSUME NEW t \in 0 .. MaxClock, NEW reset \in Week .. MaxClock + 2 * Week
  PROVE  ElapsedPct(t, reset) \in 0 .. 100
<1> USE Units
<1> DEFINE start == reset - Week
           whole == Integral(start, reset)
<1>1. t \in Instants /\ start \in Instants /\ reset \in Instants
  BY DEF Instants
<1>2. whole \in Int /\ Integral(start, t) \in Int
  BY <1>1, ActivityType DEF Integral
<1>3. ((t - start) * 100) \div Week \in Int
  BY Division
<1>4. CASE whole > 0
  <2> DEFINE a == Integral(start, t) * 100
  <2>0. a \in Int /\ whole \in Nat \ {0}
    BY <1>2, <1>4
  <2> HIDE DEF a, whole
  <2>1. a \div whole \in Int
    BY <2>0, Division
  <2> USE DEF a, whole
  <2> QED BY <1>2, <1>4, <2>1 DEF ElapsedPct, Clamp
<1>5. CASE whole <= 0
  BY <1>2, <1>3, <1>5 DEF ElapsedPct, Clamp
<1> QED BY <1>2, <1>4, <1>5

-----------------------------------------------------------------------------
(***************************************************************************)
(* The pool's window is one of the reported ones that are not over, and    *)
(* its percentage that of another one within the jitter.                   *)
(***************************************************************************)
LEMMA PoolMaxIsIn ==
  ASSUME NEW S \in SUBSET Nat, S # {}, NEW bound \in Nat, \A n \in S : n <= bound
  PROVE  Pool!Max(S) \in S /\ \A n \in S : n <= Pool!Max(S)
<1>1. Pool!Max(S) = Max(S)
  BY DEF Pool!Max, Max
<1> QED BY <1>1, MaxIsIn

LEMMA WindowFound ==
  ASSUME NEW windows \in SUBSET WindowType, NEW t \in Nat, NEW ahead \in Nat,
         Pool!GetWindow(windows, t, ahead) # Pool!NoWindow
  PROVE  LET g == Pool!GetWindow(windows, t, ahead) IN
         /\ g.ok
         /\ \E u, v \in windows :
              /\ g.used = u.used /\ g.reset = v.reset
              /\ u.reset > t /\ v.reset > t
              /\ v.reset - u.reset \in 0 .. PoolJitter
<1> USE Units
<1> DEFINE g == Pool!GetWindow(windows, t, ahead)
           lives == Pool!Lives(windows, t, ahead)
           resets == {w.reset : w \in lives}
           newest == Pool!Newest(lives)
           bucket == Pool!Bucket(lives)
           Full(w) == IF w.used > 100 THEN 100 ELSE w.used
           fulls == {Full(w) : w \in bucket}
<1>1. lives \subseteq windows /\ \A w \in lives : t < w.reset /\ w.reset <= t + ahead
  BY DEF Pool!Lives
<1>2. lives # {}
  BY DEF Pool!GetWindow
<1>3. newest \in resets /\ \A n \in resets : n <= newest
  <2>1. resets \in SUBSET Nat /\ resets # {} /\ \A n \in resets : n <= t + ahead
    BY <1>1, <1>2 DEF WindowType
  <2>2. t + ahead \in Nat
    OBVIOUS
  <2> HIDE DEF resets, lives
  <2>3. Pool!Max(resets) \in resets /\ \A n \in resets : n <= Pool!Max(resets)
    BY <2>1, <2>2, PoolMaxIsIn
  <2> QED BY <2>3 DEF Pool!Newest, resets
<1>4. PICK v \in lives : newest = v.reset
  BY <1>3
<1>5. \A w \in bucket : w \in lives /\ v.reset - w.reset \in 0 .. PoolJitter
  <2> SUFFICES ASSUME NEW w \in bucket
      PROVE w \in lives /\ v.reset - w.reset \in 0 .. PoolJitter
    OBVIOUS
  <2>1. w \in lives /\ newest - w.reset <= PoolJitter
    BY DEF Pool!Bucket
  <2>2. w.reset <= newest /\ w.reset \in Nat /\ v.reset \in Nat
    BY <1>1, <1>3, <2>1 DEF WindowType
  <2> QED BY <1>4, <2>1, <2>2
<1>6. v \in bucket
  <2>1. newest - newest <= PoolJitter
    BY <1>1, <1>4 DEF WindowType
  <2> QED BY <1>4, <2>1 DEF Pool!Bucket
<1>7. Pool!Max(fulls) \in fulls
  <2>1. \A w \in bucket : Full(w) \in 0 .. 100
    BY <1>1, <1>5 DEF WindowType, Percent
  <2>2. fulls \in SUBSET Nat /\ fulls # {} /\ \A n \in fulls : n <= 100
    BY <1>6, <2>1
  <2> HIDE DEF fulls
  <2> QED BY <2>2, PoolMaxIsIn
<1>8. PICK u \in bucket : Pool!Max(fulls) = u.used
  <2>1. \A w \in bucket : Full(w) = w.used
    BY <1>1, <1>5 DEF WindowType, Percent
  <2>2. PICK u \in bucket : Pool!Max(fulls) = Full(u)
    BY <1>7
  <2> QED BY <2>1, <2>2
<1>9. g = [ok |-> TRUE, reset |-> newest, used |-> Pool!Max(fulls)]
  BY <1>2 DEF Pool!GetWindow
<1> HIDE DEF g, newest, bucket, fulls
<1>10. g.ok /\ g.used = u.used /\ g.reset = v.reset
  BY <1>4, <1>8, <1>9
<1>11. /\ u \in windows /\ v \in windows /\ u.reset > t /\ v.reset > t
       /\ v.reset - u.reset \in 0 .. PoolJitter
  BY <1>1, <1>5
<1> QED BY <1>10, <1>11 DEF g

-----------------------------------------------------------------------------
(***************************************************************************)
(* Every reading was once true.  What a snapshot or a run holds of a       *)
(* window is never more than was ever used in it, and no more than is used *)
(* now if it is from after the last fall.                                  *)
(***************************************************************************)
SnapType == [at : 0 .. MaxClock, wk : WindowType \union {Nil}, fh : WindowType \union {Nil}]

Tiers == [ok : {TRUE}, used : Percent \union {NaN}, reset : Nat,
          confidence : {"fresh", "estimated"}]

WeekUse  == [0 .. WeekOf(MaxClock) -> Percent]
BurstUse == [0 .. BurstOf(MaxClock) -> Percent]

ReadType ==
  /\ spent \in WeekUse /\ burst \in BurstUse
  /\ spentMost \in WeekUse /\ burstMost \in BurstUse
  /\ snaps \in [Session -> SnapType \union {NoSnap}]
  /\ run \in [Proc -> Tiers \union {NoRun}]
  /\ spends \in 0 .. MaxSpends /\ renders \in 0 .. MaxRenders /\ drops \in 0 .. MaxDrops
  /\ outdated \subseteq Session /\ misled \subseteq Proc

\* A window that is really of that size, and of which as much was used.
OfWindow(r, size, used) ==
  \E w \in DOMAIN used, late \in Late :
    r.reset = (w + 1) * size + late /\ r.used \in Percent /\ r.used <= used[w]

NoMore(f, g) == \A w \in DOMAIN g : f[w] <= g[w]

MostReached == NoMore(spent, spentMost) /\ NoMore(burst, burstMost)

\* A snapshot that reports no more than was used.
Reports(s, week, five) ==
  /\ s.wk # Nil => OfWindow(s.wk, Week, week)
  /\ s.fh # Nil => OfWindow(s.fh, FiveHours, five)

SnapsReal ==
  \A x \in Session : snaps[x] # NoSnap =>
    /\ Reports(snaps[x], spentMost, burstMost)
    /\ x \notin outdated => Reports(snaps[x], spent, burst)
    /\ snaps[x].wk = Nil => snaps[x].fh = Nil

\* A run that has its weekly reading, which is fresh or an estimate.
RunsReal ==
  \A p \in Proc :
    /\ run[p].ok /\ run[p].confidence = "fresh" =>
         /\ OfWindow(run[p], Week, spentMost)
         /\ p \notin misled => OfWindow(run[p], Week, spent)
    /\ pc[p] = "fiveHour" => run[p].ok

ReadInv == ReadType /\ MostReached /\ SnapsReal /\ RunsReal

LEMMA LateBound == \A late \in Late : late \in 0 .. PoolJitter /\ late < Coast
<1> SUFFICES ASSUME NEW late \in Late PROVE late \in 0 .. PoolJitter /\ late < Coast
  OBVIOUS
<1>1. PICK x \in Session : late \in Slip[x]
  BY DEF Late
<1>2. late \in Nat /\ late <= PoolJitter /\ late < Coast
  BY <1>1, DecisionsAssumption
<1> QED BY <1>2, Units

LEMMA InDomain ==
  ASSUME NEW t \in 0 .. MaxClock
  PROVE  WeekOf(t) \in 0 .. WeekOf(MaxClock) /\ BurstOf(t) \in 0 .. BurstOf(MaxClock)
<1>1. ASSUME NEW size \in Nat \ {0} PROVE t \div size \in 0 .. MaxClock \div size
  <2> DEFINE w == MaxClock \div size
  <2>1. w \in Nat /\ MaxClock < (w + 1) * size
    BY Units, Division
  <2>2. t \div size \in Nat /\ (w + 1) * size > t
    BY <2>1, Units, Division
  <2>3. w >= t \div size
    BY <2>1, <2>2, PartOf
  <2> QED BY <2>1, <2>2, <2>3
<1> QED BY <1>1, Units DEF WeekOf, BurstOf

LEMMA ResetBound ==
  ASSUME NEW w \in 0 .. WeekOf(MaxClock), NEW late \in 0 .. PoolJitter
  PROVE  (w + 1) * Week + late \in Week .. MaxClock + 2 * Week
<1> USE Units
<1> DEFINE last == MaxClock \div Week
<1>1. last \in Nat /\ last * Week <= MaxClock /\ w <= last /\ w \in Nat
  BY Division DEF WeekOf
<1> HIDE DEF last
<1>2. w * Week <= last * Week /\ w * Week \in Nat
  BY <1>1, Z3
<1>3. (w + 1) * Week = w * Week + Week
  BY <1>1
<1>4. last * Week \in Nat
  BY <1>1
<1> QED BY <1>1, <1>2, <1>3, <1>4

\* Two resets within the jitter are of the same week.
LEMMA SameWeek ==
  ASSUME NEW v \in Nat, NEW w \in Nat, NEW i \in 0 .. PoolJitter, NEW j \in 0 .. PoolJitter,
         ((v + 1) * Week + j) - ((w + 1) * Week + i) \in 0 .. PoolJitter
  PROVE  v = w
<1> USE Units
<1>1. v * Week \in Nat /\ w * Week \in Nat
  OBVIOUS
<1>2. (v + 1) * Week = v * Week + Week /\ (w + 1) * Week = w * Week + Week
  OBVIOUS
<1>3. \A n, m \in Nat : n + 1 <= m => n * Week + Week <= m * Week
  BY Z3
<1>4. ~ v + 1 <= w
  BY <1>1, <1>2, <1>3
<1>5. ~ w + 1 <= v
  BY <1>1, <1>2, <1>3
<1> QED BY <1>4, <1>5

\* The readings that there are report no more than was used.
WeeksOf(used)  == \A s \in Taken : s.wk # Nil => OfWindow(s.wk, Week, used)
BurstsOf(used) == \A s \in Taken : s.fh # Nil => OfWindow(s.fh, FiveHours, used)

LEMMA TakenType ==
  ASSUME ReadInv
  PROVE  \A s \in Taken :
           /\ s \in SnapType
           /\ s.wk # Nil => s.wk \in WindowType
           /\ s.fh # Nil => s.fh \in WindowType
BY DEF Taken, ReadInv, ReadType, SnapType

LEMMA TakenIsReal ==
  ASSUME ReadInv
  PROVE  /\ WeeksOf(spentMost) /\ BurstsOf(burstMost)
         /\ outdated = {} => WeeksOf(spent) /\ BurstsOf(burst)
         /\ WeekReal(outdated = {}) \in WeekUse /\ WeeksOf(WeekReal(outdated = {}))
         /\ BurstReal(outdated = {}) \in BurstUse /\ BurstsOf(BurstReal(outdated = {}))
<1>1. \A s \in Taken : \E x \in Session : s = snaps[x] /\ snaps[x] # NoSnap
  BY DEF Taken
<1>2. WeeksOf(spentMost) /\ BurstsOf(burstMost)
  BY <1>1 DEF ReadInv, SnapsReal, Reports, WeeksOf, BurstsOf
<1>3. outdated = {} => WeeksOf(spent) /\ BurstsOf(burst)
  BY <1>1 DEF ReadInv, SnapsReal, Reports, WeeksOf, BurstsOf
<1>4. spent \in WeekUse /\ spentMost \in WeekUse /\ burst \in BurstUse /\ burstMost \in BurstUse
  BY DEF ReadInv, ReadType
<1>5. CASE outdated = {}
  <2>1. WeekReal(outdated = {}) = spent /\ BurstReal(outdated = {}) = burst
    BY <1>5 DEF WeekReal, BurstReal
  <2> QED BY <1>2, <1>3, <1>4, <1>5, <2>1
<1>6. CASE outdated # {}
  <2>1. WeekReal(outdated = {}) = spentMost /\ BurstReal(outdated = {}) = burstMost
    BY <1>6 DEF WeekReal, BurstReal
  <2> QED BY <1>2, <1>3, <1>4, <1>6, <2>1
<1> QED BY <1>5, <1>6

LEMMA WeeklyIsReal ==
  ASSUME ReadInv, NEW used \in WeekUse, WeeksOf(used),
         NEW t \in 0 .. MaxClock, Weekly(Taken, t) # Pool!NoWindow
  PROVE  LET w == Weekly(Taken, t) IN
         /\ w.ok /\ w.used \in Percent /\ w.reset > t
         /\ w.reset \in Week .. MaxClock + 2 * Week
         /\ OfWindow(w, Week, used)
<1> USE Units
<1> DEFINE w == Weekly(Taken, t)
           windows == {s.wk : s \in {u \in Taken : u.wk # Nil}}
<1>1. windows \in SUBSET WindowType /\ \A r \in windows : OfWindow(r, Week, used)
  BY TakenType DEF WeeksOf
<1>2. /\ w.ok
      /\ \E u, v \in windows :
           /\ w.used = u.used /\ w.reset = v.reset
           /\ u.reset > t /\ v.reset > t
           /\ v.reset - u.reset \in 0 .. PoolJitter
  <2>1. Week + Slack \in Nat
    OBVIOUS
  <2>2. w = Pool!GetWindow(windows, t, Week + Slack)
    BY DEF Weekly
  <2> HIDE DEF windows, w
  <2>3. Pool!GetWindow(windows, t, Week + Slack) # Pool!NoWindow
    BY <2>2 DEF w
  <2> QED BY <1>1, <2>1, <2>2, <2>3, WindowFound
<1>3. PICK u, v \in windows :
        /\ w.used = u.used /\ w.reset = v.reset
        /\ u.reset > t /\ v.reset > t
        /\ v.reset - u.reset \in 0 .. PoolJitter
  BY <1>2
<1> HIDE DEF w
<1>4. PICK wu \in DOMAIN used, lu \in Late :
        u.reset = (wu + 1) * Week + lu /\ u.used \in Percent /\ u.used <= used[wu]
  BY <1>1 DEF OfWindow
<1>5. PICK wv \in DOMAIN used, lv \in Late :
        v.reset = (wv + 1) * Week + lv /\ v.used \in Percent /\ v.used <= used[wv]
  BY <1>1 DEF OfWindow
<1>6. wu \in 0 .. WeekOf(MaxClock) /\ wv \in 0 .. WeekOf(MaxClock)
  BY <1>4, <1>5 DEF WeekUse
<1>7. wu \in Nat /\ wv \in Nat
  BY <1>6
<1>8. lu \in 0 .. PoolJitter /\ lv \in 0 .. PoolJitter
  BY LateBound
<1>9. wu = wv
  BY <1>3, <1>4, <1>5, <1>7, <1>8, SameWeek
<1>10. v.reset \in Week .. MaxClock + 2 * Week
  BY <1>5, <1>6, <1>8, ResetBound
<1>11. OfWindow(w, Week, used)
  BY <1>3, <1>4, <1>5, <1>9 DEF OfWindow
<1> QED BY <1>2, <1>3, <1>4, <1>10, <1>11 DEF w

LEMMA WeeklyType ==
  ASSUME ReadInv, NEW t \in 0 .. MaxClock, Weekly(Taken, t) # Pool!NoWindow
  PROVE  LET w == Weekly(Taken, t) IN
         /\ w.ok /\ w.used \in Percent /\ w.reset > t
         /\ w.reset \in Week .. MaxClock + 2 * Week
<1>1. spentMost \in WeekUse /\ WeeksOf(spentMost)
  BY TakenIsReal DEF ReadInv, ReadType
<1> QED BY <1>1, WeeklyIsReal

LEMMA FiveHourIsReal ==
  ASSUME ReadInv, NEW used \in BurstUse, BurstsOf(used),
         NEW t \in 0 .. MaxClock, FiveHour(Taken, t) # Pool!NoWindow
  PROVE  LET fh == FiveHour(Taken, t) IN
         /\ fh.ok /\ fh.used \in Percent
         /\ \A level \in Nat : fh.used >= level => ReallyFull(t, used, level)
<1> USE Units
<1> DEFINE fh == FiveHour(Taken, t)
           windows == {s.fh : s \in {u \in Taken : u.fh # Nil}}
<1>1. windows \in SUBSET WindowType /\ \A r \in windows : OfWindow(r, FiveHours, used)
  BY TakenType DEF BurstsOf
<1>2. fh.ok /\ \E u \in windows : fh.used = u.used /\ u.reset > t
  <2>1. FiveHours + Slack \in Nat
    OBVIOUS
  <2>2. fh = Pool!GetWindow(windows, t, FiveHours + Slack)
    BY DEF FiveHour
  <2> HIDE DEF windows, fh
  <2>3. Pool!GetWindow(windows, t, FiveHours + Slack) # Pool!NoWindow
    BY <2>2 DEF fh
  <2> QED BY <1>1, <2>1, <2>2, <2>3, WindowFound
<1>3. PICK u \in windows : fh.used = u.used /\ u.reset > t
  BY <1>2
<1> HIDE DEF fh
<1>4. PICK b \in DOMAIN used, late \in Late :
        u.reset = (b + 1) * FiveHours + late /\ u.used \in Percent /\ u.used <= used[b]
  BY <1>1 DEF OfWindow
<1>5. used[b] \in Nat /\ u.used \in Nat
  <2>1. used \in [0 .. BurstOf(MaxClock) -> 0 .. 100]
    BY DEF BurstUse, Percent
  <2>2. b \in 0 .. BurstOf(MaxClock)
    BY <2>1
  <2>3. u.used \in 0 .. 100
    BY <1>4 DEF Percent
  <2>4. used[b] \in 0 .. 100
    BY <2>1, <2>2, Zenon
  <2> QED BY <2>3, <2>4
<1>6. ASSUME NEW level \in Nat, fh.used >= level PROVE ReallyFull(t, used, level)
  <2>1. (b + 1) * FiveHours + late > t
    BY <1>3, <1>4
  <2>2. used[b] >= level
    BY <1>3, <1>4, <1>5, <1>6
  <2> QED BY <1>4, <2>1, <2>2 DEF ReallyFull
<1> QED BY <1>2, <1>3, <1>4, <1>6 DEF fh

\* What is ahead by a reading of a window that ends well after t really is.
LEMMA AheadIsReal ==
  ASSUME NEW used \in WeekUse, NEW t \in 0 .. MaxClock, NEW r, OfWindow(r, Week, used),
         r.reset - t >= Coast, r.used - ElapsedPct(t, r.reset) > Margin
  PROVE  ReallyAhead(t, used)
<1> USE Units
<1>1. PICK w \in DOMAIN used, late \in Late :
        r.reset = (w + 1) * Week + late /\ r.used \in Percent /\ r.used <= used[w]
  BY DEF OfWindow
<1> DEFINE end == (w + 1) * Week + late
           due == ElapsedPct(t, end)
<1>2. w \in 0 .. WeekOf(MaxClock) /\ used[w] \in 0 .. 100 /\ r.used \in 0 .. 100
  BY <1>1 DEF WeekUse, Percent
<1>3. late \in 0 .. PoolJitter /\ late < Coast
  BY LateBound
<1>4. due \in 0 .. 100
  <2>1. end \in Week .. MaxClock + 2 * Week
    BY <1>2, <1>3, ResetBound
  <2> HIDE DEF end
  <2> QED BY <2>1, ElapsedType
<1>5. w >= WeekOf(t)
  <2>1. w \in Nat /\ (w + 1) * Week > t
    BY <1>1, <1>2, <1>3
  <2> QED BY <2>1, PartOf DEF WeekOf
<1>6. used[w] - due > Margin
  <2>1. r.used - due > Margin
    BY <1>1
  <2> HIDE DEF due
  <2> QED BY <1>1, <1>2, <1>4, <2>1
<1> QED BY <1>5, <1>6 DEF ReallyAhead

LEMMA ExtrapolatedType ==
  ASSUME NEW used \in Percent, NEW accrued \in Nat, NEW dpp \in Nat
  PROVE  Extrapolated(used, accrued, dpp) \in Percent \union {NaN}
<1>1. CASE dpp = 0
  BY <1>1 DEF Extrapolated, Percent
<1>2. CASE dpp # 0
  <2> DEFINE rate == accrued \div dpp
  <2>1. rate \in Int
    BY <1>2, Division
  <2>2. Extrapolated(used, accrued, dpp) = Clamp(used + rate, 0, 100)
    BY <1>2 DEF Extrapolated
  <2> HIDE DEF rate
  <2> QED BY <2>1, <2>2 DEF Clamp, Percent
<1> QED BY <1>1, <1>2

\* The weekly reading, as fresh as it is.
LEMMA Resolved ==
  ASSUME ReadInv, NEW t \in 0 .. MaxClock, NEW estimate \in Estimates \union {Nil},
         ResolveWeekly(Taken, t, estimate).ok
  PROVE  LET wk == ResolveWeekly(Taken, t, estimate)
             w  == Weekly(Taken, t)
         IN /\ w # Pool!NoWindow
            /\ wk = [ok |-> TRUE, used |-> wk.used, reset |-> w.reset,
                     confidence |-> wk.confidence]
            /\ wk.confidence \in {"fresh", "stale", "estimated"}
            /\ wk.confidence # "estimated" => wk.used = w.used
            /\ wk.confidence = "fresh" => Pool!DataAge(Taken, t) <= Stale
            /\ wk.used \in Percent \union {NaN}
<1> DEFINE wk == ResolveWeekly(Taken, t, estimate)
           w  == Weekly(Taken, t)
           Tier(used, c) == [ok |-> TRUE, used |-> used, reset |-> w.reset, confidence |-> c]
<1>1. w.ok /\ w # Pool!NoWindow
  <2>1. ~ Pool!NoWindow.ok
    BY DEF Pool!NoWindow
  <2> QED BY <2>1 DEF ResolveWeekly
<1>2. w.used \in Percent
  BY <1>1, WeeklyType
<1>3. CASE Pool!DataAge(Taken, t) <= Stale
  <2>1. wk = Tier(w.used, "fresh")
    BY <1>1, <1>3 DEF ResolveWeekly
  <2> QED BY <1>1, <1>2, <1>3, <2>1
<1>4. CASE ~ Pool!DataAge(Taken, t) <= Stale /\ estimate # Nil
  <2> DEFINE grown == Extrapolated(w.used, estimate.accrued, estimate.dpp)
  <2>1. wk = Tier(grown, "estimated")
    BY <1>1, <1>4 DEF ResolveWeekly
  <2>2. estimate.dpp \in Nat /\ estimate.accrued \in Nat
    <3>1. estimate \in Estimates \ {Nil}
      BY <1>4
    <3>2. estimate \in [dpp : Nat, accrued : Nat]
      BY <3>1, DecisionsAssumption
    <3> QED BY <3>2
  <2>3. grown \in Percent \union {NaN}
    BY <1>2, <2>2, ExtrapolatedType
  <2> HIDE DEF grown
  <2> QED BY <1>1, <2>1, <2>3
<1>5. CASE ~ Pool!DataAge(Taken, t) <= Stale /\ estimate = Nil
  <2>1. wk = Tier(w.used, "stale")
    BY <1>1, <1>5 DEF ResolveWeekly
  <2> QED BY <1>1, <1>2, <2>1
<1> QED BY <1>3, <1>4, <1>5

-----------------------------------------------------------------------------
(***************************************************************************)
(* The invariant.                                                          *)
(***************************************************************************)
LEMMA ReadInit == Init => ReadInv
<1> SUFFICES ASSUME Init PROVE ReadInv
  OBVIOUS
<1>1. ReadType
  BY Units DEF Init, InitDecisions, ReadType, WeekUse, BurstUse, Percent
<1>2. MostReached
  BY DEF Init, InitDecisions, MostReached, NoMore
<1>3. SnapsReal /\ RunsReal
  <2>1. ~ NoRun.ok
    BY DEF NoRun, Pool!NoWindow
  <2> QED BY <2>1 DEF Init, InitDecisions, InitSlots, SnapsReal, RunsReal
<1> QED BY <1>1, <1>2, <1>3 DEF ReadInv

LEMMA Percents == \A n : n \in Percent <=> n \in Nat /\ n <= 100
BY DEF Percent

LEMMA NoMoreTrans ==
  ASSUME NEW n, NEW f \in [0 .. n -> Percent], NEW g \in [0 .. n -> Percent],
         NEW h \in [0 .. n -> Percent], NoMore(f, g), NoMore(g, h)
  PROVE  NoMore(f, h)
<1> SUFFICES ASSUME NEW w \in 0 .. n PROVE f[w] <= h[w]
  BY DEF NoMore
<1>1. f[w] <= g[w] /\ g[w] <= h[w]
  BY DEF NoMore
<1>2. f[w] \in Percent /\ g[w] \in Percent /\ h[w] \in Percent
  OBVIOUS
<1>3. f[w] \in Nat /\ g[w] \in Nat /\ h[w] \in Nat
  BY <1>2, Percents
<1> QED BY <1>1, <1>3

\* What is used when some is added is no less than before.
LEMMA MostIsMore ==
  ASSUME NEW n, NEW f \in [0 .. n -> Percent], NEW g \in [0 .. n -> Percent]
  PROVE  Most(f, g) \in [0 .. n -> Percent] /\ NoMore(f, Most(f, g)) /\ NoMore(g, Most(f, g))
<1> DEFINE m == Most(f, g)
<1>1. m = [w \in 0 .. n |-> IF f[w] > g[w] THEN f[w] ELSE g[w]]
  BY DEF Most
<1>2. \A w \in 0 .. n : m[w] = IF f[w] > g[w] THEN f[w] ELSE g[w]
  BY <1>1
<1>3. m \in [0 .. n -> Percent]
  BY <1>1
<1> HIDE DEF m
<1>4. ASSUME NEW w \in 0 .. n PROVE f[w] <= m[w] /\ g[w] <= m[w]
  <2>1. f[w] \in Nat /\ g[w] \in Nat
    BY Percents
  <2> QED BY <1>2, <2>1
<1>5. NoMore(f, m) /\ NoMore(g, m)
  BY <1>3, <1>4 DEF NoMore
<1> QED BY <1>3, <1>5 DEF m

\* A window stays real when more is used.
LEMMA StaysReal ==
  ASSUME NEW n, NEW f \in [0 .. n -> Percent], NEW g \in [0 .. n -> Percent],
         NoMore(f, g), NEW r, NEW size, OfWindow(r, size, f)
  PROVE  OfWindow(r, size, g)
<1>1. PICK w \in 0 .. n, late \in Late :
        r.reset = (w + 1) * size + late /\ r.used \in Percent /\ r.used <= f[w]
  BY DEF OfWindow
<1>2. r.used <= g[w]
  <2>1. f[w] \in Percent /\ g[w] \in Percent /\ f[w] <= g[w]
    BY DEF NoMore
  <2>2. r.used \in Percent /\ r.used <= f[w]
    BY <1>1
  <2>3. r.used \in Int /\ f[w] \in Int /\ g[w] \in Int
    BY <2>1, <2>2, Percents
  <2> QED BY <2>1, <2>2, <2>3
<1> QED BY <1>1, <1>2 DEF OfWindow

LEMMA WeekStays ==
  ASSUME NEW f \in WeekUse, NEW g \in WeekUse, NoMore(f, g), NEW r, OfWindow(r, Week, f)
  PROVE  OfWindow(r, Week, g)
BY StaysReal DEF WeekUse

LEMMA BurstStays ==
  ASSUME NEW f \in BurstUse, NEW g \in BurstUse, NoMore(f, g), NEW r, OfWindow(r, FiveHours, f)
  PROVE  OfWindow(r, FiveHours, g)
BY StaysReal DEF BurstUse

\* What the account comes to changes, and no snapshot and no run.
LEMMA AccountMoves ==
  ASSUME ReadInv, ReadType', MostReached', UNCHANGED <<snaps, run, pc>>,
         NoMore(spentMost, spentMost'), NoMore(burstMost, burstMost'),
         \/ NoMore(spent, spent') /\ NoMore(burst, burst') /\ UNCHANGED <<outdated, misled>>
         \/ /\ outdated' = {x \in Session : snaps[x] # NoSnap /\ snaps[x].wk # Nil}
            /\ misled' = {p \in Proc : run[p].ok}
  PROVE  ReadInv'
<1>1. /\ spent \in WeekUse /\ spent' \in WeekUse /\ burst \in BurstUse /\ burst' \in BurstUse
      /\ spentMost \in WeekUse /\ spentMost' \in WeekUse
      /\ burstMost \in BurstUse /\ burstMost' \in BurstUse
  BY DEF ReadInv, ReadType
<1>2. \A s : Reports(s, spentMost, burstMost) => Reports(s, spentMost', burstMost')
  BY <1>1, WeekStays, BurstStays DEF Reports
<1>3. CASE NoMore(spent, spent') /\ NoMore(burst, burst') /\ UNCHANGED <<outdated, misled>>
  <2>1. \A s : Reports(s, spent, burst) => Reports(s, spent', burst')
    BY <1>1, <1>3, WeekStays, BurstStays DEF Reports
  <2>2. SnapsReal'
    <3> SUFFICES ASSUME NEW x \in Session, snaps[x] # NoSnap
        PROVE  /\ Reports(snaps[x], spentMost', burstMost')
               /\ x \notin outdated' => Reports(snaps[x], spent', burst')
               /\ snaps[x].wk = Nil => snaps[x].fh = Nil
      BY DEF SnapsReal, Reports, OfWindow
    <3>1. /\ Reports(snaps[x], spentMost, burstMost)
          /\ x \notin outdated => Reports(snaps[x], spent, burst)
          /\ snaps[x].wk = Nil => snaps[x].fh = Nil
      BY DEF ReadInv, SnapsReal
    <3> QED BY <1>2, <1>3, <2>1, <3>1
  <2>3. RunsReal'
    <3> SUFFICES ASSUME NEW p \in Proc
        PROVE  /\ run[p].ok /\ run[p].confidence = "fresh" =>
                    /\ OfWindow(run[p], Week, spentMost')
                    /\ p \notin misled' => OfWindow(run[p], Week, spent')
               /\ pc[p] = "fiveHour" => run[p].ok
      BY DEF RunsReal, OfWindow
    <3>1. /\ run[p].ok /\ run[p].confidence = "fresh" =>
               /\ OfWindow(run[p], Week, spentMost)
               /\ p \notin misled => OfWindow(run[p], Week, spent)
          /\ pc[p] = "fiveHour" => run[p].ok
      BY DEF ReadInv, RunsReal
    <3> QED BY <1>1, <1>3, <3>1, WeekStays
  <2> QED BY <2>2, <2>3 DEF ReadInv
<1>4. CASE /\ outdated' = {x \in Session : snaps[x] # NoSnap /\ snaps[x].wk # Nil}
           /\ misled' = {p \in Proc : run[p].ok}
  <2>1. SnapsReal'
    <3> SUFFICES ASSUME NEW x \in Session, snaps[x] # NoSnap
        PROVE  /\ Reports(snaps[x], spentMost', burstMost')
               /\ x \notin outdated' => Reports(snaps[x], spent', burst')
               /\ snaps[x].wk = Nil => snaps[x].fh = Nil
      BY DEF SnapsReal, Reports, OfWindow
    <3>1. /\ Reports(snaps[x], spentMost, burstMost)
          /\ snaps[x].wk = Nil => snaps[x].fh = Nil
      BY DEF ReadInv, SnapsReal
    <3>2. x \notin outdated' => snaps[x].wk = Nil /\ snaps[x].fh = Nil
      BY <1>4, <3>1
    <3>3. x \notin outdated' => Reports(snaps[x], spent', burst')
      BY <3>2 DEF Reports
    <3> QED BY <1>2, <3>1, <3>3
  <2>2. RunsReal'
    <3> SUFFICES ASSUME NEW p \in Proc
        PROVE  /\ run[p].ok /\ run[p].confidence = "fresh" =>
                    /\ OfWindow(run[p], Week, spentMost')
                    /\ p \notin misled' => OfWindow(run[p], Week, spent')
               /\ pc[p] = "fiveHour" => run[p].ok
      BY DEF RunsReal, OfWindow
    <3>1. /\ run[p].ok /\ run[p].confidence = "fresh" => OfWindow(run[p], Week, spentMost)
          /\ pc[p] = "fiveHour" => run[p].ok
      BY DEF ReadInv, RunsReal
    <3> QED BY <1>1, <1>4, <3>1, WeekStays
  <2> QED BY <2>1, <2>2 DEF ReadInv
<1> QED BY <1>3, <1>4

LEMMA SpendKeeps == ASSUME ReadInv, SlotsType, Spend PROVE ReadInv'
<1> USE Units
<1> DEFINE w == WeekOf(clock)
           b == BurstOf(clock)
<1>1. w \in 0 .. WeekOf(MaxClock) /\ b \in 0 .. BurstOf(MaxClock)
  BY InDomain DEF SlotsType
<1>2. PICK up \in Spends :
        /\ spent' = [spent EXCEPT ![w] = @ + up.wk]
        /\ burst' = [burst EXCEPT ![b] = @ + up.fh]
  BY DEF Spend
<1>3. up.wk \in Nat /\ up.fh \in Nat
  BY DecisionsAssumption
<1>4. /\ spent \in [0 .. WeekOf(MaxClock) -> Percent]
      /\ burst \in [0 .. BurstOf(MaxClock) -> Percent]
  BY DEF ReadInv, ReadType, WeekUse, BurstUse
<1>5. spent[w] + up.wk \in Percent /\ burst[b] + up.fh \in Percent
  <2>1. spent[w] \in Percent /\ burst[b] \in Percent
    BY <1>1, <1>4
  <2>2. spent'[w] <= 100 /\ burst'[b] <= 100
    BY DEF Spend
  <2>3. spent'[w] = spent[w] + up.wk /\ burst'[b] = burst[b] + up.fh
    BY <1>1, <1>2, <1>4
  <2>4. spent[w] + up.wk <= 100 /\ burst[b] + up.fh <= 100
    BY <2>2, <2>3
  <2>5. spent[w] \in Nat /\ burst[b] \in Nat
    BY <2>1, Percents
  <2> HIDE DEF w, b
  <2> QED BY <1>3, <2>4, <2>5, Percents
<1>6. /\ spent' \in [0 .. WeekOf(MaxClock) -> Percent]
      /\ burst' \in [0 .. BurstOf(MaxClock) -> Percent]
  BY <1>1, <1>2, <1>4, <1>5
<1>7. /\ \A v \in 0 .. WeekOf(MaxClock) : spent[v] <= spent'[v]
      /\ \A v \in 0 .. BurstOf(MaxClock) : burst[v] <= burst'[v]
  <2> HIDE DEF w, b
  <2>1. ASSUME NEW v \in 0 .. WeekOf(MaxClock) PROVE spent[v] <= spent'[v]
    <3>1. spent[v] \in Percent
      BY <1>4
    <3>2. spent'[v] = IF v = w THEN spent[v] + up.wk ELSE spent[v]
      BY <1>2, <1>4
    <3> QED BY <1>3, <3>1, <3>2 DEF Percent
  <2>2. ASSUME NEW v \in 0 .. BurstOf(MaxClock) PROVE burst[v] <= burst'[v]
    <3>1. burst[v] \in Percent
      BY <1>4
    <3>2. burst'[v] = IF v = b THEN burst[v] + up.fh ELSE burst[v]
      BY <1>2, <1>4
    <3> QED BY <1>3, <3>1, <3>2 DEF Percent
  <2> QED BY <2>1, <2>2
<1>8. NoMore(spent, spent') /\ NoMore(burst, burst')
  BY <1>6, <1>7 DEF NoMore
<1>9. /\ spentMost' = Most(spent', spentMost) /\ burstMost' = Most(burst', burstMost)
      /\ UNCHANGED <<snaps, run, pc, renders, drops, outdated, misled>>
      /\ spends' \in 0 .. MaxSpends
  BY DEF Spend, slots, ReadInv, ReadType
<1>10. /\ spentMost \in [0 .. WeekOf(MaxClock) -> Percent]
       /\ burstMost \in [0 .. BurstOf(MaxClock) -> Percent]
  BY DEF ReadInv, ReadType, WeekUse, BurstUse
<1>11. /\ spentMost' \in WeekUse /\ burstMost' \in BurstUse
       /\ NoMore(spentMost, spentMost') /\ NoMore(burstMost, burstMost')
       /\ NoMore(spent', spentMost') /\ NoMore(burst', burstMost')
  BY <1>6, <1>9, <1>10, MostIsMore DEF WeekUse, BurstUse
<1>12. ReadType'
  BY <1>6, <1>9, <1>11 DEF ReadInv, ReadType, WeekUse, BurstUse
<1>13. MostReached'
  BY <1>11 DEF MostReached, NoMore
<1> QED BY <1>8, <1>9, <1>11, <1>12, <1>13, AccountMoves

LEMMA TakenBackKeeps == ASSUME ReadInv, SlotsType, TakenBack PROVE ReadInv'
<1>1. /\ spent \in WeekUse /\ burst \in BurstUse
      /\ spentMost \in WeekUse /\ burstMost \in BurstUse
      /\ NoMore(spent, spentMost) /\ NoMore(burst, burstMost)
  BY DEF ReadInv, ReadType, MostReached
<1>2. \/ spent' = [spent EXCEPT ![WeekOf(clock)] = 0] /\ burst' = burst
      \/ burst' = [burst EXCEPT ![BurstOf(clock)] = 0] /\ spent' = spent
  BY DEF TakenBack
\* With one percentage at zero a function is no more than before.
<1>3. ASSUME NEW n, NEW f \in [0 .. n -> Percent], NEW m
      PROVE  /\ [f EXCEPT ![m] = 0] \in [0 .. n -> Percent]
             /\ NoMore([f EXCEPT ![m] = 0], f) /\ NoMore(f, f)
  <2> DEFINE none == [f EXCEPT ![m] = 0]
  <2>1. 0 \in Percent /\ \A w \in 0 .. n : f[w] \in Nat
    BY Percents
  <2>2. none \in [0 .. n -> Percent]
    BY <2>1
  <2>3. \A w \in 0 .. n : none[w] = IF w = m THEN 0 ELSE f[w]
    OBVIOUS
  <2> HIDE DEF none
  <2>4. \A w \in 0 .. n : none[w] <= f[w] /\ f[w] <= f[w]
    BY <2>1, <2>3
  <2>5. NoMore(none, f) /\ NoMore(f, f)
    BY <2>4 DEF NoMore
  <2> QED BY <2>2, <2>5 DEF none
<1>4. spent' \in WeekUse /\ NoMore(spent', spent) /\ NoMore(spentMost, spentMost)
  <2> DEFINE none == [spent EXCEPT ![WeekOf(clock)] = 0]
  <2>1. none \in WeekUse /\ NoMore(none, spent) /\ NoMore(spent, spent)
    BY <1>1, <1>3 DEF WeekUse
  <2>2. NoMore(spentMost, spentMost)
    BY <1>1, <1>3 DEF WeekUse
  <2>3. spent' = none \/ spent' = spent
    BY <1>2
  <2> HIDE DEF none
  <2> QED BY <1>1, <2>1, <2>2, <2>3
<1>5. burst' \in BurstUse /\ NoMore(burst', burst) /\ NoMore(burstMost, burstMost)
  <2> DEFINE none == [burst EXCEPT ![BurstOf(clock)] = 0]
  <2>1. none \in BurstUse /\ NoMore(none, burst) /\ NoMore(burst, burst)
    BY <1>1, <1>3 DEF BurstUse
  <2>2. NoMore(burstMost, burstMost)
    BY <1>1, <1>3 DEF BurstUse
  <2>3. burst' = none \/ burst' = burst
    BY <1>2
  <2> HIDE DEF none
  <2> QED BY <1>1, <2>1, <2>2, <2>3
<1>6. /\ UNCHANGED <<snaps, run, pc, spends, renders, spentMost, burstMost>>
      /\ drops' \in 0 .. MaxDrops
      /\ outdated' = {x \in Session : snaps[x] # NoSnap /\ snaps[x].wk # Nil}
      /\ misled' = {p \in Proc : run[p].ok}
  BY Units DEF TakenBack, slots, most, ReadInv, ReadType
<1>7. ReadType'
  BY <1>4, <1>5, <1>6 DEF ReadInv, ReadType, WeekUse, BurstUse
<1>8. NoMore(spent', spentMost) /\ NoMore(burst', burstMost)
  BY <1>1, <1>4, <1>5, NoMoreTrans DEF WeekUse, BurstUse
<1>9. MostReached'
  BY <1>6, <1>8 DEF MostReached, NoMore
<1> QED BY <1>4, <1>5, <1>6, <1>7, <1>9, AccountMoves

LEMMA RenderKeeps ==
  ASSUME ReadInv, SlotsType, NEW x \in Session, RenderNew(x) \/ RenderAgain(x) \/ RenderBare(x)
  PROVE  ReadInv'
<1> USE Units
<1>u. /\ spent \in WeekUse /\ burst \in BurstUse /\ spentMost \in WeekUse
      /\ burstMost \in BurstUse /\ NoMore(spent, spentMost) /\ NoMore(burst, burstMost)
      /\ snaps \in [Session -> SnapType \union {NoSnap}]
  BY DEF ReadInv, ReadType, MostReached
<1>1. PICK s \in SnapType :
        /\ snaps' = [snaps EXCEPT ![x] = s]
        /\ Reports(s, spentMost, burstMost)
        /\ x \notin outdated' => Reports(s, spent, burst)
        /\ s.wk = Nil => s.fh = Nil
  <2>0. clock \in 0 .. MaxClock
    BY DEF SlotsType
  <2>1. CASE RenderNew(x)
    <3> DEFINE w == WeekOf(clock)
               b == BurstOf(clock)
    <3>1. PICK late \in Slip[x] :
            snaps' = [snaps EXCEPT ![x] =
              [at |-> clock,
               wk |-> [used |-> spent[w], reset |-> (w + 1) * Week + late],
               fh |-> [used |-> burst[b], reset |-> (b + 1) * FiveHours + late]]]
      BY <2>1 DEF RenderNew
    <3>2. late \in Late /\ late \in Nat
      BY DecisionsAssumption DEF Late
    <3>3. w \in 0 .. WeekOf(MaxClock) /\ b \in 0 .. BurstOf(MaxClock)
      BY <2>0, InDomain
    <3>4. spent[w] \in Percent /\ burst[b] \in Percent
      BY <1>u, <3>3 DEF WeekUse, BurstUse
    <3>5. (w + 1) * Week + late \in Nat /\ (b + 1) * FiveHours + late \in Nat
      BY <3>2, <3>3
    <3> DEFINE wk == [used |-> spent[w], reset |-> (w + 1) * Week + late]
               fh == [used |-> burst[b], reset |-> (b + 1) * FiveHours + late]
               s == [at |-> clock, wk |-> wk, fh |-> fh]
    <3>6. wk \in WindowType /\ fh \in WindowType
      BY <3>4, <3>5 DEF WindowType
    <3>7. OfWindow(wk, Week, spent) /\ OfWindow(fh, FiveHours, burst)
      <4>1. spent[w] <= spent[w] /\ burst[b] <= burst[b]
        BY <3>4 DEF Percent
      <4>2. w \in DOMAIN spent /\ b \in DOMAIN burst
        BY <1>u, <3>3 DEF WeekUse, BurstUse
      <4> HIDE DEF w, b
      <4> QED BY <3>2, <3>4, <4>1, <4>2 DEF OfWindow
    <3>8. s \in SnapType /\ wk # Nil
      <4>1. Nil \notin WindowType
        <5>1. WindowType \subseteq [used : Int, reset : Int]
          BY DEF WindowType, Percent
        <5> QED BY <5>1, DecisionsAssumption
      <4> QED BY <2>0, <3>6, <4>1 DEF SnapType
    <3>9. snaps' = [snaps EXCEPT ![x] = s] /\ s.wk = wk /\ s.fh = fh
      BY <3>1
    <3> HIDE DEF wk, fh, s
    <3>10. OfWindow(wk, Week, spentMost) /\ OfWindow(fh, FiveHours, burstMost)
      BY <1>u, <3>7, WeekStays, BurstStays
    <3> QED BY <3>7, <3>8, <3>9, <3>10 DEF Reports
  <2>2. CASE RenderAgain(x)
    <3> DEFINE s == [snaps[x] EXCEPT !.at = clock]
    <3>1. snaps[x] \in SnapType /\ snaps[x] # NoSnap /\ outdated' = outdated
      BY <1>u, <2>2 DEF RenderAgain
    <3>2. s \in SnapType /\ s.wk = snaps[x].wk /\ s.fh = snaps[x].fh
      BY <2>0, <3>1 DEF SnapType
    <3>3. snaps' = [snaps EXCEPT ![x] = s]
      BY <2>2 DEF RenderAgain
    <3> HIDE DEF s
    <3>4. /\ Reports(snaps[x], spentMost, burstMost)
          /\ x \notin outdated => Reports(snaps[x], spent, burst)
          /\ snaps[x].wk = Nil => snaps[x].fh = Nil
      BY <3>1 DEF ReadInv, SnapsReal
    <3> QED BY <3>1, <3>2, <3>3, <3>4 DEF Reports
  <2>3. CASE RenderBare(x)
    <3> DEFINE s == [at |-> clock, wk |-> Nil, fh |-> Nil]
    <3>1. s \in SnapType /\ s.wk = Nil /\ s.fh = Nil
      BY <2>0 DEF SnapType
    <3>2. snaps' = [snaps EXCEPT ![x] = s]
      BY <2>3 DEF RenderBare
    <3> HIDE DEF s
    <3> QED BY <3>1, <3>2 DEF Reports
  <2> QED BY <2>1, <2>2, <2>3
<1>2. /\ UNCHANGED <<spent, burst, spentMost, burstMost, run, pc, spends, drops, misled>>
      /\ renders' \in 0 .. MaxRenders
  <2>1. Renders
    BY DEF RenderNew, RenderAgain, RenderBare
  <2>2. renders \in 0 .. MaxRenders
    BY DEF ReadInv, ReadType
  <2> QED BY <2>1, <2>2 DEF Renders, slots, most
<1>3. outdated' \subseteq Session /\ outdated' \in {outdated, outdated \ {x}}
  BY DEF RenderNew, RenderAgain, RenderBare, ReadInv, ReadType
<1>4. ReadType'
  BY <1>1, <1>2, <1>3 DEF ReadInv, ReadType, WeekUse, BurstUse
<1>5. SnapsReal'
  <2> SUFFICES ASSUME NEW y \in Session, snaps'[y] # NoSnap
      PROVE  /\ Reports(snaps'[y], spentMost, burstMost)
             /\ y \notin outdated' => Reports(snaps'[y], spent, burst)
             /\ snaps'[y].wk = Nil => snaps'[y].fh = Nil
    BY <1>2 DEF SnapsReal, Reports, OfWindow
  <2>1. CASE y = x
    BY <1>u, <1>1, <2>1
  <2>2. CASE y # x
    <3>1. snaps'[y] = snaps[y]
      BY <1>u, <1>1, <2>2
    <3>2. y \notin outdated' => y \notin outdated
      BY <1>3, <2>2
    <3> QED BY <3>1, <3>2 DEF ReadInv, SnapsReal
  <2> QED BY <2>1, <2>2
<1>6. RunsReal' /\ MostReached'
  BY <1>2 DEF ReadInv, RunsReal, OfWindow, MostReached, NoMore
<1> QED BY <1>4, <1>5, <1>6 DEF ReadInv

LEMMA SnapsStay ==
  ASSUME ReadInv, UNCHANGED world
  PROVE  MostReached' /\ SnapsReal'
<1>1. UNCHANGED <<spent, burst, spentMost, burstMost, snaps, outdated>>
  BY DEF world, most
<1> QED BY <1>1 DEF ReadInv, MostReached, NoMore, SnapsReal, Reports, OfWindow

\* A run that ends has no reading any more.
LEMMA ExecKeeps ==
  ASSUME ReadInv, SlotsType, NEW p \in Proc, Exec(p), UNCHANGED world
  PROVE  ReadInv'
<1>1. pc' = [pc EXCEPT ![p] = "idle"] /\ run' = [run EXCEPT ![p] = NoRun]
      /\ misled' = misled \ {p}
  BY DEF Exec, Leave
<1>2. UNCHANGED <<spent, burst, spentMost, burstMost, snaps, spends, renders, drops, outdated>>
  BY DEF world, most, bounds
<1>3. ~ NoRun.ok
  BY DEF NoRun, Pool!NoWindow
<1>4. ReadType'
  BY <1>1, <1>2 DEF ReadInv, ReadType, WeekUse, BurstUse
<1>5. RunsReal'
  <2> SUFFICES ASSUME NEW q \in Proc
      PROVE  /\ run'[q].ok /\ run'[q].confidence = "fresh" =>
                  /\ OfWindow(run'[q], Week, spentMost)
                  /\ q \notin misled' => OfWindow(run'[q], Week, spent)
             /\ pc'[q] = "fiveHour" => run'[q].ok
    BY <1>2 DEF RunsReal, OfWindow
  <2>1. CASE q = p
    <3>1. run'[q] = NoRun /\ pc'[q] = "idle"
      BY <1>1, <2>1 DEF ReadInv, ReadType, SlotsType
    <3> QED BY <1>3, <3>1
  <2>2. CASE q # p
    <3>1. run'[q] = run[q] /\ pc'[q] = pc[q] /\ (q \notin misled' => q \notin misled)
      BY <1>1, <2>2 DEF ReadInv, ReadType, SlotsType
    <3> QED BY <3>1 DEF ReadInv, RunsReal
  <2> QED BY <2>1, <2>2
<1> QED BY <1>4, <1>5, SnapsStay DEF ReadInv

LEMMA RunKeeps ==
  ASSUME ReadInv, SlotsType, NEW p \in Proc, Run(p)
  PROVE  ReadInv'
<1>1. pc' = [pc EXCEPT ![p] = "weekly"]
  BY DEF Run, Launch
<1>2. UNCHANGED <<world, run, misled>>
  BY DEF Run
<1>3. UNCHANGED <<spent, burst, spentMost, burstMost, snaps, spends, renders, drops, outdated>>
  BY <1>2 DEF world, most, bounds
<1>4. ReadType'
  BY <1>2, <1>3 DEF ReadInv, ReadType, WeekUse, BurstUse
<1>5. RunsReal'
  BY <1>1, <1>2, <1>3 DEF ReadInv, RunsReal, OfWindow, SlotsType
<1> QED BY <1>2, <1>4, <1>5, SnapsStay DEF ReadInv

LEMMA ReadWeeklyKeeps ==
  ASSUME ReadInv, SlotsType, NEW p \in Proc, ReadWeekly(p)
  PROVE  ReadInv'
<1>1. PICK estimate \in Estimates :
        LET wk == ResolveWeekly(Taken, now[p], estimate) IN
        IF Usable(wk)
        THEN /\ run' = [run EXCEPT ![p] = wk]
             /\ misled' = IF outdated = {} THEN misled ELSE misled \union {p}
             /\ Goto(p, "fiveHour")
        ELSE Exec(p)
  BY DEF ReadWeekly
<1> DEFINE wk == ResolveWeekly(Taken, now[p], estimate)
           w  == Weekly(Taken, now[p])
<1>2. UNCHANGED world
  BY DEF ReadWeekly
<1>3. CASE ~ Usable(wk)
  BY <1>1, <1>2, <1>3, ExecKeeps
<1>4. CASE Usable(wk)
  <2>1. now[p] \in 0 .. MaxClock
    BY DEF SlotsType
  <2>2. wk.ok /\ wk.confidence # "stale"
    BY <1>4 DEF Usable
  <2>3. /\ w # Pool!NoWindow
        /\ wk = [ok |-> TRUE, used |-> wk.used, reset |-> w.reset, confidence |-> wk.confidence]
        /\ wk.confidence \in {"fresh", "estimated"}
        /\ wk.confidence = "fresh" => wk.used = w.used
        /\ wk.used \in Percent \union {NaN}
    BY <2>1, <2>2, Resolved
  <2>a. /\ WeeksOf(spentMost) /\ spentMost \in WeekUse /\ spent \in WeekUse
        /\ outdated = {} => WeeksOf(spent)
    BY TakenIsReal DEF ReadInv, ReadType
  <2>4. /\ w.reset \in Nat /\ OfWindow(w, Week, spentMost)
        /\ outdated = {} => OfWindow(w, Week, spent)
    BY <2>1, <2>3, <2>a, WeeklyIsReal, Units
  <2>5. /\ run' = [run EXCEPT ![p] = wk] /\ pc' = [pc EXCEPT ![p] = "fiveHour"]
        /\ misled' = IF outdated = {} THEN misled ELSE misled \union {p}
    BY <1>1, <1>4 DEF Goto
  <2> HIDE DEF wk, w
  <2>6. wk.reset = w.reset
    BY <2>3
  <2>7. wk \in Tiers
    <3> DEFINE used == wk.used
               confidence == wk.confidence
               tier == [ok |-> TRUE, used |-> used, reset |-> w.reset, confidence |-> confidence]
    <3>1. wk = tier
      BY <2>3
    <3>2. used \in Percent \union {NaN} /\ confidence \in {"fresh", "estimated"}
      BY <2>3
    <3> HIDE DEF used, confidence
    <3>3. tier \in Tiers
      BY <2>4, <3>2 DEF Tiers
    <3> HIDE DEF tier
    <3> QED BY <3>1, <3>3
  <2>8. wk.confidence = "fresh" =>
          /\ OfWindow(wk, Week, spentMost)
          /\ outdated = {} => OfWindow(wk, Week, spent)
    BY <2>3, <2>4, <2>6 DEF OfWindow
  <2>9. UNCHANGED <<spent, burst, spentMost, burstMost, snaps, spends, renders, drops, outdated>>
    BY <1>2 DEF world, most, bounds
  <2>10. ReadType'
    BY <2>5, <2>7, <2>9 DEF ReadInv, ReadType, WeekUse, BurstUse
  <2>11. RunsReal'
    <3> SUFFICES ASSUME NEW q \in Proc
        PROVE  /\ run'[q].ok /\ run'[q].confidence = "fresh" =>
                    /\ OfWindow(run'[q], Week, spentMost)
                    /\ q \notin misled' => OfWindow(run'[q], Week, spent)
               /\ pc'[q] = "fiveHour" => run'[q].ok
      BY <2>9 DEF RunsReal, OfWindow
    <3>1. CASE q = p
      <4>1. run'[q] = wk
        BY <2>5, <3>1 DEF ReadInv, ReadType
      <4>2. q \notin misled' => outdated = {}
        BY <2>5, <3>1
      <4> QED BY <2>2, <2>8, <4>1, <4>2
    <3>2. CASE q # p
      <4>1. run'[q] = run[q] /\ pc'[q] = pc[q] /\ (q \notin misled' => q \notin misled)
        BY <2>5, <3>2 DEF ReadInv, ReadType, SlotsType
      <4> QED BY <4>1 DEF ReadInv, RunsReal
    <3> QED BY <3>1, <3>2
  <2> QED BY <1>2, <2>10, <2>11, SnapsStay DEF ReadInv
<1> QED BY <1>3, <1>4

LEMMA ReadNext == ASSUME ReadInv, SlotsType, DecisionsNext PROVE ReadInv'
<1>1. ASSUME NEW p \in Proc, ExecDownshifted(p) \/ ExecAsIs(p) PROVE ReadInv'
  BY <1>1, ExecKeeps DEF ExecDownshifted, ExecAsIs
<1> QED BY <1>1, SpendKeeps, TakenBackKeeps, RenderKeeps, RunKeeps, ReadWeeklyKeeps DEF DecisionsNext

LEMMA OthersKeepReadings ==
  ASSUME ReadInv, UNCHANGED decisions, Spares(RunLabels)
  PROVE  ReadInv'
<1>1. /\ UNCHANGED <<world, run, misled>>
      /\ UNCHANGED <<spent, burst, spentMost, burstMost, snaps, spends, renders, drops, outdated>>
  BY DEF decisions, world, most, bounds
<1>2. ReadType'
  BY <1>1 DEF ReadInv, ReadType, WeekUse, BurstUse
<1>3. RunsReal'
  BY <1>1 DEF ReadInv, RunsReal, OfWindow, Spares, RunLabels
<1> QED BY <1>1, <1>2, <1>3, SnapsStay DEF ReadInv

LEMMA ReadInvariant == Spec => [](SlotsType /\ ReadInv)
<1>1. Init => SlotsType /\ ReadInv
  BY SlotsInit, ReadInit DEF Init
<1>2. SlotsType /\ ReadInv /\ [Next]_vars => SlotsType' /\ ReadInv'
  <2> SUFFICES ASSUME SlotsType, ReadInv, [Next]_vars PROVE SlotsType' /\ ReadInv'
    OBVIOUS
  <2>1. SlotsType'
    BY StepSeen
  <2>2. ReadInv'
    BY SeenByRuns, ReadNext, OthersKeepReadings
  <2> QED BY <2>1, <2>2
<1> QED BY <1>1, <1>2, PTL DEF Spec

-----------------------------------------------------------------------------
(***************************************************************************)
(* What is said is so.                                                     *)
(***************************************************************************)
LEMMA NoWindowIsNone == ~ Pool!NoWindow.ok
BY DEF Pool!NoWindow

\* The age of what has a weekly window is a number.
LEMMA AgeIsTime ==
  ASSUME ReadInv, NEW t \in 0 .. MaxClock, Weekly(Taken, t).ok
  PROVE  Pool!DataAge(Taken, t) \in Int
<1> USE Units
<1> DEFINE times == {s.at : s \in Taken}
           windows == {s.wk : s \in {u \in Taken : u.wk # Nil}}
<1>1. Taken # {}
  <2>1. SUFFICES ASSUME Taken = {} PROVE FALSE
    OBVIOUS
  <2>2. windows = {}
    BY <2>1
  <2>3. Pool!GetWindow({}, t, Week + Slack) = Pool!NoWindow
    BY DEF Pool!GetWindow, Pool!Lives
  <2>4. Weekly(Taken, t) = Pool!NoWindow
    BY <2>2, <2>3 DEF Weekly
  <2> QED BY <2>4, NoWindowIsNone
<1>2. times \in SUBSET Nat /\ times # {} /\ \A n \in times : n <= MaxClock
  BY <1>1, TakenType DEF SnapType
<1>3. Pool!Max(times) \in Nat
  <2> HIDE DEF times
  <2> QED BY <1>2, PoolMaxIsIn
<1> QED BY <1>1, <1>3 DEF Pool!DataAge

LEMMA PaceIsReal ==
  ASSUME ReadInv, NEW used \in WeekUse, WeeksOf(used),
         NEW t \in 0 .. MaxClock, Weekly(Taken, t).ok
  PROVE  LET w == Weekly(Taken, t)
             p == GetPace(w.used, w.reset, t)
         IN /\ p # Nil /\ p.delta # NaN /\ p.delta \in Int /\ p.toReset \in Int
            /\ p.delta = w.used - ElapsedPct(t, w.reset) /\ p.toReset = w.reset - t
            /\ w.used \in 0 .. 100 /\ ElapsedPct(t, w.reset) \in 0 .. 100
            /\ p.toReset >= Coast /\ p.delta > Margin => ReallyAhead(t, used)
<1> USE Units
<1> DEFINE w == Weekly(Taken, t)
           p == GetPace(w.used, w.reset, t)
           due == ElapsedPct(t, w.reset)
<1>1. w # Pool!NoWindow
  BY NoWindowIsNone
<1>2. /\ w.used \in Percent /\ w.reset \in Week .. MaxClock + 2 * Week
      /\ OfWindow(w, Week, used)
  BY <1>1, WeeklyIsReal
<1>3. w.used \in 0 .. 100 /\ due \in 0 .. 100
  BY <1>2, ElapsedType DEF Percent
<1>4. Nil \notin Int /\ Nil \notin [delta : Int, toReset : Int]
  BY DecisionsAssumption
<1>5. w.used # NaN /\ w.reset \in Nat
  BY <1>2, <1>3, <1>4 DEF NaN
<1>6. p = [delta |-> w.used - due, toReset |-> w.reset - t]
  BY <1>5 DEF GetPace
<1> HIDE DEF due, w
<1>7. w.used - due \in Int /\ w.reset - t \in Int
  BY <1>3, <1>5
<1>8. p \in [delta : Int, toReset : Int]
  BY <1>6, <1>7
<1> HIDE DEF p
<1>9. p.delta = w.used - due /\ p.toReset = w.reset - t
  BY <1>6
<1>10. p # Nil /\ p.delta # NaN /\ p.delta \in Int /\ p.toReset \in Int
  BY <1>4, <1>8 DEF NaN
<1>11. p.toReset >= Coast /\ p.delta > Margin => ReallyAhead(t, used)
  BY <1>2, <1>9, AheadIsReal DEF due
<1> QED BY <1>3, <1>9, <1>10, <1>11 DEF p, w, due

\* No alarm is false, however stale the readings are that count as fresh and
\* however the renders of sessions overlap: it is of a week, or a five-hour
\* window, that is not over and really is that far, or, while a session still
\* shows a reading from before a fall, was (check.go; warn.go, "never a false
\* alarm"; report.go; pool.go, GetWindow).
THEOREM NoFalseAlarm == Spec => []AlarmsAreReal
<1>1. SlotsType /\ ReadInv => AlarmsAreReal
  <2> SUFFICES ASSUME SlotsType, ReadInv PROVE AlarmsAreReal
    OBVIOUS
  <2> USE Units
  <2> DEFINE week == WeekReal(outdated = {})
             five == BurstReal(outdated = {})
             W   == Weekly(Taken, clock)
             ses == FiveHour(Taken, clock)
             p   == GetPace(W.used, W.reset, clock)
             wk  == ResolveWeekly(Taken, clock, Nil)
             said == verdict(Taken, FALSE, clock)
             view == View(Taken, clock)
             warned == signals(view)
             phrase == IF wk.ok THEN PacePhrase(GetPace(wk.used, wk.reset, clock)) ELSE "none"
  <2>1. clock \in 0 .. MaxClock
    BY DEF SlotsType
  <2>u. week \in WeekUse /\ WeeksOf(week) /\ five \in BurstUse /\ BurstsOf(five)
    BY TakenIsReal
  <2> HIDE DEF week, five
  <2>2. W.ok => /\ p # Nil /\ p.delta # NaN /\ p.delta \in Int /\ p.toReset \in Int
                /\ p.toReset = W.reset - clock
                /\ p.toReset >= Coast /\ p.delta > Margin => ReallyAhead(clock, week)
    BY <2>1, <2>u, PaceIsReal
  <2>3. ses.ok => /\ ses.used \in Percent
                  /\ \A level \in Nat : ses.used >= level => ReallyFull(clock, five, level)
    BY <2>1, <2>u, NoWindowIsNone, FiveHourIsReal
  <2>4. said = "PACE DOWN" => ReallyAhead(clock, week)
    <3>1. said = "PACE DOWN" => W.ok /\ p.delta > Margin /\ p.toReset > Coast
      BY DEF verdict, paceWarn
    <3> DEFINE delta == p.delta
               toReset == p.toReset
    <3>2. SUFFICES ASSUME W.ok, delta > Margin, toReset > Coast PROVE ReallyAhead(clock, week)
      BY <3>1
    <3>3. toReset \in Int /\ (toReset >= Coast /\ delta > Margin => ReallyAhead(clock, week))
      BY <2>2, <3>2
    <3> HIDE DEF delta, toReset
    <3> QED BY <3>2, <3>3
  <2>5. "pace" \in warned => ReallyAhead(clock, week)
    <3>1. view.wk = IF W.ok THEN p ELSE Nil
      BY DEF View
    <3>2. "pace" \in warned => view.wk # Nil /\ view.wk.delta > Margin /\ view.wk.toReset > Coast
      BY DEF signals
    <3> HIDE DEF view, warned, p, W
    <3> QED BY <2>2, <3>1, <3>2
  <2>6. phrase = "ahead" => ReallyAhead(clock, week)
    <3>1. SUFFICES ASSUME phrase = "ahead" PROVE ReallyAhead(clock, week)
      OBVIOUS
    <3>2. wk.ok
      BY <3>1
    <3>3. W.ok /\ wk.reset = W.reset /\ wk.used = W.used
      <4>1. W.ok
        BY <3>2, NoWindowIsNone DEF ResolveWeekly
      <4> QED BY <4>1 DEF ResolveWeekly
    <3>4. PacePhrase(p) = "ahead"
      BY <3>1, <3>2, <3>3
    <3> HIDE DEF p, W
    <3>5. ~ p.toReset < Coast /\ Over(p.delta, Margin)
      BY <3>4 DEF PacePhrase
    <3> QED BY <2>2, <3>3, <3>5 DEF Over
  <2>7. said = "WIND DOWN" => \E w \in DOMAIN week : w >= WeekOf(clock) /\ week[w] >= WeeklyLow
    <3>1. SUFFICES ASSUME said = "WIND DOWN"
          PROVE  \E w \in DOMAIN week : w >= WeekOf(clock) /\ week[w] >= WeeklyLow
      OBVIOUS
    <3>2. W.ok /\ W.used >= WeeklyLow /\ ~ W.reset - clock <= Coast
      BY <3>1 DEF verdict
    <3>3. OfWindow(W, Week, week) /\ W.reset \in Week .. MaxClock + 2 * Week
      BY <2>1, <2>u, <3>2, NoWindowIsNone, WeeklyIsReal
    <3> HIDE DEF W
    <3>4. PICK w \in DOMAIN week, late \in Late :
            W.reset = (w + 1) * Week + late /\ W.used \in Percent /\ W.used <= week[w]
      BY <3>3 DEF OfWindow
    <3>5. week \in [0 .. WeekOf(MaxClock) -> Percent]
      BY <2>u DEF WeekUse
    <3>6. w \in Nat /\ week[w] \in Nat /\ W.used \in Nat
      BY <3>4, <3>5, Percents
    <3>7. late \in Nat /\ late < Coast
      BY LateBound
    <3>8. (w + 1) * Week > clock
      BY <2>1, <3>2, <3>3, <3>4, <3>6, <3>7
    <3>9. w >= WeekOf(clock)
      BY <2>1, <3>6, <3>8, PartOf DEF WeekOf
    <3> QED BY <3>2, <3>4, <3>6, <3>9
  <2>8. said = "SESSION-LIMITED" => ReallyFull(clock, five, SesFull)
    <3>1. said = "SESSION-LIMITED" => ses.ok /\ ses.used >= SesFull
      BY DEF verdict
    <3> HIDE DEF said, ses
    <3> QED BY <2>3, <3>1
  <2>9. "session" \in warned => ReallyFull(clock, five, SesWarn)
    <3>1. view.fh = IF ses.ok THEN ses.used ELSE Nil
      BY DEF View
    <3>2. "session" \in warned => view.fh # Nil /\ view.fh >= SesWarn
      BY DEF signals
    <3> HIDE DEF view, warned, ses
    <3> QED BY <2>3, <3>1, <3>2
  <2> QED BY <2>4, <2>5, <2>6, <2>7, <2>8, <2>9 DEF AlarmsAreReal, week, five
<1> QED BY <1>1, ReadInvariant, PTL

-----------------------------------------------------------------------------
(***************************************************************************)
(* What enforces agrees with what advises.                                 *)
(***************************************************************************)
\* Who has that much to forfeit is behind an even pace.
LEMMA ForfeitIsBehind ==
  ASSUME NEW used \in 0 .. 100, NEW remains \in Int, NEW due \in Int,
         used - due > Margin,
         (100 - used) - (remains * 100) \div Week >= Forfeit
  PROVE  due < ((Week - remains) * 100) \div Week
<1> USE Units
<1> DEFINE rest == (remains * 100) \div Week
           even == ((Week - remains) * 100) \div Week
<1>1. rest \in Int /\ remains * 100 < (rest + 1) * Week
  BY Division
<1>2. even \in Int /\ (Week - remains) * 100 < (even + 1) * Week
  BY Division
<1> HIDE DEF rest, even
<1> DEFINE n == even + 1 + (rest + 1)
<1>3. n * Week > 100 * Week
  <2>1. (even + 1) * Week \in Int /\ (rest + 1) * Week \in Int /\ 100 * Week \in Int
    BY <1>1, <1>2
  <2>2. (Week - remains) * 100 = 100 * Week - remains * 100 /\ remains * 100 \in Int
    OBVIOUS
  <2>3. n * Week = (even + 1) * Week + (rest + 1) * Week
    BY <1>1, <1>2
  <2> QED BY <1>1, <1>2, <2>1, <2>2, <2>3
<1>4. n > 100
  <2>1. n \in Int
    BY <1>1, <1>2
  <2> HIDE DEF n
  <2>2. n * Week > 100 * Week => n > 100
    BY <2>1
  <2> QED BY <1>3, <2>2
<1>5. Margin + Forfeit > 0 /\ (100 - used) - rest >= Forfeit
  BY DecisionsAssumption DEF rest
<1>6. due < even
  BY <1>1, <1>2, <1>4, <1>5
<1> QED BY <1>6 DEF even

\* When run would downshift for the week on fresh data, status says ahead, warn
\* warns and check does not say to go on, but for a reset exactly Coast away;
\* and check says to burn more only where the profile expects less than an even
\* pace (README, "can't disagree"; report.go; check.go, forfeit).
THEOREM NoContradiction == Spec => []AdviceAgrees
<1>1. SlotsType /\ ReadInv => AdviceAgrees
  <2> SUFFICES ASSUME SlotsType, ReadInv PROVE AdviceAgrees
    OBVIOUS
  <2> USE Units
  <2> DEFINE W    == Weekly(Taken, clock)
             p    == GetPace(W.used, W.reset, clock)
             wk   == ResolveWeekly(Taken, clock, Nil)
             even == ((clock - (wk.reset - Week)) * 100) \div Week
             view == View(Taken, clock)
             warned == signals(view)
  <2> SUFFICES ASSUME wk.ok, wk.confidence = "fresh", DownshiftsByPace(wk, clock)
               PROVE  /\ PacePhrase(GetPace(wk.used, wk.reset, clock)) = "ahead"
                      /\ wk.reset - clock = Coast \/ "pace" \in warned
                      /\ \A soon \in MayBeSoon(Taken, clock) :
                           LET said == verdict(Taken, soon, clock) IN
                           /\ said = "BURN DOWN" => ElapsedPct(clock, wk.reset) < even
                           /\ said \in {"KEEP GOING", "COAST"} => wk.reset - clock = Coast
                           /\ said # "UNKNOWN"
    BY DEF AdviceAgrees
  <2>1. clock \in 0 .. MaxClock
    BY DEF SlotsType
  <2>2. W.ok /\ wk.used = W.used /\ wk.reset = W.reset /\ Pool!DataAge(Taken, clock) <= Stale
    <3>1. W.ok
      BY NoWindowIsNone DEF ResolveWeekly
    <3> QED BY <2>1, <3>1, Resolved
  <2>3. /\ p # Nil /\ p.delta # NaN /\ p.delta \in Int /\ p.toReset \in Int
        /\ p.delta = W.used - ElapsedPct(clock, W.reset) /\ p.toReset = W.reset - clock
        /\ W.used \in 0 .. 100 /\ ElapsedPct(clock, W.reset) \in 0 .. 100
    <3>1. spentMost \in WeekUse /\ WeeksOf(spentMost)
      BY TakenIsReal DEF ReadInv, ReadType
    <3> QED BY <2>1, <2>2, <3>1, PaceIsReal
  <2>4. p.toReset >= Coast /\ p.delta > Margin
    BY <2>2 DEF DownshiftsByPace, Over
  <2>5. PacePhrase(p) = "ahead"
    <3> HIDE DEF p
    <3> QED BY <2>3, <2>4 DEF PacePhrase, Over
  <2>6. p.toReset = Coast \/ "pace" \in warned
    <3>1. view.wk = p /\ view.age = Pool!DataAge(Taken, clock)
      BY <2>2 DEF View
    <3>2. view.age \in Int
      BY <2>1, <2>2, <3>1, AgeIsTime
    <3>3. view.age # Nil /\ view.age <= MaxStale
      BY <2>2, <3>1, <3>2, DecisionsAssumption
    <3> HIDE DEF p, view
    <3>4. ASSUME p.toReset # Coast PROVE "pace" \in warned
      <4>1. p.toReset > Coast
        BY <2>3, <2>4, <3>4
      <4> QED BY <2>3, <2>4, <3>1, <3>3, <4>1 DEF signals, Signal
    <3> QED BY <3>4
  <2>7. ASSUME NEW soon \in MayBeSoon(Taken, clock)
        PROVE  LET said == verdict(Taken, soon, clock) IN
               /\ said = "BURN DOWN" => ElapsedPct(clock, wk.reset) < even
               /\ said \in {"KEEP GOING", "COAST"} => wk.reset - clock = Coast
               /\ said # "UNKNOWN"
    <3> DEFINE said == verdict(Taken, soon, clock)
               remains == W.reset - clock
               due  == ElapsedPct(clock, W.reset)
    <3>1. said = "BURN DOWN" => due < even
      <4>1. SUFFICES ASSUME said = "BURN DOWN" PROVE due < even
        OBVIOUS
      <4>2. forfeit(W, clock) >= Forfeit
        BY <4>1 DEF verdict
      <4>3. (100 - W.used) - (remains * 100) \div Week >= Forfeit
        BY <4>2 DEF forfeit
      <4>4. remains \in Int
        BY <2>3
      <4>5. W.used - due > Margin
        BY <2>3, <2>4
      <4>6. even = ((Week - remains) * 100) \div Week
        <5>1. W.reset \in Int
          BY <2>1, <2>2, NoWindowIsNone, WeeklyType
        <5>2. clock - (W.reset - Week) = Week - remains
          BY <2>1, <5>1
        <5> HIDE DEF remains
        <5> QED BY <2>2, <5>2
      <4> HIDE DEF remains, due, even, W
      <4>7. W.used \in 0 .. 100 /\ due \in Int
        BY <2>3 DEF due
      <4> QED BY <4>3, <4>4, <4>5, <4>6, <4>7, ForfeitIsBehind
    <3>2. said = "COAST" => remains <= Coast
      BY DEF verdict
    <3>3. said = "KEEP GOING" => ~ (p.delta > Margin /\ p.toReset > Coast)
      BY <2>2 DEF verdict, paceWarn
    <3>4. said # "UNKNOWN"
      BY <2>2 DEF verdict
    <3>5. said \in {"KEEP GOING", "COAST"} => remains = Coast
      <4> DEFINE delta == p.delta
                 toReset == p.toReset
      <4>1. toReset = remains /\ toReset \in Int /\ delta > Margin /\ toReset >= Coast
        BY <2>3, <2>4
      <4>2. said = "KEEP GOING" => ~ toReset > Coast
        BY <3>3, <4>1
      <4>3. remains \in Int /\ remains >= Coast
        BY <4>1
      <4>4. said = "KEEP GOING" => ~ remains > Coast
        BY <4>1, <4>2
      <4> HIDE DEF remains
      <4>5. (remains <= Coast => remains = Coast) /\ (~ remains > Coast => remains = Coast)
        BY <4>3
      <4> HIDE DEF said
      <4> QED BY <3>2, <4>4, <4>5, Zenon
    <3> HIDE DEF said
    <3> QED BY <2>2, <3>1, <3>4, <3>5 DEF said
  <2>8. wk.reset - clock = p.toReset
    BY <2>2, <2>3
  <2>9. GetPace(wk.used, wk.reset, clock) = p
    BY <2>2
  <2> HIDE DEF p, wk, even
  <2> QED BY <2>5, <2>6, <2>7, <2>8, <2>9
<1> QED BY <1>1, ReadInvariant, PTL

-----------------------------------------------------------------------------
(***************************************************************************)
(* What is enforced is so.                                                 *)
(***************************************************************************)
LEMMA DownshiftIsReal ==
  ASSUME SlotsType, ReadInv, NEW p \in Proc, ExecDownshifted(p)
  PROVE  \/ ReallyAhead(now[p], WeekReal(p \notin misled))
         \/ ReallyFull(now[p], BurstReal(outdated = {}), FiveHCap)
         \/ /\ run[p].confidence = "estimated" /\ run[p].used # NaN
            /\ run[p].used - ElapsedPct(now[p], run[p].reset) > Margin
            /\ run[p].reset >= now[p] + Coast
<1> USE Units
<1> DEFINE t  == now[p]
           fh == FiveHour(Taken, t)
<1>1. t \in 0 .. MaxClock /\ run[p] \in Tiers /\ run[p].ok
  <2>1. run[p].ok /\ run[p] \in Tiers \union {NoRun}
    BY DEF ExecDownshifted, ReadInv, RunsReal, ReadType
  <2> QED BY <2>1, NoWindowIsNone DEF SlotsType, NoRun
<1>2. CASE fhHot(Taken, t)
  <2>1. fh.ok /\ fh.used >= FiveHCap
    BY <1>2 DEF fhHot
  <2>2. fh # Pool!NoWindow
    BY <2>1, NoWindowIsNone
  <2>a. BurstReal(outdated = {}) \in BurstUse /\ BurstsOf(BurstReal(outdated = {}))
    BY TakenIsReal
  <2>3. ReallyFull(t, BurstReal(outdated = {}), FiveHCap)
    BY <1>1, <2>1, <2>2, <2>a, FiveHourIsReal
  <2> QED BY <2>3
<1>3. CASE ~ fhHot(Taken, t)
  <2> DEFINE pace == GetPace(run[p].used, run[p].reset, t)
             due  == ElapsedPct(t, run[p].reset)
  <2>1. DownshiftsByPace(run[p], t)
    BY <1>3 DEF ExecDownshifted, Enforces, Downshifts
  <2>2. pace.toReset >= Coast /\ pace.delta # NaN /\ pace.delta > Margin
    BY <2>1 DEF DownshiftsByPace, Over
  <2>3. run[p].used # NaN
    BY <2>2 DEF GetPace
  <2>4. pace.toReset = run[p].reset - t /\ pace.delta = run[p].used - due
    BY <2>3 DEF GetPace
  <2>5. run[p].reset - t >= Coast /\ run[p].used - due > Margin
    BY <2>2, <2>4
  <2>6. CASE run[p].confidence = "fresh"
    <3> DEFINE used == WeekReal(p \notin misled)
    <3>1. used \in WeekUse /\ OfWindow(run[p], Week, used)
      BY <1>1, <2>6 DEF ReadInv, ReadType, RunsReal, WeekReal
    <3> HIDE DEF used
    <3>2. ReallyAhead(t, used)
      BY <1>1, <2>5, <3>1, AheadIsReal
    <3> QED BY <3>2 DEF used
  <2>7. CASE run[p].confidence = "estimated"
    <3> DEFINE reset == run[p].reset
    <3>1. reset \in Nat /\ t \in Nat
      <4>1. \A tier \in Tiers : tier.reset \in Nat
        BY DEF Tiers
      <4>2. reset \in Nat
        BY <1>1, <4>1
      <4> HIDE DEF t
      <4> QED BY <1>1, <4>2
    <3>2. reset - t >= Coast
      BY <2>5
    <3>3. reset >= t + Coast
      <4> HIDE DEF reset, t
      <4> QED BY <3>1, <3>2
    <3> QED BY <2>3, <2>5, <2>7, <3>3
  <2> QED BY <1>1, <2>6, <2>7 DEF Tiers
<1> QED BY <1>2, <1>3

\* A run is downshifted only when the account really is ahead in a week, or
\* full in a five-hour window, that is not over when it starts, or is estimated
\* to be; though it reads the snapshots twice, sessions render in between and
\* percentages are taken back. Only readings from before a fall may be about what
\* was reached before it (run.go, "Fails OPEN").
THEOREM NoFalseDownshift == Spec => DownshiftsAreReal
<1>1. SlotsType /\ ReadInv =>
        [\A p \in Proc :
           ExecDownshifted(p) =>
             \/ ReallyAhead(now[p], WeekReal(p \notin misled))
             \/ ReallyFull(now[p], BurstReal(outdated = {}), FiveHCap)
             \/ /\ run[p].confidence = "estimated" /\ run[p].used # NaN
                /\ run[p].used - ElapsedPct(now[p], run[p].reset) > Margin
                /\ run[p].reset >= now[p] + Coast]_<<slots, decisions>>
  BY DownshiftIsReal
<1> QED BY <1>1, ReadInvariant, PTL DEF DownshiftsAreReal

LEMMA ReadingsTyped == ReadInv => DecisionsTypeOK
<1> SUFFICES ASSUME ReadInv PROVE DecisionsTypeOK
  OBVIOUS
<1>1. \A x \in Session : snaps[x] # NoSnap =>
        /\ snaps[x].at \in 0 .. MaxClock
        /\ snaps[x].wk \in WindowType \union {Nil} /\ snaps[x].fh \in WindowType \union {Nil}
  BY DEF ReadInv, ReadType, SnapType
<1>2. \A p \in Proc : run[p].ok => run[p].used \in Percent \union {NaN}
  <2> SUFFICES ASSUME NEW p \in Proc, run[p].ok PROVE run[p].used \in Percent \union {NaN}
    OBVIOUS
  <2>1. run[p] \in Tiers
    BY NoWindowIsNone DEF ReadInv, ReadType, NoRun
  <2> QED BY <2>1 DEF Tiers
<1> QED BY <1>1, <1>2 DEF ReadInv, ReadType, WeekUse, BurstUse, DecisionsTypeOK

-----------------------------------------------------------------------------
(***************************************************************************)
(* All commands together.                                                  *)
(***************************************************************************)

\* Every variable of the commands has its type, and a process runs one command
\* at a time, for every mix of commands, any number of them and any bounds.
THEOREM CommandsTyped == Spec => []TypeOK
<1>1. SlotsType => /\ clock \in 0 .. MaxClock /\ now \in [Proc -> 0 .. MaxClock]
                   /\ pc \in [Proc -> {"idle",
                        "check", "load", "backup", "copy", "write", "skill", "install",
                        "truncate", "fill", "rename", "look", "mark", "filling",
                        "empty", "lines", "weekly", "fiveHour"}]
  <2>1. Labels \subseteq {"idle",
          "check", "load", "backup", "copy", "write", "skill", "install",
          "truncate", "fill", "rename", "look", "mark", "filling",
          "empty", "lines", "weekly", "fiveHour"}
    BY DEF Labels, InitLabels, ConfigLabels, HookLabels, LogLabels, RunLabels
  <2> QED BY <2>1 DEF SlotsType
<1>2. TypeInv => SettingsTypeOK
  BY DEF TypeInv
<1>3. LogInv => LogTypeOK
  BY DEF LogInv
<1>4. SettingsTypeOK /\ ConfigTypeOK /\ WarnTypeOK /\ LogTypeOK /\ DecisionsTypeOK
        /\ SlotsType => TypeOK
  BY <1>1 DEF TypeOK
<1> QED BY <1>2, <1>3, <1>4, ReadingsTyped, TypeInvariant, KeepInvariant, MarkInvariant,
        LogInvariant, ReadInvariant, PTL

=============================================================================
