------------------------------ MODULE Pricing -------------------------------
(***************************************************************************)
(* What a percent of the weekly budget costs: the money that ccusage       *)
(* reports in blocks of five hours, shared out over the runs of the weekly *)
(* percentage, pooled over the last windows, and the cost accrued since a  *)
(* reading.                                                                *)
(*                                                                         *)
(*   internal/calib/compute.go   compute, costBetween, decodeBlocks,       *)
(*                               allAnthropic, combineWindows, CostSince   *)
(*                                                                         *)
(* A session shows the limits as they are, or the last ones of the week    *)
(* before; Account has the readings that are stale within their week, Warm *)
(* the caches of the result.  A sum of money is in fractions of a dollar so *)
(* that shares of a block are whole; a rate is a cost and the percents it  *)
(* paid for.  The rounding of the result to four decimals is left out.     *)
(***************************************************************************)
EXTENDS Calib

CONSTANTS
  BlockSpan,      \* length of a block of ccusage
  Dollar,         \* fractions in a dollar
  DisagreeRatio,  \* windows whose rates differ by more are of two regimes
  Week,           \* length of the weekly window
  Rates,          \* what a percent may really cost, in dollars
  Spends,         \* the dollars that may be spent in a unit of time
  MaxOther,       \* bound on the units with usage of another vendor
  MaxRows,        \* bound on the rows of the history
  MaxClock        \* bound on the wall clock

ASSUME PricingAssumption ==
  /\ Minute = 1 /\ MinRunDW > 0
  /\ {BlockSpan, Week, DisagreeRatio} \subseteq Nat \ {0}
  /\ Dollar \in Nat /\ \A n \in 1 .. BlockSpan : Dollar % n = 0
  /\ Rates \subseteq Nat \ {0} /\ Spends \subseteq Nat
  /\ {MaxOther, MaxRows, MaxClock} \subseteq Nat

VARIABLES
  clock,
  spent,    \* dollars spent on Claude in each unit of time so far
  other,    \* the units in which another vendor was used too
  blocks,   \* what ccusage reports: [s, e, cost, mixed]
  rate,     \* what a percent costs in each week so far
  hist      \* the history table

vars == <<clock, spent, other, blocks, rate, hist>>

Spent(t0, t1) == MapThenSumSet(LAMBDA u : spent[u], (t0 + 1) .. t1)

-----------------------------------------------------------------------------
(***************************************************************************)
(* ccusage: a block opens with the first usage after the previous one has  *)
(* run out, and ends, so far, with its latest usage.                       *)
(***************************************************************************)
Bill(c, isMixed) == IF isMixed THEN c + 1 ELSE c

Grown(b, u, bill, isMixed) ==
  [b EXCEPT !.e = u, !.cost = @ + bill, !.mixed = @ \/ isMixed]

Used(bs, u, c, isMixed) ==
  IF bs # <<>> /\ u <= Last(bs).s + BlockSpan
  THEN [bs EXCEPT ![Len(bs)] = Grown(@, u, Bill(c, isMixed), isMixed)]
  ELSE Append(bs, [s |-> u - 1, e |-> u, cost |-> Bill(c, isMixed),
                      mixed |-> isMixed])

Reported == ToSet(blocks)

\* Mutant: a block in which any model is of Anthropic counts.
Mutant_allAnthropic(b) == b.cost > 0

\* All models of the block, if any is named, are of Anthropic.
allAnthropic(b) == ~ b.mixed

\* A block that another vendor has a share in is dropped as a whole.
decodeBlocks(bs) == {b \in bs : allAnthropic(b)}

-----------------------------------------------------------------------------
\* Mutant: a block's money is spread up to the end of the time asked about.
Mutant_Share(b, t0, t1) ==
  LET overlap == Min({b.e, t1}) - Max({b.s, t0})
  IN IF overlap <= 0 THEN 0
     ELSE (b.cost * overlap * Dollar) \div (Max({b.e, t1}) - b.s)

\* The share of a block's cost in the time from t0 to t1.
Share(b, t0, t1) ==
  LET overlap == Min({b.e, t1}) - Max({b.s, t0})
  IN IF overlap <= 0 THEN 0 ELSE (b.cost * overlap * Dollar) \div (b.e - b.s)

costBetween(bs, t0, t1) == MapThenSumSet(LAMBDA b : Share(b, t0, t1), bs)

\* Cost accrued since a reading taken at t0.
CostSince(t0) == costBetween(decodeBlocks(Reported), t0, clock)

\* The windows that calibrate: those of the runs that cost something.
Windows ==
  {w \in {[bnd |-> r.bnd, t0 |-> r.t0, t1 |-> r.t1, dw |-> r.dw,
           cost |-> costBetween(decodeBlocks(Reported), r.t0, r.t1)] : r \in wkRuns(hist)} :
     w.cost > 0}

\* w costs more than n times as much a percent as u.
Dearer(w, u, n) == w.cost * u.dw > n * u.cost * w.dw

\* Mutant: the windows are pooled whatever they say.
Mutant_Disagree(ws) == FALSE

Disagree(ws) == \E w, u \in ws : Dearer(w, u, DisagreeRatio)

Newest(ws) == CHOOSE w \in ws : \A u \in ws : u.bnd <= w.bnd

\* Windows that agree are pooled by weight, else the newest is trusted.
combineWindows(ws) ==
  LET used == IF Disagree(ws) THEN {Newest(ws)} ELSE ws
  IN [cost |-> MapThenSumSet(LAMBDA w : w.cost, used),
      dw   |-> MapThenSumSet(LAMBDA w : w.dw, used)]

\* $/1%, once there is a window that calibrates.
compute == combineWindows(Windows)

-----------------------------------------------------------------------------
WeekOf(t) == t \div Week

\* The limits of a week at a time: whole percents of its budget, and its reset.
Limits(w, t) ==
  [wk |-> Spent(Week * w, t) \div rate[w + 1], wkReset |-> Week * (w + 1),
   ses |-> Nil, sesReset |-> Nil]

\* What a session may show: the limits as they are or, when it has been idle
\* since the week before, the last ones of that week.
Reading ==
  LET w == WeekOf(clock)
  IN {Limits(w, clock)} \union IF w = 0 THEN {} ELSE {Limits(w - 1, Week * w)}

\* It does not go back to a week that it has left.
NotBack(x, pay) == \A s \in RowsOfSession(hist, x) : s.r.wkReset <= pay.wkReset

Init ==
  /\ clock = 0
  /\ spent = <<>>
  /\ other = {}
  /\ blocks = <<>>
  /\ \E x \in Rates : rate = <<x>>
  /\ hist = {}

\* A unit of time in which c dollars go to Claude and perhaps one elsewhere; a
\* week may start at a new rate.
Pass(c, isMixed) ==
  /\ clock < MaxClock
  /\ isMixed => Cardinality(other) < MaxOther
  /\ clock' = clock + 1
  /\ spent' = Append(spent, c)
  /\ other' = IF isMixed THEN other \union {clock + 1} ELSE other
  /\ blocks' = IF c > 0 \/ isMixed THEN Used(blocks, clock + 1, c, isMixed)
                                   ELSE blocks
  /\ IF (clock + 1) % Week = 0
     THEN \E x \in Rates : rate' = Append(rate, x)
     ELSE rate' = rate
  /\ UNCHANGED hist

\* A render captures its reading, unless that repeats the last row.
Render ==
  \E x \in Session, pay \in Reading :
    LET r == PreparedRow(pay, clock, x)
    IN /\ NotBack(x, pay)
       /\ Appends(hist, r)
       /\ NextId(hist) <= MaxRows
       /\ hist' = hist \union {[id |-> NextId(hist), r |-> r]}
  /\ UNCHANGED <<clock, spent, other, blocks, rate>>

Next == Render \/ \E c \in Spends, isMixed \in BOOLEAN : Pass(c, isMixed)

Spec == Init /\ [][Next]_vars

-----------------------------------------------------------------------------
(***************************************************************************)
(* Correctness.                                                            *)
(***************************************************************************)
Abs(n) == IF n < 0 THEN -n ELSE n

Cut(b, t) == b.s < t /\ t < b.e

\* The blocks that are cut at either end of a stretch of time, and those in it
\* that another vendor has a share in.
CutBlocks(t0, t1)   == {b \in Reported : Cut(b, t0) \/ Cut(b, t1)}
MixedBlocks(t0, t1) == {b \in Reported : b.mixed /\ b.s < t1 /\ t0 < b.e}

BillOf(bs) == Dollar * MapThenSumSet(LAMBDA b : b.cost, bs)

\* A stretch of time is charged no more than was spent on Claude in it and in
\* the blocks cut at its ends, so nothing of another vendor's; and what it is
\* charged too little is in such a block or in one that is shared with another
\* vendor.  A block may go on growing after the stretch is over (costBetween,
\* allAnthropic).
CostIsWithinEdges ==
  \A t0 \in 0 .. clock : \A t1 \in (t0 + 1) .. clock :
    LET charged == costBetween(decodeBlocks(Reported), t0, t1)
        true    == Dollar * Spent(t0, t1)
    IN /\ charged <= true + BillOf(decodeBlocks(CutBlocks(t0, t1)))
       /\ true <= charged + BillOf(CutBlocks(t0, t1) \union MixedBlocks(t0, t1))

\* While a reading ages, the cost accrued since never falls, whatever a
\* growing block does to its shares: the extrapolated percentage only rises
\* until the next reading, unless another vendor is used.
AccruedNeverFalls ==
  [][other' = other => \A t0 \in 0 .. clock : CostSince(t0)' >= CostSince(t0)]_vars

\* At its limit a reading no longer tells what was spent.
Capped(w) == \E s \in hist : s.r.wkReset = w.bnd /\ s.r.wk = 100

RateOf(w) == rate[w.bnd \div Week]

\* Rates so far apart that their windows disagree in spite of whole percents.
Apart(x, y) ==
  \/ (MinRunDW - 1) * x >= DisagreeRatio * (MinRunDW + 1) * y
  \/ (MinRunDW - 1) * y >= DisagreeRatio * (MinRunDW + 1) * x

\* When no block leaves a doubt and no reading is at the limit, $/1% is off by
\* less than the one percent that readings in whole percents lose of the least
\* climb: while the rate stays, and as soon as one window of a new, sharply
\* different rate calibrates (boundaryRun, combineWindows).
RateIsTheNewest ==
  LET ws == Windows
      x == RateOf(Newest(ws))
      Sure == \A w \in ws :
                /\ CutBlocks(w.t0, w.t1) \union MixedBlocks(w.t0, w.t1) = {}
                /\ ~ Capped(w)
  IN /\ ws # {} /\ Sure
     /\ \/ \A w \in ws : RateOf(w) = x
        \/ \E w \in ws : Apart(RateOf(w), x)
     => MinRunDW * Abs(compute.cost - Dollar * x * compute.dw)
          < Dollar * x * compute.dw

=============================================================================
