----------------------------- MODULE Decisions ------------------------------
(***************************************************************************)
(* What run, check, status and warn make of the same snapshots.  The       *)
(* account is spent by sessions and elsewhere; a session learns its state  *)
(* at an API turn and shows that reading, with a new time, at every render *)
(* until its next turn.  The percentages may be taken back within their    *)
(* windows, which other sessions learn later or not at all.                *)
(*                                                                         *)
(*   internal/run/run.go            DownshiftEnv, Run                      *)
(*   internal/report/report.go      ResolveWeekly, PacePhrase              *)
(*   internal/status/check.go       verdict and what goes into it          *)
(*   internal/pool, profile         GetPace, ElapsedFraction               *)
(*                                                                         *)
(* Time is in parts of the week, percentages are whole.                    *)
(***************************************************************************)
EXTENDS Warn

CONSTANTS
  Week, FiveHours,  \* the lengths of the windows
  Slack,            \* by how much a reset may exceed them to be plausible
  Slip,             \* by how much the resets a session reports may be late
  PoolJitter,
  Weight,           \* profile: the activity in each part of the week
  Stale,            \* CCPOOL_STALE_SECS
  FiveHCap, SesFull, WeeklyLow, Forfeit,
  Modes,            \* CCPOOL_DOWNSHIFT: auto enforces, advise only prints
  Estimates,        \* $/1% and what was spent since, or Nil: one is not known
  Spends,           \* by how much both percentages may rise at a time
  MaxSpends, MaxRenders,   \* bounds on spending and renders
  MaxDrops,         \* how often a percentage is taken back within its window
  MaxRuns           \* and on the runs at a time

Pool == INSTANCE Pool

ASSUME DecisionsAssumption ==
  /\ {Week, FiveHours} \subseteq Nat \ {0}
  /\ {Slack, PoolJitter, MaxSpends, MaxRenders, MaxDrops, MaxRuns} \subseteq Nat
  /\ {Coast, Margin, Stale, MaxStale, Forfeit} \subseteq Nat /\ Margin + Forfeit > 0
  /\ {FiveHCap, SesFull, SesWarn, WeeklyLow} \subseteq Nat
  /\ Modes \subseteq {"auto", "advise"}
  /\ Weight \in [0 .. Week - 1 -> Nat] /\ Slip \in [Session -> SUBSET Nat]
  /\ Spends \subseteq [wk : Nat, fh : Nat]
  /\ Estimates \ {Nil} \subseteq [dpp : Nat, accrued : Nat]
  /\ Stale <= MaxStale
  /\ \A x \in Session : \A j \in Slip[x] : j <= PoolJitter /\ j < Coast
  /\ 2 * PoolJitter < Week   \* the resets of two weeks are never taken for one
  /\ Nil \notin Int /\ Nil \notin [delta : Int, toReset : Int]
  /\ Nil \notin [used : Int, reset : Int]

VARIABLES
  spent,    \* the percentage used in each week
  burst,    \* and in each five-hour window
  snaps,    \* the snapshots table: session -> snapshot, or none
  run,      \* the weekly reading of each run
  spends, renders, drops,
  \* ghosts
  spentMost, burstMost,   \* the most that was ever used in each window
  outdated,  \* the sessions whose snapshot is from before a fall
  misled     \* the runs whose weekly reading may be

most      == <<spentMost, burstMost>>
bounds    == <<spends, renders, drops>>
world     == <<spent, burst, snaps, bounds, most, outdated>>
decisions == <<world, run, misled>>

NoSnap == [at |-> Nil]
Taken  == {snaps[x] : x \in {y \in Session : snaps[y] # NoSnap}}

WeekOf(t)  == t \div Week
BurstOf(t) == t \div FiveHours

-----------------------------------------------------------------------------
(***************************************************************************)
(* Pace.                                                                   *)
(***************************************************************************)
\* The activity from time 0 to each later one.
Activity[t \in 0 .. MaxClock + 2 * Week] ==
  IF t = 0 THEN 0 ELSE Activity[t - 1] + Weight[(t - 1) % Week]

Integral(a, b) == Activity[b] - Activity[a]

Clamp(v, lo, hi) == IF v < lo THEN lo ELSE IF v > hi THEN hi ELSE v

\* How much of a week should be used by now; without any weight, of its time.
ElapsedPct(t, reset) ==
  LET start == reset - Week
      whole == Integral(start, reset)
  IN IF whole <= 0 THEN Clamp(((t - start) * 100) \div Week, 0, 100)
     ELSE Clamp((Integral(start, t) * 100) \div whole, 0, 100)

\* used may be no number.
NaN == Nil

GetPace(used, reset, t) ==
  [delta |-> IF used = NaN THEN NaN ELSE used - ElapsedPct(t, reset),
   toReset |-> reset - t]

\* Mutant: not at most, rather than over.
Mutant_Over(delta, m) == ~ (delta # NaN /\ delta <= m)

\* A comparison with NaN is false.
Over(delta, m)   == delta # NaN /\ delta > m
AtMost(delta, m) == delta # NaN /\ delta <= m

-----------------------------------------------------------------------------
(***************************************************************************)
(* The readings, and what they decide.                                     *)
(***************************************************************************)
Weekly(taken, t) ==
  Pool!GetWindow({s.wk : s \in {u \in taken : u.wk # Nil}}, t, Week + Slack)
FiveHour(taken, t) ==
  Pool!GetWindow({s.fh : s \in {u \in taken : u.fh # Nil}}, t, FiveHours + Slack)

\* What a stale percentage has grown to: a calibration may be 0.
Extrapolated(used, accrued, dpp) ==
  IF dpp = 0 THEN IF accrued = 0 THEN NaN ELSE 100
  ELSE Clamp(used + accrued \div dpp, 0, 100)

ResolveWeekly(taken, t, estimate) ==
  LET w == Weekly(taken, t)
      Tier(used, c) == [ok |-> TRUE, used |-> used, reset |-> w.reset, confidence |-> c]
  IN IF ~ w.ok THEN Pool!NoWindow
     ELSE IF Pool!DataAge(taken, t) <= Stale THEN Tier(w.used, "fresh")
     ELSE IF estimate # Nil
          THEN Tier(Extrapolated(w.used, estimate.accrued, estimate.dpp), "estimated")
     ELSE Tier(w.used, "stale")

Usable(wk) == wk.ok /\ wk.confidence # "stale"

\* The second read of DownshiftEnv.
fhHot(taken, t) ==
  LET fh == FiveHour(taken, t) IN
  fh.ok /\ Pool!DataAge(taken, t) <= Stale /\ fh.used >= FiveHCap

DownshiftsByPace(wk, t) ==
  LET p == GetPace(wk.used, wk.reset, t) IN p.toReset >= Coast /\ Over(p.delta, Margin)

Downshifts(wk, hot, t) ==
  \/ hot /\ AtMost(GetPace(wk.used, wk.reset, t).delta, Margin)
  \/ DownshiftsByPace(wk, t)

\* status.
PacePhrase(p) ==
  IF p.toReset < Coast THEN "burn freely"
  ELSE IF Over(p.delta, Margin) THEN "ahead"
  ELSE IF p.delta # NaN /\ p.delta < - Margin THEN "under" ELSE "on pace"

\* Mutant: check warns near the reset.
Mutant_paceWarn(wk, t) ==
  LET p == GetPace(wk.used, wk.reset, t) IN p.delta > Margin /\ p.toReset < Coast

\* check.
paceWarn(wk, t) ==
  LET p == GetPace(wk.used, wk.reset, t) IN p.delta > Margin /\ p.toReset > Coast

\* What is left at the reset, at an even pace.
forfeit(wk, t) == (100 - wk.used) - ((wk.reset - t) * 100) \div Week

verdict(taken, sesSoon, t) ==
  LET ses == FiveHour(taken, t)
      wk  == Weekly(taken, t)
      low == wk.ok /\ wk.used >= WeeklyLow
  IN IF ses.ok /\ (ses.used >= SesFull \/ sesSoon) /\ ~ low THEN "SESSION-LIMITED"
     ELSE IF low /\ wk.reset - t <= Coast THEN "COAST"
     ELSE IF low THEN "WIND DOWN"
     ELSE IF wk.ok /\ forfeit(wk, t) >= Forfeit THEN "BURN DOWN"
     ELSE IF ~ wk.ok /\ ~ ses.ok THEN "UNKNOWN"
     ELSE IF wk.ok /\ paceWarn(wk, t) THEN "PACE DOWN"
     ELSE "KEEP GOING"

\* A recent burn is projected only for a live five-hour window that is of the plan.
MayBeSoon(taken, t) ==
  {FALSE} \union {FiveHour(taken, t).ok /\ Pool!Reported(taken, FiveHours)}

\* warn: its view of the snapshots.
View(taken, t) ==
  LET wk == Weekly(taken, t)
      fh == FiveHour(taken, t)
  IN [age |-> Pool!DataAge(taken, t),
      wk |-> IF wk.ok THEN GetPace(wk.used, wk.reset, t) ELSE Nil,
      fh |-> IF fh.ok THEN fh.used ELSE Nil,
      own |-> Nil]

-----------------------------------------------------------------------------
NoRun == Pool!NoWindow

InitDecisions ==
  /\ spent = [w \in 0 .. WeekOf(MaxClock) |-> 0]
  /\ burst = [b \in 0 .. BurstOf(MaxClock) |-> 0]
  /\ snaps = [x \in Session |-> NoSnap]
  /\ run = [p \in Proc |-> NoRun]
  /\ spends = 0 /\ renders = 0 /\ drops = 0
  /\ spentMost = spent /\ burstMost = burst
  /\ outdated = {} /\ misled = {}

Most(f, g) == [w \in DOMAIN g |-> IF f[w] > g[w] THEN f[w] ELSE g[w]]

\* Some session, or another device, spends.
Spend ==
  /\ spends < MaxSpends
  /\ spends' = spends + 1
  /\ \E up \in Spends :
       /\ spent' = [spent EXCEPT ![WeekOf(clock)] = @ + up.wk]
       /\ burst' = [burst EXCEPT ![BurstOf(clock)] = @ + up.fh]
  /\ spent'[WeekOf(clock)] <= 100 /\ burst'[BurstOf(clock)] <= 100
  /\ spentMost' = Most(spent', spentMost) /\ burstMost' = Most(burst', burstMost)
  /\ UNCHANGED <<slots, snaps, renders, drops, run, outdated, misled>>

\* A percentage starts over within its window, whose reset stays.
TakenBack ==
  /\ drops < MaxDrops
  /\ drops' = drops + 1
  /\ \/ /\ spent[WeekOf(clock)] > 0
        /\ spent' = [spent EXCEPT ![WeekOf(clock)] = 0]
        /\ UNCHANGED burst
     \/ /\ burst[BurstOf(clock)] > 0
        /\ burst' = [burst EXCEPT ![BurstOf(clock)] = 0]
        /\ UNCHANGED spent
  /\ outdated' = {x \in Session : snaps[x] # NoSnap /\ snaps[x].wk # Nil}
  /\ misled' = {p \in Proc : run[p].ok}
  /\ UNCHANGED <<slots, snaps, spends, renders, run, most>>

Renders ==
  /\ renders < MaxRenders
  /\ renders' = renders + 1
  /\ UNCHANGED <<slots, spent, burst, spends, drops, most, run, misled>>

\* A session renders after an API turn, with the account as it is.
RenderNew(x) ==
  /\ Renders
  /\ \E late \in Slip[x] :
       snaps' = [snaps EXCEPT ![x] =
         [at |-> clock,
          wk |-> [used |-> spent[WeekOf(clock)], reset |-> (WeekOf(clock) + 1) * Week + late],
          fh |-> [used |-> burst[BurstOf(clock)],
                  reset |-> (BurstOf(clock) + 1) * FiveHours + late]]]
  /\ outdated' = outdated \ {x}

\* It renders again what it had.
RenderAgain(x) ==
  /\ Renders
  /\ snaps[x] # NoSnap
  /\ snaps' = [snaps EXCEPT ![x].at = clock]
  /\ UNCHANGED outdated

\* It renders before its first API response: without rate limits.
RenderBare(x) ==
  /\ Renders
  /\ snaps' = [snaps EXCEPT ![x] = [at |-> clock, wk |-> Nil, fh |-> Nil]]
  /\ outdated' = outdated \ {x}

\* The command takes the place of the process.
Exec(p) ==
  /\ Leave(p)
  /\ run' = [run EXCEPT ![p] = NoRun]
  /\ misled' = misled \ {p}

\* With the mode off, or a model that the user has set, there is no decision and
\* the command gets its environment as it is.
Run(p) ==
  /\ Cardinality({q \in Proc : pc[q] \in {"weekly", "fiveHour"}}) < MaxRuns
  /\ Launch(p, "weekly")
  /\ UNCHANGED <<world, run, misled>>

\* ResolveWeekly, the first read of the snapshots.
ReadWeekly(p) ==
  /\ pc[p] = "weekly"
  /\ \E estimate \in Estimates :
       LET wk == ResolveWeekly(Taken, now[p], estimate) IN
       IF Usable(wk)
       THEN /\ run' = [run EXCEPT ![p] = wk]
            /\ misled' = IF outdated = {} THEN misled ELSE misled \union {p}
            /\ Goto(p, "fiveHour")
       ELSE Exec(p)
  /\ UNCHANGED world

\* The second read, and the decision: the command gets the environment of the
\* user with the cheaper model in it, or, also in advise mode, as it is.
Enforces(p) == Downshifts(run[p], fhHot(Taken, now[p]), now[p])

ExecDownshifted(p) ==
  /\ pc[p] = "fiveHour" /\ "auto" \in Modes
  /\ Enforces(p)
  /\ Exec(p)
  /\ UNCHANGED world

ExecAsIs(p) ==
  /\ pc[p] = "fiveHour"
  /\ ~ Enforces(p) \/ "advise" \in Modes
  /\ Exec(p)
  /\ UNCHANGED world

DecisionsNext ==
  \/ Spend \/ TakenBack
  \/ \E x \in Session : RenderNew(x) \/ RenderAgain(x) \/ RenderBare(x)
  \/ \E p \in Proc :
       Run(p) \/ ReadWeekly(p)
       \/ ExecDownshifted(p) \/ ExecAsIs(p)

-----------------------------------------------------------------------------
Percent == 0 .. 100
WindowType == [used : Percent, reset : Nat]

\* Every variable has its type.
DecisionsTypeOK ==
  /\ spent \in [0 .. WeekOf(MaxClock) -> Percent] /\ burst \in [0 .. BurstOf(MaxClock) -> Percent]
  /\ \A x \in Session : snaps[x] # NoSnap =>
       /\ snaps[x].at \in 0 .. MaxClock
       /\ snaps[x].wk \in WindowType \union {Nil} /\ snaps[x].fh \in WindowType \union {Nil}
  /\ \A p \in Proc :
       run[p].ok => run[p].used \in Percent \union {NaN}
  /\ spends \in 0 .. MaxSpends /\ renders \in 0 .. MaxRenders /\ drops \in 0 .. MaxDrops
  /\ spentMost \in [0 .. WeekOf(MaxClock) -> Percent]
  /\ burstMost \in [0 .. BurstOf(MaxClock) -> Percent]
  /\ outdated \subseteq Session /\ misled \subseteq Proc

Late == UNION {Slip[x] : x \in Session}

\* What counts as real: the percentages as they are; but as long as readings from
\* before a fall are about, those that were reached in the window.
WeekReal(current)  == IF current THEN spent ELSE spentMost
BurstReal(current) == IF current THEN burst ELSE burstMost

\* With these percentages the account is ahead of pace at t, in a week that is
\* not over then.
ReallyAhead(t, used) ==
  \E w \in DOMAIN used, late \in Late :
    /\ w >= WeekOf(t)
    /\ used[w] - ElapsedPct(t, (w + 1) * Week + late) > Margin

\* A five-hour window that is not over at t, but for the lateness of its reset,
\* is as full.
ReallyFull(t, used, level) ==
  \E b \in DOMAIN used, late \in Late :
    (b + 1) * FiveHours + late > t /\ used[b] >= level

\* No alarm is false, however stale the readings are that count as fresh and
\* however they overlap: who is told to slow down for the week, to stop for the
\* week or to wait for the session really is that far, in a window that is not
\* over. Only while some session still shows a reading from before a fall may an
\* alarm be about what was taken back, and then it was reached (check.go, verdict;
\* warn.go, "never a false alarm"; report.go; pool.go, GetWindow).
AlarmsAreReal ==
  LET week  == WeekReal(outdated = {})
      five  == BurstReal(outdated = {})
      wk == ResolveWeekly(Taken, clock, Nil)
      said == verdict(Taken, FALSE, clock)
      warned == signals(View(Taken, clock))
      phrase == IF wk.ok THEN PacePhrase(GetPace(wk.used, wk.reset, clock)) ELSE "none"
  IN /\ (said = "PACE DOWN" \/ "pace" \in warned \/ phrase = "ahead") => ReallyAhead(clock, week)
     /\ said = "WIND DOWN" => \E w \in DOMAIN week : w >= WeekOf(clock) /\ week[w] >= WeeklyLow
     /\ said = "SESSION-LIMITED" => ReallyFull(clock, five, SesFull)
     /\ "session" \in warned => ReallyFull(clock, five, SesWarn)

\* What enforces does not contradict what advises: when run would downshift for
\* the week on fresh data, status says ahead, warn warns, and check does not say
\* to go on; but for a reset exactly Coast away, where the comparisons differ.
\* Only where the profile expects less of the week to be used by now than an
\* even pace does may check say to burn more, since it knows no profile there
\* (README, "can't disagree"; report.go, margin and coast; check.go, forfeit).
AdviceAgrees ==
  LET wk == ResolveWeekly(Taken, clock, Nil)
      even == ((clock - (wk.reset - Week)) * 100) \div Week
      atCoast == wk.reset - clock = Coast
      said == {verdict(Taken, soon, clock) : soon \in MayBeSoon(Taken, clock)}
  IN wk.ok /\ wk.confidence = "fresh" /\ DownshiftsByPace(wk, clock) =>
       /\ PacePhrase(GetPace(wk.used, wk.reset, clock)) = "ahead"
       /\ atCoast \/ "pace" \in signals(View(Taken, clock))
       /\ "BURN DOWN" \in said => ElapsedPct(clock, wk.reset) < even
       /\ {"KEEP GOING", "COAST"} \cap said # {} => atCoast
       /\ "UNKNOWN" \notin said

\* A run is downshifted only when the account really is ahead in a week, or full
\* in a five-hour window, that is not over when it starts, or is estimated to
\* be; though it reads the snapshots twice and sessions render in between. Only a
\* run that has a reading from before a fall may act on what was taken back, and
\* then it was reached (run.go, "Fails OPEN").
DownshiftsAreReal ==
  [][\A p \in Proc :
       ExecDownshifted(p) =>
         \/ ReallyAhead(now[p], WeekReal(p \notin misled))
         \/ ReallyFull(now[p], BurstReal(outdated = {}), FiveHCap)
         \/ /\ run[p].confidence = "estimated" /\ run[p].used # NaN
            /\ run[p].used - ElapsedPct(now[p], run[p].reset) > Margin
            /\ run[p].reset >= now[p] + Coast]_<<slots, decisions>>

=============================================================================
