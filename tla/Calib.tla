------------------------------- MODULE Calib --------------------------------
(***************************************************************************)
(* Reconstruction of the weekly windows that calibrate $/1%: the climb of  *)
(* each and the time it took, which the cost is then divided by.           *)
(*                                                                         *)
(*   internal/store/query.sql        WkPoints                              *)
(*   internal/calib/compute.go       wkRuns, runsFromPoints, boundaryRun,  *)
(*                                   hasSustainedDecrease                  *)
(***************************************************************************)
EXTENDS History, SequencesExt

CONSTANTS
  Minute,        \* the grain of the points
  MinRunDW,      \* a window calibrates with this climb
  MinRunDT,      \* over this time
  GuardDropTol,  \* a fall deeper than this
  GuardDropDur,  \* that lasts this long is a real one
  CalibWindows   \* how many windows are pooled

ASSUME CalibAssumption ==
  /\ {MinRunDW, MinRunDT, GuardDropTol, GuardDropDur, CalibWindows} \subseteq Nat
  /\ Minute \in Nat \ {0}

ToMinute(t) == (t \div Minute) * Minute

Boundaries(h) == {s.r.wkReset : s \in h} \ {Nil}

Sooner(times, t) == {u \in times : u < t}

\* As a sequence: time i is the one with i - 1 before it.
InOrder(times) ==
  [i \in 1 .. Cardinality(times) |->
     CHOOSE t \in times : Cardinality(Sooner(times, t)) = i - 1]

\* The points of a boundary by minute, each with the greatest percentage of
\* its minute.
WkPoints(h, bnd) ==
  LET rows == {s \in h : s.r.wkReset = bnd}
      minutes == InOrder({ToMinute(s.r.t) : s \in rows})
  IN [i \in DOMAIN minutes |->
        LET m == minutes[i]
        IN [minute |-> m, wk |-> Max({s.r.wk : s \in {u \in rows : ToMinute(u.r.t) = m}})]]

NotDipping == [dips |-> FALSE, since |-> 0]

\* A fall below the running maximum that lasts.
hasSustainedDecrease(pts) ==
  LET Scan(acc, p) ==
        IF p.wk < acc.max - GuardDropTol
        THEN [acc EXCEPT !.dip = IF @.dips THEN @
                                 ELSE [dips |-> TRUE, since |-> p.minute],
                         !.found = @ \/ ( /\ acc.dip.dips
                                          /\ p.minute - acc.dip.since >= GuardDropDur)]
        ELSE [acc EXCEPT !.dip = NotDipping,
                         !.max = IF p.wk > @ THEN p.wk ELSE @]
  IN FoldLeft(Scan, [max |-> pts[1].wk, dip |-> NotDipping, found |-> FALSE], pts).found

\* A sample that carries a reset already past is stale: the points are in order,
\* so those up to the reset come first.
Clip(pts, bnd) ==
  SubSeq(pts, 1, Cardinality({i \in DOMAIN pts : pts[i].minute <= bnd}))

\* The run of a window, if it has one: at most one, so a set.
boundaryRun(pts, bnd) ==
  LET win == Clip(pts, bnd)
      dw == Max({win[i].wk : i \in DOMAIN win}) - win[1].wk
  IN IF \/ Len(win) < 2
        \/ hasSustainedDecrease(win)
        \/ dw < MinRunDW
        \/ Last(win).minute - win[1].minute < MinRunDT
     THEN {}
     ELSE {[t0 |-> win[1].minute, t1 |-> Last(win).minute, dw |-> dw, bnd |-> bnd]}

\* The runs of the last windows. Only the cost of a run's time and its climb
\* are used further; its boundary is kept to tell windows apart.
wkRuns(h) ==
  LET runs == UNION {boundaryRun(WkPoints(h, b), b) : b \in Boundaries(h)}
  IN IF CalibWindows = 0 THEN runs
     ELSE {r \in runs : Cardinality({u \in runs : u.bnd > r.bnd}) < CalibWindows}

=============================================================================
