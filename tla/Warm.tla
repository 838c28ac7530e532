-------------------------------- MODULE Warm --------------------------------
(***************************************************************************)
(* Who refreshes $/1% and rolls the backup, and when.  A render that finds *)
(* the calibration stale forks a detached process, at most one in five     *)
(* minutes by a marker file; that process, and every readout, looks at the *)
(* cached calibration, runs ccusage behind a cache of its own, and stores  *)
(* what it computed.  All of them run at once, and each goes by the time   *)
(* at which it started.                                                    *)
(*                                                                         *)
(* There is no clock: what is kept is the age of each time stamp, so that  *)
(* behaviours may go on for ever.  An age stops growing when no comparison *)
(* can tell it from a greater one.                                         *)
(*                                                                         *)
(*   internal/statusline/command.go   warm, WarmCalib                      *)
(*   internal/calib/compute.go        DollarPerPct, Stale, ccusageRaw      *)
(*   internal/store/facade.go         BackupIfStale                        *)
(***************************************************************************)
EXTENDS Integers

CONSTANTS
  Proc,
  None,
  Ttl,         \* CCPOOL_CALIB_TTL
  BlocksTtl,   \* blocksTTL
  MarkerSecs,  \* the 300 s of the marker
  BackupSecs,  \* CCPOOL_BACKUP_SECS
  MaxLife,     \* bound on the time that a process lives
  MaxFailures  \* bound on what goes wrong

ASSUME WarmAssumption ==
  /\ {Ttl, BlocksTtl, MarkerSecs, BackupSecs} \subseteq Nat \ {0}
  /\ {MaxLife, MaxFailures} \subseteq Nat
  /\ None \notin Int

VARIABLES
  calib,    \* kv row calibration: the age of its stamp, and (ghost) by how
            \* much the costs it was computed from are older than the stamp
  blocks,   \* kv row blocks: the age of its stamp; its costs are no older
  marker,   \* age of the marker file
  backup,   \* age of last_backup
  runs,     \* the history has a window to calibrate on
  pc,
  age,      \* time since the process took its now
  lag,      \* by how much the costs it holds are older than its now
  raced,    \* ghost: the marker was written since the process looked at it
  failures

kv    == <<calib, blocks, backup>>
vars  == <<calib, blocks, marker, backup, runs, pc, age, lag, raced, failures>>

Goto(p, l) == pc' = [pc EXCEPT ![p] = l]

\* p ends: its locals are forgotten.
End(p) ==
  /\ Goto(p, "idle")
  /\ age' = [age EXCEPT ![p] = 0]
  /\ lag' = [lag EXCEPT ![p] = 0]
  /\ raced' = [raced EXCEPT ![p] = FALSE]

Fail == failures < MaxFailures /\ failures' = failures + 1

\* What p computes as now - at, of a stamp that is a old.
Elapsed(p, a) == a - age[p]

Init ==
  /\ calib = None /\ blocks = None /\ marker = None /\ backup = None
  /\ runs = FALSE
  /\ pc = [p \in Proc |-> "idle"]
  /\ age = [p \in Proc |-> 0]
  /\ lag = [p \in Proc |-> 0]
  /\ raced = [p \in Proc |-> FALSE]
  /\ failures = 0

-----------------------------------------------------------------------------
(***************************************************************************)
(* A render: warm.                                                         *)
(***************************************************************************)
Stale(p) == calib # None => Elapsed(p, calib.age) >= Ttl

\* A render that finds the calibration fresh leaves no trace.
FindsStale(p) ==
  /\ pc[p] = "idle"
  /\ Stale(p)
  /\ Goto(p, "stat")
  /\ UNCHANGED <<kv, marker, runs, age, lag, raced, failures>>

\* Without a store the calibration counts as stale.
NoStore(p) ==
  /\ pc[p] = "idle"
  /\ Goto(p, "stat")
  /\ UNCHANGED <<kv, marker, runs, age, lag, raced, failures>>

\* Mutant: a marker counts for less than its time.
Mutant_Recent(p) == marker # None /\ Elapsed(p, marker) < MarkerSecs - 1

Recent(p) == marker # None /\ Elapsed(p, marker) < MarkerSecs

\* Mutant: every look at the marker renews it.
Mutant_Throttled(p) ==
  /\ pc[p] = "stat"
  /\ Recent(p)
  /\ marker' = 0
  /\ End(p)
  /\ UNCHANGED <<kv, runs, failures>>

Throttled(p) ==
  /\ pc[p] = "stat"
  /\ Recent(p)
  /\ End(p)
  /\ UNCHANGED <<kv, marker, runs, failures>>

MayWarm(p) ==
  /\ pc[p] = "stat"
  /\ ~ Recent(p)
  /\ Goto(p, "mark")
  /\ UNCHANGED <<kv, marker, runs, age, lag, raced, failures>>

\* The marker has the time at which it is written.
WritesMarker(p) ==
  /\ pc[p] = "mark"
  /\ Goto(p, "fork")
  /\ marker' = 0
  /\ raced' = [q \in Proc |-> q # p /\ pc[q] = "mark"]
  /\ UNCHANGED <<kv, runs, age, lag, failures>>

\* The error is ignored.
MarkerFails(p) ==
  /\ pc[p] = "mark"
  /\ Fail
  /\ Goto(p, "fork")
  /\ raced' = [raced EXCEPT ![p] = FALSE]
  /\ UNCHANGED <<kv, marker, runs, age, lag>>

\* The child takes the place of its parent, of which nothing more matters, and
\* takes its own now.
Fork(p) ==
  /\ pc[p] = "fork"
  /\ Goto(p, "warm")
  /\ age' = [age EXCEPT ![p] = 0]
  /\ UNCHANGED <<kv, marker, runs, lag, raced, failures>>

\* The log does not open, the fork fails, or the child cannot open the store.
ForkFails(p) ==
  /\ pc[p] = "fork"
  /\ Fail
  /\ End(p)
  /\ UNCHANGED <<kv, marker, runs>>

-----------------------------------------------------------------------------
(***************************************************************************)
(* DollarPerPct: as the child ("warm") and as a readout ("status") runs it.*)
(***************************************************************************)
Kinds == {"warm", "status"}
Running == [warm |-> "warm: ccusage", status |-> "status: ccusage"]
Storing == [warm |-> "warm: store", status |-> "status: store"]

StatusStarts(p) ==
  /\ pc[p] = "idle"
  /\ Goto(p, "status")
  /\ UNCHANGED <<kv, marker, runs, age, lag, raced, failures>>

\* The child goes on to the backup, a readout answers.
Done(p, kind) ==
  IF kind = "status" THEN End(p)
  ELSE /\ Goto(p, "backup")
       /\ lag' = [lag EXCEPT ![p] = 0]
       /\ UNCHANGED <<age, raced>>

Cached(p, kind) ==
  /\ pc[p] = kind
  /\ ~ Stale(p)
  /\ Done(p, kind)
  /\ UNCHANGED <<kv, marker, runs, failures>>

\* compute asks for the windows first: without one it does not run ccusage.
NoRuns(p, kind) ==
  /\ pc[p] = kind
  /\ Stale(p)
  /\ ~ runs
  /\ Done(p, kind)
  /\ UNCHANGED <<kv, marker, runs, failures>>

\* Mutant: the cached costs are taken however old they are.
Mutant_BlocksHit(p) == blocks # None

BlocksHit(p) == blocks # None /\ Elapsed(p, blocks) < BlocksTtl

UsesBlocks(p, kind) ==
  /\ pc[p] = kind
  /\ Stale(p) /\ runs
  /\ BlocksHit(p)
  /\ Goto(p, Storing[kind])
  /\ lag' = [lag EXCEPT ![p] = IF Elapsed(p, blocks) > 0 THEN Elapsed(p, blocks) ELSE 0]
  /\ UNCHANGED <<kv, marker, runs, age, raced, failures>>

RunsCcusage(p, kind) ==
  /\ pc[p] = kind
  /\ Stale(p) /\ runs
  /\ ~ BlocksHit(p)
  /\ Goto(p, Running[kind])
  /\ UNCHANGED <<kv, marker, runs, age, lag, raced, failures>>

\* The answer is cached with the now of the process, unless that write fails.
CcusageAnswers(p, kind) ==
  /\ pc[p] = Running[kind]
  /\ Goto(p, Storing[kind])
  /\ \/ blocks' = age[p] /\ UNCHANGED failures
     \/ Fail /\ UNCHANGED blocks
  /\ UNCHANGED <<calib, backup, marker, runs, age, lag, raced>>

\* No output, or not of the expected shape.
CcusageFails(p, kind) ==
  /\ pc[p] = Running[kind]
  /\ Fail
  /\ Done(p, kind)
  /\ UNCHANGED <<kv, marker, runs>>

WriteCache(p, kind) ==
  /\ pc[p] = Storing[kind]
  /\ calib' = [age |-> age[p], lag |-> lag[p]]
  /\ Done(p, kind)
  /\ UNCHANGED <<blocks, backup, marker, runs, failures>>

\* No window has a cost, or the write fails: the old calibration stays.
NotComputed(p, kind) ==
  /\ pc[p] = Storing[kind]
  /\ Fail
  /\ Done(p, kind)
  /\ UNCHANGED <<kv, marker, runs>>

\* CostSince goes by the clock of its call: it is as a process of its own.
CostSince(p) ==
  /\ pc[p] = "idle"
  /\ ~ BlocksHit(p)
  /\ Goto(p, "costs")
  /\ UNCHANGED <<kv, marker, runs, age, lag, raced, failures>>

CostsAnswered(p) ==
  /\ pc[p] = "costs"
  /\ blocks' = age[p]
  /\ End(p)
  /\ UNCHANGED <<calib, backup, marker, runs, failures>>

-----------------------------------------------------------------------------
(***************************************************************************)
(* BackupIfStale, in the child. Recovery has the steps of Backup.          *)
(***************************************************************************)
\* Mutant: one backup is enough.
Mutant_BackupDue(p) == backup = None

BackupDue(p) == backup # None => Elapsed(p, backup) >= BackupSecs

BackupSkips(p) ==
  /\ pc[p] = "backup"
  /\ ~ BackupDue(p)
  /\ End(p)
  /\ UNCHANGED <<kv, marker, runs, failures>>

BackupRolls(p) ==
  /\ pc[p] = "backup"
  /\ BackupDue(p)
  /\ backup' = age[p]
  /\ End(p)
  /\ UNCHANGED <<calib, blocks, marker, runs, failures>>

\* VACUUM or the rename fails, or the process is killed here or earlier.
Die(p) ==
  /\ pc[p] # "idle"
  /\ Fail
  /\ End(p)
  /\ UNCHANGED <<kv, marker, runs>>

-----------------------------------------------------------------------------
\* A window has risen far enough to calibrate on.
RunsAppear ==
  /\ ~ runs
  /\ runs' = TRUE
  /\ UNCHANGED <<kv, marker, pc, age, lag, raced, failures>>

Older(a, limit) == IF a = None \/ a = limit + MaxLife THEN a ELSE a + 1

Tick ==
  /\ \A p \in Proc : pc[p] # "idle" => age[p] < MaxLife
  /\ calib' = IF calib = None THEN None ELSE [calib EXCEPT !.age = Older(@, Ttl)]
  /\ blocks' = Older(blocks, BlocksTtl)
  /\ marker' = Older(marker, MarkerSecs)
  /\ backup' = Older(backup, BackupSecs)
  /\ age' = [p \in Proc |-> IF pc[p] = "idle" THEN 0 ELSE age[p] + 1]
  /\ UNCHANGED <<runs, pc, lag, raced, failures>>

Calibrates(p, kind) ==
  \/ Cached(p, kind) \/ NoRuns(p, kind) \/ UsesBlocks(p, kind) \/ RunsCcusage(p, kind)
  \/ CcusageAnswers(p, kind) \/ CcusageFails(p, kind)
  \/ WriteCache(p, kind) \/ NotComputed(p, kind)

\* A step of a process that runs.
Step(p) ==
  \/ Throttled(p) \/ MayWarm(p)
  \/ WritesMarker(p) \/ MarkerFails(p) \/ Fork(p) \/ ForkFails(p)
  \/ \E kind \in Kinds : Calibrates(p, kind)
  \/ CostsAnswered(p)
  \/ BackupSkips(p) \/ BackupRolls(p)
  \/ Die(p)

Next ==
  \/ \E p \in Proc : FindsStale(p) \/ NoStore(p) \/ StatusStarts(p) \/ CostSince(p)
  \/ \E p \in Proc : Step(p)
  \/ RunsAppear
  \/ Tick

Spec == Init /\ [][Next]_vars

\* A process runs until it ends, Claude Code goes on to render, time passes.
Fairness ==
  /\ \A p \in Proc : WF_vars(Step(p))
  /\ SF_vars(\E p \in Proc : FindsStale(p))
  /\ SF_vars(Tick)

FairSpec == Spec /\ Fairness

-----------------------------------------------------------------------------
(***************************************************************************)
(* Correctness.                                                            *)
(***************************************************************************)
Labels ==
  {"idle", "stat", "mark", "fork", "costs", "backup"} \union Kinds
    \union {Running[k] : k \in Kinds} \union {Storing[k] : k \in Kinds}

Age(limit) == 0 .. limit + MaxLife

\* Every variable has its type.
TypeOK ==
  /\ calib \in [age : Age(Ttl), lag : 0 .. BlocksTtl] \union {None}
  /\ blocks \in Age(BlocksTtl) \union {None}
  /\ marker \in Age(MarkerSecs) \union {None}
  /\ backup \in Age(BackupSecs) \union {None}
  /\ runs \in BOOLEAN
  /\ pc \in [Proc -> Labels]
  /\ age \in [Proc -> 0 .. MaxLife]
  /\ lag \in [Proc -> 0 .. BlocksTtl]
  /\ raced \in [Proc -> BOOLEAN]
  /\ failures \in 0 .. MaxFailures

\* A calibration is of the time it is stamped with: the costs behind it are
\* older by less than the cache of them may be, whoever ran ccusage and
\* whichever of two overlapping processes wrote last (compute.go, ccusageRaw).
HonestStamp == calib # None => calib.lag < BlocksTtl

\* One attempt in five minutes, but for a render that had looked at the marker
\* before another one wrote it (command.go, "Throttled to one attempt / 5 min
\* via a marker file").
OneAttempt ==
  [][\A p \in Proc : WritesMarker(p) /\ marker # None => marker >= MarkerSecs \/ raced[p]]_vars

\* $/1% does not stay stale while the history can calibrate it (command.go, "so
\* status has a fresh $").
WarmsEventually == []<>(runs => calib # None /\ calib.age < Ttl)

\* The backup is rolled for ever, also while nothing can be calibrated: unless
\* readouts keep coming, which refresh the calibration and so spare the renders
\* the fork that would have backed up (command.go, "~daily").
BackupsRoll ==
  \/ []<>(backup # None /\ backup < BackupSecs)
  \/ []<>(\E p \in Proc : pc[p] = "status")

=============================================================================
