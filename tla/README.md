# A verification project for ccpool

ccpool turns what Claude Code reports to its statusline into a history of
usage, and answers from that history how much of the account's weekly and
five-hour windows is left, what a percent is worth, and whether to slow down.
It has no daemon. Every render of every Claude Code window, every `ccpool
status` and `ccpool check`, every hook and every detached child is a process
that lives for milliseconds to minutes and shares one directory, `~/.ccpool`,
with the others: a SQLite database in WAL mode, its rolling backup, and a few
marker files. What is hard about the program is what these processes do to each
other and to the files when they overlap, die or fail in the middle, and what
its readers may conclude from readings that are stale, disagree and wobble.

The modules here are translated from the Go and SQL source (paths below are
relative to `src/`). TLC checks them on small instances; TLAPS proves some of
the properties for every value of the constants.

## 1. Inventory

| part | state it keeps | operations | talks to |
|---|---|---|---|
| store (`internal/store`) | `ccpool.db` with `-wal`, `-shm`; `ccpool.db.bak`; `.bak.<pid>.tmp`; `ccpool.db.corrupt-<nanos>`; `ccpool.db.recovered` | Open (probe, quarantine, re-create, heal), Backup, BackupIfStale, ConsumeRecovered and its readers, the queries | everything |
| statusline (`internal/statusline`) | tables `snapshots`, `history` (through the store); marker of warm; `statusline.log` | capture, PruneCaches, warm, WarmCalib (the detached child), rendering | store, history, calib |
| history (`internal/history`) | none (rows in the store) | Prepare: sanitise, dedup, throttle | statusline |
| burn (`internal/burn`) | none | EnvelopeWeekly and Envelope, Project, ProjectRecent | store, status, report |
| calib (`internal/calib`) | kv rows `calibration`, `blocks` | DollarPerPct, Stale, CostSince, wkRuns, boundaryRun, costBetween, combineWindows | store, ccusage |
| pool (`internal/pool`) | none | GetWindow, DataAge over the snapshots of all sessions | store, run, report, status |
| report, run, status, check | none; status clears the recovery notice, check mentions it | ResolveWeekly; the environment of a downshifted run; the verdicts and phrases | pool, burn, calib, profile, runway |
| warn (`internal/warn`) | a throttle marker per session and signal | hook warnings | pool, profile, config |
| init (`internal/initcmd`) | Claude Code's `settings.json`, its backups; the skill | plan, back up, rewrite, install; `prune` | config, store |
| config, configcmd | `ccpool.json` | Load, Merge, Write; `config init` | warn, env |
| anomaly log (`internal/statusline/log.go`) | `statusline.log` | read, cut and rewrite whole; the child's stderr is appended | statusline |
| profile, runway, rhythm, analyzer | `profile.json` | pace over working hours; learn them | status, report, run, warn |
| rb, fmtx, clock, env, paths | none | parsing, formatting, the time, the environment | all |

How they interact. A render captures its payload (its session's snapshot, and a
history row unless dedup drops it), then looks whether the calibration is stale
and, if the marker of the last attempt is old, forks a child that recomputes
$/1% through `ccusage` and rolls the backup. Readouts read snapshots and history
at any moment and may recompute $/1% themselves. Any of them may be the process
that finds the database corrupt; that one sets it aside, re-creates it, restores
the history from `.bak` and leaves a breadcrumb, which `status` shows and
removes and `check` only mentions. Nothing takes a lock over more than one
SQLite transaction, and `now` is taken once, at the start of `main`. `init` and
`config init` edit files that Claude Code, dotfiles managers and the user edit
too; hooks read `ccpool.json` and leave markers; none of these takes a lock.

What is hard, and what makes each part correct:

- **store**: two processes that both probed the corrupt file; a death between
  quarantine and restore; sidecars that are renamed before their main file, or
  removed; a backup taken in the middle of a heal; the gate of
  the backup, which lives in the database it guards; a breadcrumb that is cleared
  before its notice is printed. Correct when no row in a main file is
  destroyed, `.bak` is a finished image that never goes back, nothing is lost in
  silence, and a corrupt database does not stay.
- **statusline, history**: dedup is judged outside the transaction that
  appends; prunes and renders overlap; payloads carry leaked epochs and
  sentinels. Correct when no row repeats its predecessor, snapshot and row
  agree, and nothing implausible is stored.
- **warm, calib caches**: a look at a file and a write of it that are not
  atomic; two caches stamped by processes that started at different times.
  Correct when a stamp does not make costs younger than they are, attempts are
  throttled, and both the calibration and the backup keep being refreshed.
- **burn, calib, pool**: sessions render stale readings, report the reset of
  one window a few seconds apart, and a percentage may be taken back. Correct
  when what is concluded is about one window and agrees between the readers.
  And when what a percent costs is off by no more than whole percents and blocks cut
  at an end allow, though blocks grow and rates change.
- **report, run, check, status**: four readouts decide about one week by
  comparisons of their own, from readings that count as fresh because some other
  session rendered lately, and `run` reads the snapshots twice. Correct when no
  alarm and no downshift is false, also after a percentage was taken back, and what
  enforces does not contradict what advises.
- **warn**: markers are read, and then emptied and filled, by overlapping hooks.
  Correct when no warning is repeated within its throttle and none is held back
  that was not shown.
- **init, config, anomaly log**: a file is read, edited and replaced while others
  edit it; `init` knows its own hooks by the path in them. Correct when nothing of
  others is lost but what came too late, what the user chose stays, a second run has
  nothing to do, and the log loses its
  oldest lines only.

`PROJECT.json` lists every component with its status, and under `hazards` every
behaviour that is hard to test, at its line, with the properties that cover it.

## 2. The modules

| module | models | composed of |
|---|---|---|
| `HistoryPromise` | abstract: what ccpool promises about the user's history | |
| `Recovery` | Open, quarantine, heal, backup, breadcrumb, corruption, deaths | refines `HistoryPromise` |
| `RecoveryProofs` | theorems about `Recovery`; the refinement of `HistoryPromise`, one process at a time | `Recovery` |
| `History` | operators: sanitise, dedup, throttle, rowids | |
| `Capture` | renders and prunes over `snapshots` and `history` | `History` |
| `Burn`, `Calib`, `Pool` | operators: envelope and projection; calibration windows; the account's window | `History` |
| `Account` | an account, sessions with stale readings, and what the readers conclude | `Burn`, `Pool` |
| `AccountProofs` | theorems about `Account`, `Burn` and `Pool` | `Account` |
| `Pricing` | what ccusage reports, what a percent costs, and what has accrued since a reading | `Calib` |
| `PricingProofs` | theorems about `Pricing` | `Pricing` |
| `CaptureProofs` | theorems about `Capture` | `Capture` |
| `Warm` | who refreshes $/1% and rolls the backup, and when | |
| `WarmProofs` | theorems about `Warm` | `Warm` |
| `Slots` | processes that take the time once and run one command | |
| `Settings` | `init` on `settings.json`, beside Claude Code, the user and other inits | `Slots` |
| `ConfigFile` | `config init` and the user on `ccpool.json` | `Slots` |
| `Warn` | hooks and their throttle markers | `ConfigFile` |
| `AnomalyLog` | records of the capped `statusline.log` | `Slots` |
| `Decisions` | what run, check, status and warn make of the snapshots | `Warn`, `Pool` |
| `Commands` | all of these on one machine | `Settings`, `AnomalyLog`, `Decisions` |
| `CommandsProofs` | lemmas about slots and kinds; theorems about `ConfigFile`, `Warn`, `AnomalyLog` and `Settings` | `Commands` |
| `DecisionsProofs` | theorems about `Decisions`, and the types of all of `Commands` | `CommandsProofs` |
| `NumberFacts` | lemmas: the greatest of a set, induction over numbers, division, sums over sets | |
| `RecoveryMC`, `CaptureMC`, `AccountMC`, `PricingMC`, `WarmMC`, `CommandsMC` | constants for TLC | |

### Recovery

A *file* is an inode: a handle goes on writing to the file it opened after the
name `ccpool.db` has moved on. `path` is the file the name resolves to;
`quarantined` those renamed to `.corrupt-<nanos>`; `hist[f]` counts the copies of
every history row in file f (a restore may duplicate); `stamp[f]` is f's
`last_backup`; `bak`, `tmp`, `crumb` are the files beside it. A file is a main file
with its `-wal` and `-shm`, as a handle on it sees them. A main file that loses its
sidecars is another file, with a part of the rows, those that SQLite had checkpointed
(`Separate`): `aside` pairs a file with what it became when they were renamed to
`-wal.corrupt-<nanos>`, `lost` when they were removed, or were left behind by the
rename of the main file (SQLite deletes them when it creates the next database). The rows
that only the sidecar had are `Logged`. There are sidecars while a process
has the file open, and after one was killed. History rows are the only
contents told apart: snapshots and kv rows are written again by the next
processes. Writes of the calibration caches by the warm child are left out
here (they are in `Warm`), as is the prune of the history (in `Capture`).

A slot of `Proc` runs one command after another. Its `pc` names the place in the
code: `open`, `quarantine` (the sidecars), `setaside` (the main file), `reopen`, `heal`,
`mark` are the steps of `store.Open`; `ready` is the command proper; `vacuum`, `rename`,
`stamp` the steps of BackupIfStale after its gate. `status` reads the breadcrumb into its
lines, removes it (`clear`, deferred in `recoveryNudgeFull`), and only then has `main` print
them (`print`, `printed`). Each failing step is an action guarded by `Faults`, so that a
configuration says which failures happen: `sidecar` and `rename` are those of the two
renames of a quarantine; `kill` lets a process die, `crash` inside the heal, `unseen`
between the removal of the breadcrumb and the printing. `Damage` is external: it makes the probe of the file at the
path fail with a definite corruption code.

`HistoryPromise` states the promise of `docs/db-recovery-design.md`: a capture
adds a row, a backup never forgets a row it has, corruption loses at most the
rows since the backup and never in silence: a notice is owed until it is printed. `Recovery!Promise` reads it off the
directory: while the file is corrupt, gone or not restored yet, what a reader is
going to find is what `.bak` holds.

### History and Capture

`History` has `sanePct`, `saneReset`, `PreparedRow`, `skip`, `LastSessionRow` and
the rowid that SQLite assigns (one more than the greatest in the table, so one
is used again after the table was emptied, whatever `schema.sql:2` says).
`Capture` splits a render where the code reads and writes: the judgement against
the session's last row (`PrepareAppend`, `PrepareSnapshot`, `PrepareFails`), then
one transaction (`CaptureAndAppend` or `PutSnapshot`). `prune --history` is two
deletes with the cutoff of its start. The render that prunes under
`CCPOOL_PRUNE=1` is covered by a prune in another slot. `ccusage_cost` and the
other columns of no reader here are left out.

### Burn, Calib, Pool and Account

`Burn` has the envelope twice, as the window query computes it and as the loop in
Go does, and `Project` over its current run; `Calib` the reconstruction of
the windows that calibrate $/1% up to where dollars come in; `Pool` the window
that the snapshots of all sessions report. Times and percentages are integers,
and a rate is kept as the pair of its climb and its span: no property here
depends on the quotient.

`Account` is the world these are applied to. The account is spent by all
sessions and elsewhere (`Use`), its percentage may be taken back (`TakenBack`),
and at its reset it starts over (`Tick`). A session learns the state at an API
turn and renders that reading until its next one, also after the reset. `Wobble`
is by how much the reset a session reports exceeds the real one. A render is one
step here, since `Capture` has its interleavings, and a reading that is never
rendered leaves no trace, so turns without one are left out. Readers read at any
moment, so what they conclude is a state function.

### Pricing

Time passes in units in which dollars are spent on Claude and perhaps elsewhere
(`Pass`); `spent` and `rate` are what really was spent and what a percent of each
week really costs, which the program never sees. It sees `blocks`, as ccusage reports
them (a block ends, so far, with its latest usage, so one that is over for a run
goes on growing; gap blocks, which carry no cost, are left out), and the percentage in
whole percents, which one session captures. That shows them as they are or, when it has been
idle since, the last ones of the week before, with a reset that is past. `Windows`, `combineWindows` and `CostSince` are
those of `compute.go` on these, with money in fractions of a dollar, so that shares are
whole, and a rate as its cost and its percents; the rounding to four decimals is left
out. A unit of time is a minute (`Minute` = 1), the grain of the points that the runs
are made of. Readings that are stale within their week are in `Account`, the caches in `Warm`.

### Warm

Renders, their detached children, readouts and CostSince over the kv rows
`calibration` and `blocks`, the marker file and `last_backup`. What is kept is not
a clock but the *age* of each stamp, which stops growing once no comparison can
tell it from a greater one: behaviours go on for ever in a finite model, so that
liveness is about the code and not about the end of a clock. `age[p]` is the
time since process p took its `now`, so what p computes as `now - at` is the age
of the stamp less `age[p]`, and may be negative, as in the code.

A child takes the slot of its parent, which does nothing more that matters. A
render that finds the calibration fresh leaves no trace. The second DollarPerPct
of `status`, and CostSince, are as processes of their own. The steps of the
backup are in `Recovery`; a heal that empties kv is not in `Warm`. The marker is
written with the time of its writing, while the look at it goes by the time the
process started. Ghosts: `calib.lag`, by how much the costs behind a calibration
are older than its stamp; `raced[p]`, whether the marker was written since p
looked.

### Slots and Commands

A slot of `Proc` runs one command after another: `Launch` takes the time, as
`main` does, `Goto` goes on, `Leave` ends it, and time may `Pass` at any moment.
`Commands` puts the commands that share no lock on one machine. They also share
almost no file, so a behaviour has the kinds of one of the `Mixes`; a mix may
have several. `MaxLag` is how long a command may run where the clock moves.

### Settings

`settings.json` is told apart by what `init` looks at or may destroy: its shape (an
object, no object, hooks that cannot be merged into), the keys and hooks of
others (`Key`), the command of `statusLine` (none, ccpool's, another one's,
ccstatusline's, or no command string), and how many warn hooks of each launcher every
event has. A launcher is the path that ccpool was run under (`os.Executable`), which
`Write` puts into the commands; `ccpoolCmd` knows a command again only when that
path contains "ccpool" (`Ccpool`), whoever wrote it. The file may be behind a symlink, and
that may dangle: an init goes on with the target that it has resolved (`Target`), which is
`left` when another init has put a file in the link's place since; its backup is beside
that target. `CheckLink`, `Loads`,
`ChooseBackup`, `CopyBackup`, `Write`, `SkillAbsent` and `InstallSkill` are the
places where `Init` touches a file; `Refuses`, `OnlyShows`, `NoBackup`,
`SkillThere` its early returns; `CopyFails` and `GivesUp` its errors, and a
death. `makePlan` and `applyPlan` are the source's. `EditSettings` and
`RemoveSettings` are the others. Ghosts: `theirs`, what others put in and left
there; `exposed`, what of that came too late for a backup; `stale[p]`, whether the
file changed since p looked.

The name of a backup is chosen in one step and written in the next, since two
inits of one second may choose the same; the temp file has the pid in its name, so
only its rename is seen. A skill that the user adds between the last look and
the write, which overwrites it, is not in the model.

### ConfigFile, Warn

`ccpool.json.tmp` is one name for all writers, so a file is an inode: `Truncate` may
empty the file another has open, `Rename` moves whatever has the name. A text
written over a longer one of another leaves its end behind (`Torn`). `HooksEnabled`
fails open, as in the source. Ghosts: `chosen`, what the user last saved;
`excused`, that a writer had read the config before that, that two wrote at
once, or `--force`.

A hook takes the warnings its view of the snapshots calls for, reads all their
markers, then writes them one after another (emptied, then filled), then
prints. A prompt of the user prints always. Ghosts: `shown`, when each warning
was last printed; `loose`, the markers that may not tell: those in the hand of
another hook at the look, or that could not be written, or of a hook that died.
`Warn`'s view of the snapshots is any of `Views`; `Decisions!View` is what it is.

### AnomalyLog

A record reads the log, cuts it, empties the file and writes it; the file is
written from its start, whatever another has put there since. The stderr
of the warm child goes to the end. Ghosts: `kept`, the records whose write ended;
`risked`, those that another write or a death came in between of.

### Decisions

The account is spent by all sessions and elsewhere (`Spend`), and a percentage may be
taken back within its window, whose reset stays (`TakenBack`, as in `Account`; a fall to
zero is the farthest one). A session renders it
as it is (`RenderNew`), the reading it had with a new time (`RenderAgain`), or
without rate limits (`RenderBare`). `run` reads the snapshots twice (`ReadWeekly`,
then one of `ExecDownshifted`, `ExecAsIs`). The readouts read at any moment, so what
they say is an operator of the state: `verdict` (check), `PacePhrase` (status),
`signals` of `View` (warn), `ResolveWeekly` with its fresh, estimated and stale tiers.
The profile is a weight for each part of the week, with the fallback of a
weightless one. The extrapolation of the estimated tier has any of `Estimates` for
$/1% and the accrued cost, 0 among them: that gives no number, or 100. Ghosts: the most
that was used in each window (`spentMost`, `burstMost`), the sessions whose snapshot is
from before a fall (`outdated`), and the runs whose first reading may be (`misled`). Since
`GetWindow` takes the greatest percentage (`pool.go:86-91`), one outdated snapshot is enough for
all readouts to go on about what was taken back; the properties say of that only that it
was reached.

## 3. The runs

Passing runs:

| run | instance | shows |
|---|---|---|
| `recovery_concurrent` | 2 processes that write, heal and back up, with deaths, failing renames of sidecars and files, failing backups, 1 corruption, 1 row | no committed row is destroyed, but one that was in no main file yet; `.bak` is a finished image of committed rows |
| `recovery_one_at_a_time` | 1 process, 2 rows, 2 corruptions, all failures outside the heal, a clock | the store implements `HistoryPromise`; no duplicates; no silent loss; the backup never goes back; the stamp has its backup |
| `recovery_heals` | 2 fair processes, all commands, sidecars, reopens, restores and breadcrumbs that fail, 1 corruption | a corrupt database is replaced; only `status` removes the notice |
| `capture_two_windows` | 2 windows, a session in one and another in both, good and poisoned readings, two weekly resets that become storable one after the other, prunes, failing reads and writes | no repeated row where one window renders the session, and at most one per window elsewhere; the judged snapshot and the newest row agree; no poison; rowids keep the order |
| `account` | 2 sessions, one with a late reset, over one weekly window and into the next, one drop | query and loop agree; envelope and projection are of one window; snapshots and history agree |
| `pricing` | 2 weeks, each at one of 2 rates, 7 dollars or none a unit, 1 unit shared with another vendor | a stretch of time is charged what was spent in it, but for blocks cut at its ends or shared; $/1% is off by less than one percent of the least climb, and follows a change of rate at once, also where a reading is rendered after its week; accrued cost never falls |
| `warm` | 2 processes, all periods, 1 failure | honest stamps; one attempt per period; the calibration and the backup are refreshed for ever |
| `commands` | 2 processes of each kind of command, 2 sessions, a launcher with and one without "ccpool" in its path, the user and Claude Code beside them, failures, deaths and a percentage taken back | `init` loses nothing of others, writes its plan and wires nothing twice that it recognises; `config init` keeps what the user chose; warnings are neither repeated nor swallowed; the log loses its oldest lines; no alarm or downshift is false, but about what was taken back while a session still shows it; the four readouts agree |

Violation runs, each with a finding:

| run | what the code does | what is said |
|---|---|---|
| `recovery_healthy_quarantined` | the second of two processes that saw the corrupt file sets aside the healthy one the first has just put there | `store.go:215-217`: only a definite corruption code earns the quarantine |
| `recovery_crash` | a death between quarantine and breadcrumb leaves an empty history, a backup and no notice | `db-recovery-design.md`: never silently accept empty when a backup exists |
| `recovery_emptied_backup` | a backup of the re-created database, before the restore, replaces the good `.bak` | `store.go:84`: a count of 0 means no backup existed |
| `account_drop` | the running maximum hides a fall within the window; the projection goes on from before it | `burn.go:2-5`: it just restarts the clock |

Other disagreements that the models show have no run of their own; where a
property would fail by one, it names the exception.

- A quarantine renames the file that a process which opened it before it was corrupted still
  has open, and what that one commits next goes where nobody reads (`db-recovery-design.md:80-82`
  has the rename safe, as it comes before the process's own handle). Two heals of one corruption
  into one new file restore every row twice.
- `status` removes the breadcrumb before `main` prints the notice (`check.go:109`, `main.go:69`;
  `db-recovery-design.md:77-78` says that it is cleared after it is displayed): a death in between
  takes the notice along (the fault `unseen`, without which `KeepsPromise` is checked), and so is lost
  one that a second heal writes between the reading and the removal of the first.
- An `init` run under a path without "ccpool" (`init.go:107-110` against `39-50`) does not recognise the
  hooks that it wrote, and adds them again, and takes its own statusline for a foreign one:
  `InitIsIdempotent` is of hooks and launchers that it recognises.
- After a fall within a window `GetWindow` goes on with the highest reading (`pool.go:86-91`) as long as some
  session's snapshot is from before: `warn` and `check` may go on about it, though a newer snapshot
  says otherwise, where `warn.go:10` promises never a false alarm (`outdated` in `AlarmsAreReal`, `misled` in
  `DownshiftsAreReal`).
- A sidecar that cannot be renamed is removed (`store.go:233-243`), and one that another
  process makes between the two renames of a quarantine is left to SQLite, which deletes it: rows
  that were committed but not checkpointed go with it (`NoRowDestroyed` counts them by
  `lost`), and when the main file then cannot be renamed either, that happened to a database
  that stays where it is. Those renamed are in a file apart from their main file (`aside`).
- Calibration tells windows apart by the exact reset (`compute.go:334-344`), though
  `DECISIONS.md:411-412` says that it has the jitter tolerance of the projection: one week
  whose sessions reported two epochs is two of the K windows that are pooled, each with
  a part of the climb.
- Overlapping renders of a session log a reading once each, though
  `history.go:87-90` drops such a row (`NoRepeatedRow` counts them); the slower
  one replaces the newer snapshot (`query.sql:67`, "latest wins"). When a prune takes
  an old reading that a hung render had logged between two others, those are neighbours,
  and a session of two windows may have three rows alike: `NoRepeatedRow` counts only
  while nothing can have been pruned (`Whole`), and for a session of one window always.
- Two renders that look at the marker before either writes it both fork
  (`OneAttempt` excludes every other case, by `raced`). Readouts that keep
  the calibration fresh spare every render the fork that would have backed up
  (`BackupsRoll`).
- `check` judges what will be forfeited at an even pace (`check.go:380-387`), whatever
  the profile: where the profile expects little use by now, `run` downshifts and
  `warn` warns while `check` says BURN DOWN, although `README.md:253-254` says they
  can't disagree (`AdviceAgrees`). A reset exactly `Coast` away counts as
  coasting for some comparisons (`>`, `<=`) and not for others (`<`).
- `run.go:88` says that a full five-hour window downshifts first, regardless of
  the week; the code asks `delta <= margin` besides, so one that is ahead, full and
  about to reset is not downshifted.
- A block of ccusage with usage of any other vendor is dropped as a whole, so
  CostSince is less than "the Anthropic $ spent" (`compute.go:138`), and `$/1%` too low
  (`CostIsWithinEdges` counts such blocks; `RateIsTheNewest` is of runs without them, and
  without a reading at 100, which may stand for more).
- A $/1% that was rounded to 0 makes the extrapolated percentage no number or 100.
- A change of the settings after the backup was taken, or beside two inits, or two
  backups of one second with one name, may be lost (`exposed`); an init that resolved a
  link goes on writing to the old target when another has replaced the link (`left`); a `statusLine`
  without a command string is replaced without `--replace-statusline`.
- Two writers of `ccpool.json` may rename each other's half-written temp file
  (`excused`); a record may be lost beside another (`risked`); a warning may come
  twice, or be held back behind a hook that died, through its marker (`loose`).

### Bounds, and why they are enough

- `Recovery`: `MaxFiles` is at least one more than `MaxDamage` times the number of
  processes, since each corruption is followed by at most one re-creation per
  process that probed it, and one more is kept for the main file that a quarantine leaves
  without its sidecar. Two processes
  are what every race listed above takes; the proofs cover any number. One
  corruption gives two heals of one file in two processes; two corruptions, with
  one process, give a heal after a heal, which is where a backup could go back.
  `MaxClock` 1 with `BackupSecs` 1 has a gate that is closed and one that is open.
- `Capture`: the clock reaches the throttle interval and the age at which history and
  snapshots are dropped; `MaxId` 3 allows two rows of one session and one of the
  other, in any order. The two readings of the session that one window shows differ
  in the five-hour percentage and in the weekly reset; the resets lie so far ahead that neither
  is stored at time 0, one at 1 and both at 2. So the same two readings differ as rows in the
  five-hour percentage only, which the throttle may drop, or in the weekly reset as well,
  which it may not. The weekly percentage is the same in both: a third reading that moves it
  makes the instance four times as large, and `CaptureProofs` has the agreement of
  snapshot and row for any readings. The throttle, the time kept and a unit of the clock are the
  same length.
- `Account`: a unit is a third of the window; the clock runs over a whole window
  and into the next, so readings of the first are rendered in the second; three
  rows are two of one window and a stale one; four in `account_drop`. The real
  tolerance (300 s) is scaled to one unit, as is the wobble.
- `Pricing`: weeks of three units and blocks of up to three, so that blocks lie inside runs, across
  their ends and across a reset, and one that began before a reading goes on growing
  after it; `MinRunDW` is the real 3, and spends of 7 at
  a rate of 4 have readings lose a part of a percent, up to three quarters; at a rate of 1 they lose none. With `DisagreeRatio` 2 those
  rates are just far enough `Apart` for their windows to disagree whatever was lost.
  The clock ends with the second week (`MaxClock`), and four rows (`MaxRows`) are two of each
  week, or three and a late one; one unit is shared with another
  vendor (`MaxOther`). No instance has more windows than `CalibWindows`: which windows
  are pooled is the last line of `wkRuns`, and no property is about older ones.
- `Warm`: 2, 3, 4, 5 keep the order of the real 120 s, 300 s, 6 h and 1 day. A
  process lives at most `MaxLife` units: ccusage answers or fails in that time,
  which is an assumption, since the code gives it no timeout. `MaxFailures` 1
  puts the one failure at every possible step.

- `Commands`: each kind runs beside its own kind, since no two kinds share a file
  that both write. Two processes are what every race listed above takes. Two
  inits and two changes put a change before, between and after the steps of either
  (`MaxInits`, `MaxChanges`); so for `MaxWrites` and `MaxEdits` on `ccpool.json`, with
  five inodes: two under names, one open in each process, and one to spare. Three
  hooks (`MaxHooks`) are one that shows a warning, one beside it and one after it,
  with the throttles 1 and 2 against a clock of 2. Two lines (`MaxLogLines`) and four
  records (`MaxRecords`) cut the log twice. A week of 3 parts with a weekend, five
  hours of 2 and a clock of 3 (`MaxClock`) have both windows end while old
  readings are shown; two spends (`MaxSpends`), two renders (`MaxRenders`) and a fall
  (`MaxDrops`) give each session a snapshot or one of them a newer one, from before
  and after the fall; one run at a time (`MaxRuns`), since runs
  write nothing. `MaxLag` 1 lets a command see one unit pass. `Horizon` moves the
  clock only for the kinds that compare times, and leaves inits in one second,
  where their backups collide. Every verdict of `check` is reached, but UNKNOWN
  only without live windows. `WeeklyLow` is 30 and a spend 17, so that two spends
  reach it.

`CHECK_DEADLOCK FALSE` is said for the two Account runs, `pricing` and `commands`,
where the world ends with its counters at their bounds. Symmetry, of processes and
rows or sessions that are interchangeable, is used in `recovery_concurrent`,
`recovery_one_at_a_time` and `commands`, which check no liveness. `recovery_heals` has no rows, since
neither of its properties tells the contents of files apart.

### Fairness

- `Recovery!Fairness`: the operating system runs every process, a step that can only
  fail does fail, and Claude Code goes on launching statuslines (`Start`): weak
  fairness per process. Nothing is assumed of `Damage` or of the faults.
- `Warm!Fairness`: weak fairness of the steps of each process that runs; strong
  fairness of `FindsStale` (some window renders again and again, whatever other
  processes do with the slots) and of `Tick` (time passes, though a process that has used up
  its life holds it for its last step). Failures are finitely many.

## 4. The proofs

`RecoveryProofs`, from `BoundsAssumption` and `KindsAssumption` only, so for any set
of processes and rows, any bounds and any set of failures:

- `TypeCorrect`: `TypeOK`, which is inductive.
- `RowsSurvive`: `NoRowDestroyed`. It is not inductive: a step may create a file over a name, or move
  one away. `KeptInv` adds that every file ever created is under the name, quarantined, or
  has become a newer one without its sidecar (`EveryFileNamed`), that handles are on
  created files (`HandlesCreated`), and that every committed row is in a created file
  (`RowsKept`). The newest file with a row is then under the name or quarantined, or the row was in
  the sidecar that it has lost.
- `BackupGenuine`: `BakIsGenuine`. `GenuineInv` adds that every table and every temp
  image holds committed rows only, and that what is about to be renamed is
  complete.
- `NoticeKept`: `OnlyStatusClears`, from `NoticeInv`: a process at `clear` runs `status`,
  and the result of a heal is a proper one when it is written.

The second part of `RecoveryProofs` is about one process at a time in which no step of the heal fails or is
cut short (`Alone`: any two processes are the same one, and `Faults` has none of
`reopen`, `restore`, `mark`, `crash` and `unseen`). It cannot be dropped: the code breaks what follows
where two processes heal (`recovery_emptied_backup`), where the heal is cut short
(`recovery_crash`), and also where `status` dies before it prints (section 3). Rows, files,
corruptions, clock values and the other faults, those of the quarantine among them, are any.
`SeqInv` has five parts besides:

- `OnPath`: the handle is on the file at the path; who is about to quarantine has a
  corrupt one there, who is about to re-create has none, who is about to restore an
  empty one.
- `NewFilesEmpty`: a file not created yet holds nothing, so a re-created database has
  neither rows nor `last_backup`.
- `BackupHeld`: `.bak` holds every row it ever held; between heals those are in the live
  file while that can be read; the image on its way to `.bak` is the file's table.
- `Dated`: `.bak` is not younger than the process that is running, and `last_backup` not
  younger than `.bak`.
- `Shows`: there is a breadcrumb when `status` is about to clear it.

From it follow `BackupNeverGoesBack` (`LastKnownGood`), `NoLossInSilence` (`NoSilentLoss`),
`StampsHaveBackups` (`StampHasBackup`), and the refinement, `StoreKeepsPromise`
(`KeepsPromise`): `Capture` maps to a capture, `RenameBak` to a save, `Damage` to a loss,
`PrintNotice` to a showing, the end of that `status` or its death to the end of the
showing, and every other step, the removal of the breadcrumb among them, to a stutter.

`WarmProofs`, from `WarmAssumption` (positive periods, in no particular order):

- `TypeCorrect`: `TypeOK`, with the ages that saturate.
- `StampsAreHonest`: `HonestStamp`. `HonestInv` adds that what every process holds is
  already younger, against its own `now`, than the cache allows: a calibration is
  stored with the `now` its costs were measured against.
- `AttemptsAreThrottled`: `OneAttempt`. `MarkInv` says of a process between its look
  and its write that the marker is still as old as it saw, unless it was raced:
  time only makes the marker older, and each write flags everyone who is there.

`CaptureProofs`, from the assumptions of `History` and `Capture`, for any windows,
sessions and payloads (only `Proc` is finite, as windows are):

- `TypeCorrect`: `TypeOK`, which needs that what is being appended was prepared
  from a job (`JobsFit`).
- `HistoryIsSane`: `NoPoison`, from what every prepared row has.
- `RecentRowsStay`: `PruneKeepsRecent` (proved, in no run), since a prune's time is not after the clock.
- `RowsInOrder`: `SessionInOrder`. `InOrder` adds that a render that alone has its
  session started after every row of it; an append gets the greatest rowid, also
  after a prune.
- `SnapshotsMatch`: `SnapshotMatchesRow`. `MatchInv` adds, for a render that was
  judged a repetition and has not stored its snapshot, that the newest row still
  says what it says, or was pruned; a prune takes the newest row of a session only
  with all others (`PruneTakesAll`), which rests on the order.
- `NoRepeats`: `NoRepeatedRow`. For a session of one window `RepeatInv` adds that the row
  it is about to append does not repeat its last one; a prune makes no new neighbours,
  by the order again. For several, `CountInv` adds the windows that wait to append what
  the last row says already (`Pending`): with the rows that say it they are no more than
  the windows, since who judged later was told to skip.

`AccountProofs`, from the assumptions of `Burn` and `Account`, for any sessions, lags,
percentages and lengths of time. `PlausibleAssumption` says how the constants of the
program fit the world: a wobble is a matter of seconds, and both jitters (300 s,
`burn.go:37-41`, `pool.go:16-20`) are above it and far below half a week; what is too far
ahead to be believed is beyond the end of the running week (30 days, `history.go:24`; a
week and a day, `pool.go:127`); rows are kept for two weeks (`burn.go:35`).

- `QueryIsTheLoop`: `EnvelopeMirrorsGo`, which needs nothing of the world but a table with
  a rowid for each row. Rows have an order of their own (`Before`), so row i of the
  kept ones is the one with i - 1 kept ones before it; by induction over the entries the loop's
  `latest` is the greatest reset so far, and its output the kept rows so far, each with
  the maximum up to it.
- `AccountInv` is what the others need: every reading and every row was true of a window
  that had begun (`RealInv`); and, until the percentage is taken back, a row is no newer than the
  snapshot of its session, that no newer than what the session has seen, and that no
  newer than the account (`OrderInv`). A session may write at any time what was true long
  ago, so neither half says anything about the time of a row but that its window had begun.
- `EnvelopeIsReal`: `EnvelopeIsOfItsWindow`, and `OneWindowProjected`: `ProjectsOneWindow`. Rows
  within a jitter of the newest reset are of one window, as two jitters are less than a week.
- `PoolIsEnvelope`: `PoolAgreesWithEnvelope`: the newest reading of the snapshots is in
  the history, and nothing newer is.

`PricingProofs`, from `PricingAssumption`, for any spending, any span of the blocks, any
rates and any readings. `BlocksInv` says that blocks follow one another (`OrderInv`), that
each costs at least what was spent on Claude in its units of time, and without another vendor
just that (`BilledInv`), and that nothing is spent outside of them (`CoveredInv`). Sums are
totals of functions over finite sets (`NumberFacts`): in any order, over disjoint parts.

- `ChargedIsReal`: `CostIsWithinEdges`. The blocks that count are those within the stretch, charged in
  full; those cut at its ends, at most in full; and the others, nothing (`Charged`).
- `AccruedRises`: `AccruedNeverFalls`. A block that goes on loses a smaller part of a greater cost, and
  the quotient of whole numbers rounds the same way (`ShareGrows`, `Quotients`).
- `RateIsReal`: `RateIsTheNewest`. `ReadingsInv` says that each row with a reset is of a week
  so far, after its start, and, unless it is stale or at 100, shows the whole percents
  of what was spent in the week by then (`Reached`). So the points of a boundary, up to its
  reset, never fall, and its run climbs from its first to its last one (`RunIs`, `Says`); what was
  spent in between is within one percent of that climb at the rate of the week (`ClimbIs`), and without
  a block in doubt that is what the window costs (`SurelyCharged`, from `CostIsWithinEdges`). The
  bounds add up over windows of one rate (`PooledBounds`), and windows of rates that are `Apart`
  break them unless they disagree (`DearerIs`), so that only the newest counts. It needs a least
  climb above 0 (`minRunDW` is a positive constant); what is spent in a week, the number of
  weeks, and how many windows are pooled are free.

`CommandsProofs` and `DecisionsProofs`, from the assumptions of `Commands`,
so in any mix of commands, for any number of processes, inits, edits and hooks.
`CommandsProofs` shows that the labels of the kinds are apart, so that a step of one
kind leaves what is said of another's processes.

- `SettingsTyped`: an event never gets a second hook that init recognises, since a plan
  adds only what was not in what it is applied to (`PlansFit`, `AllOnce`). `CommandsTyped` is `TypeOK`
  of all kinds together.
- `SecondInitIsIdle`: `InitIsIdempotent`, of a launcher that init recognises, for any paths that
  it is run under before: the settings never have two hooks of such launchers for an event,
  of one or of two, however inits overlap. Of the others it does not hold (section 3).
- `WritesOnlyAsPlanned`: `OnlyAsPlanned`. The invariant says that an init that
  nobody overtook holds the plan of what is in the file now.
- `SettingsSurvive`: `TheirsSurvive`. `SurviveInv` says that what is guarded is in the
  file or in a backup that nobody is about to overwrite, and in such a backup
  while somebody is about to write the file; two inits that chose one name
  (`SameName`) are why the backup alone is not enough.
- `ChoicesAreKept`: `UserChoiceHolds`, from `InodeAssumption` too: a new file always
  gets an inode that nobody has. `KeepInv` follows the inodes through two names and
  the handles: the temp name never leads to the config itself (`FilesApart`); and while
  nothing excuses a loss, one writer at most is past its read (`OneWriter`), what it
  has open is under the temp name and holds what it wrote (`OwnTemp`), and that is
  what the user chose (`WritesChosen`).
- `WarningsAreThrottled`: `ThrottleHolds`, and `NoWarningIsLost`:
  `HeldBackOnlyIfShown`. `MarkInv` says of a marker that is not loose that one hook
  at most has it in hand (`OneHand`), that it tells when its warning was shown if
  no hook has (`Tells`), what a hook has written of it (`Written`), and that a hook
  which is going to repeat the warning after a tool does so in time (`LongAgo`).

- `OldestLinesGo`: `OnlyOldestLost`, for any cap but 0 (`LogAssumption`; the code has 200,
  `log.go:13`). The invariant follows a record that nobody came between from the lines
  of its writer into the file, and counts how many newer ones are behind it.
- `NoFalseAlarm`: `AlarmsAreReal`, `NoContradiction`: `AdviceAgrees`, and `NoFalseDownshift`:
  `DownshiftsAreReal`. `ReadInv` says that each snapshot and each reading in the hand of a run was
  true of a window when it was taken (`SnapsReal`, `RunsReal`): what was reached in that window
  has only grown since (`MostReached`), and the percentage too, unless a fall has come after
  (`outdated`, `misled`); a pooled reading is of one window, since the resets of two
  are more than two jitters apart (300 s against a week); and what is elapsed of a week is
  between 0 and 100 percent and only grows, whatever the profile. `DecisionsAssumption` has
  the knobs at 0 or above, the pace margin and the forfeit not both 0 (they are 3 and 15), and
  the age from which `warn` is silent not below the one that counts as fresh (3600 s and 120 s).

Each preservation proof has a step per action and shares lemmas for the ways a
step leaves the locals of a process (`KeptStutter`, `TypeDone`, `MarkMoves`, ...).

The library's induction theorems take an operator and cannot be used; where a
proof needs induction, it takes the set of the numbers for which a formula holds
(`AllNumbers`, from the least counterexample).

Only model-checked: liveness (`HealsEventually`, `WarmsEventually`, `BackupsRoll`), which
is out of the prover's reach. So that what it computes can be proved, `Calib` puts minutes in order by
their ranks (`InOrder`) and clips a window as a prefix of its points in order (`Clip`), where the
operators of the library sort and select by recursion, which the prover cannot expand.

## 5. Not modelled, and why

- Rendering, formatting, help text, parsing of numbers and schedules, the knobs:
  layout or pure functions of one input, and no state.
- `rhythm` and `analyzer`: statistics in floating point over transcripts.
- The five-hour fit (`ProjectRecent`, a least-squares slope) and the runway estimate:
  floating point, whose properties are of quotients.
  `check` may take any answer of the five-hour projection where the code asks for it
  (`MayBeSoon`), and `run` any $/1% (`Estimates`).
- EnvelopeFiveHour: the query of `Burn` over another column.
- Generated code in `internal/store/db`: modelled through the facade.
- The encoding of `settings.json` (key order, number literals): left out, since
  `Settings` tells contents apart by what may be lost.
- A hung ccusage, which the code never times out.
- Failures inside the heal where one process runs: see `hazards`; and which of the two sidecars
  a step moves (section 2): the -shm is rebuilt from the -wal.

## 6. Plan

Done, in this order: `Recovery` with `HistoryPromise` and its proofs (what loses
data matters most); `History` and `Capture` and their proofs; `Burn`, `Calib`,
`Pool` composed in `Account`, and `Calib` in `Pricing`; `Warm` and its proofs; `Settings`, `ConfigFile`,
`Warn`, `AnomalyLog` and `Decisions` composed in `Commands`; the refinement of
`HistoryPromise`; the proofs about all parts of `Commands`, about `Account`, and about
`Pricing`.

Next, by what a mistake would cost:

1. `Pricing` with several sessions: readings that are stale within their week, and resets
   that wobble, in the runs that are priced.
2. `Commands` with `Recovery`: the readouts over a store that is healed beneath them.
3. `ProjectRecent`, as far as integers go.
