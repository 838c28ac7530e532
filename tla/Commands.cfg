\* Commands of each kind beside others of it, in mixes that share a file.
CONSTANTS
  k1 = k1
  f1 = f1
  h1 = h1
  PostToolUse = PostToolUse
  UserPromptSubmit = UserPromptSubmit
  ccpool = ccpool
  pool = pool
  s1 = s1
  s2 = s2
  i1 = i1
  i2 = i2
  i3 = i3
  i4 = i4
  i5 = i5
  Nil = Nil
  Odd = Odd
  Proc = {p1, p2}
  Event = {PostToolUse, UserPromptSubmit}
  Key = {k1}
  Foreign = {f1, h1}
  Host = {h1}
  Launcher = {ccpool, pool}
  Ccpool = {ccpool}
  First <- FirstSettings
  MaxInits = 2
  MaxChanges = 2
  Field = {"enabled", "pace"}
  Found <- Detected
  Wanted <- UserChoices
  Inode = {i1, i2, i3, i4, i5}
  MaxEdits = 2
  MaxWrites = 2
  Session = {s1, s2}
  Views <- AllViews
  MaxStale = 1
  Coast = 2
  Margin = 3
  SesWarn = 85
  CtxWarn = 85
  CtxWarnLeft = 5
  Environ = Nil
  Throttle <- Gaps
  MaxHooks = 3
  MaxLogLines = 2
  MaxRecords = 4
  Week = 3
  FiveHours = 2
  Slack = 1
  Slip <- Slips
  PoolJitter = 1
  Weight <- Rhythm
  Stale = 1
  FiveHCap = 85
  SesFull = 92
  WeeklyLow = 30
  Forfeit = 15
  Modes = {"auto", "advise"}
  Estimates <- Spent
  Spends <- Bursts
  MaxSpends = 2
  MaxRenders = 2
  MaxDrops = 1
  MaxRuns = 1
  Mixes = {{"init"}, {"config"}, {"warn"}, {"log"}, {"decide"}}
  Horizon <- Horizons
  MaxLag = 1
  MaxClock = 3
SPECIFICATION Spec
SYMMETRY Symmetry
INVARIANTS TypeOK TheirsSurvive InitIsIdempotent UserChoiceHolds OnlyOldestLost AlarmsAreReal AdviceAgrees
PROPERTIES OnlyAsPlanned DownshiftsAreReal ThrottleHolds HeldBackOnlyIfShown
CHECK_DEADLOCK FALSE
