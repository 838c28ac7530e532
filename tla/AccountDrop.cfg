\* Two sessions over a window whose percentage is taken back.
CONSTANTS
  s1 = s1
  s2 = s2
  Session = {s1, s2}
  Nil = Nil
  MinInterval = 0
  MaxResetAhead = 8
  KeepSecs = 3
  ResetJitter = 1
  DropReset = 0
  MinSpan = 1
  MinDelta = 1
  PoolJitter = 1
  MaxAhead = 5
  Week = 3
  Wobble <- OneLate
  MaxUsed = 1
  MaxClock = 4
  MaxRows = 4
  MaxDrops = 1
SPECIFICATION Spec
CHECK_DEADLOCK FALSE
INVARIANT DropRestartsTheClock
