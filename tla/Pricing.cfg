\* Two weeks of three units, two rates, one unit shared with another vendor.
CONSTANTS
  s1 = s1
  Session = {s1}
  Nil = Nil
  MinInterval = 0
  MaxResetAhead = 8
  Minute = 1
  MinRunDW = 3
  MinRunDT = 2
  GuardDropTol = 2
  GuardDropDur = 1
  CalibWindows = 3
  BlockSpan = 3
  Dollar = 6
  DisagreeRatio = 2
  Week = 3
  Rates = {1, 4}
  Spends = {0, 7}
  MaxOther = 1
  MaxRows = 4
  MaxClock = 5
SPECIFICATION Spec
CHECK_DEADLOCK FALSE
INVARIANTS CostIsWithinEdges RateIsTheNewest
PROPERTY AccruedNeverFalls
