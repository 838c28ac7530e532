\* Two windows, one session in both of them, prunes in the second one's slot.
CONSTANTS
  p1 = p1
  p2 = p2
  s1 = s1
  s2 = s2
  Nil = Nil
  Proc = {p1, p2}
  Session = {s1, s2}
  SessionsOf <- Shared
  PayloadOf <- Readings
  Pruners = {p2}
  MinInterval = 1
  MaxResetAhead = 4
  KeepSnapshot = 1
  KeepHistory = 1
  Faults = {"read", "write"}
  MaxClock = 2
  MaxId = 3
SPECIFICATION Spec
INVARIANTS TypeOK SnapshotMatchesRow NoRepeatedRow NoPoison SessionInOrder
