\* One process, killed inside the heal.
CONSTANTS
  Proc = {p1}
  Row = {r1}
  Kinds = {"render", "warm"}
  Faults = {"crash"}
  BackupSecs = 1
  MaxClock = 0
  MaxFiles = 4
  MaxDamage = 1
SPECIFICATION Spec
INVARIANT NoSilentLoss
