\* Two processes that both probed the corrupt file.
CONSTANTS
  Proc = {p1, p2}
  Row = {r1}
  Kinds = {"render"}
  Faults = {}
  BackupSecs = 1
  MaxClock = 0
  MaxFiles = 4
  MaxDamage = 1
SPECIFICATION Spec
PROPERTY QuarantinesOnlyCorrupt
