\* A backup runs while another process is about to restore.
CONSTANTS
  Proc = {p1, p2}
  Row = {r1}
  Kinds = {"render", "warm"}
  Faults = {}
  BackupSecs = 1
  MaxClock = 0
  MaxFiles = 4
  MaxDamage = 1
SPECIFICATION Spec
PROPERTY NothingMeansNoBackup
