\* One process at a time; every failure but those inside the heal and a death
\* before the notice is printed.
CONSTANTS
  Proc = {p1}
  Row = {r1, r2}
  Kinds = {"render", "warm", "status", "check"}
  Faults = {"busy", "sidecar", "rename", "vacuum", "kv", "kill"}
  BackupSecs = 1
  MaxClock = 1
  MaxFiles = 4
  MaxDamage = 2
SPECIFICATION Spec
SYMMETRY Symmetry
INVARIANTS NoDuplicates NoSilentLoss LastKnownGood StampHasBackup
PROPERTY KeepsPromise
