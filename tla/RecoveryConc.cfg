\* Two processes that write, heal and back up; they die, and renames and
\* backups fail.
CONSTANTS
  Proc = {p1, p2}
  Row = {r1}
  Kinds = {"render", "warm"}
  Faults = {"sidecar", "rename", "vacuum", "kill", "crash"}
  BackupSecs = 1
  MaxClock = 0
  MaxFiles = 4
  MaxDamage = 1
SPECIFICATION Spec
SYMMETRY Symmetry
INVARIANTS TypeOK NoRowDestroyed BakIsGenuine
