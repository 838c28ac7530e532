\* Two fair processes of every kind; a sidecar, the reopen, the restore and the
\* breadcrumb may fail. No rows: neither property tells the contents of files apart.
CONSTANTS
  Proc = {p1, p2}
  Row = {}
  Kinds = {"render", "warm", "status", "check"}
  Faults = {"sidecar", "reopen", "restore", "mark"}
  BackupSecs = 1
  MaxClock = 0
  MaxFiles = 6
  MaxDamage = 1
SPECIFICATION FairSpec
PROPERTIES OnlyStatusClears HealsEventually
