\* Two processes; the periods in the order of the code's 120 s, 300 s, 6 h, 1 d.
SPECIFICATION FairSpec
CONSTANTS
  p1 = p1
  p2 = p2
  Proc = {p1, p2}
  None = None
  BlocksTtl = 2
  MarkerSecs = 3
  Ttl = 4
  BackupSecs = 5
  MaxLife = 1
  MaxFailures = 1
INVARIANTS TypeOK HonestStamp
PROPERTIES OneAttempt WarmsEventually BackupsRoll
