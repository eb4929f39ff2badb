SPECIFICATION Spec
CONSTANTS
  copies = copies
  stale = stale
  d1 = d1
  d2 = d2
  NoWaiver = NoWaiver
  Forever = Forever
  Finding = {copies, stale}
  QueryOf <- MCQueryOf
  Queries = 2
  Detector = {d1}
  Engine = "sqlite"
  Age = 0
  MaxTime = 3
  MaxChanges = 3
INVARIANTS TypeOK
PROPERTIES PassAgrees DispositionStands WaiverEnds WaiverRecorded
CHECK_DEADLOCK FALSE
