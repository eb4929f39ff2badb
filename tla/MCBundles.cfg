SPECIFICATION Spec
CONSTANTS
  f = f
  g = g
  v1 = v1
  v2 = v2
  Gone = Gone
  Node = {"alice", "bob", "carol"}
  Process = {"p"}
  Own <- MCOwn
  Hands <- MCHands
  SameName = FALSE
  Locator = {f}
  Version = {v1}
  ScanLevels = {"device", "facility"}
  DestLevels = {"facility"}
  MaxObs = 2
  MaxExports = 3
  MaxKeys = 2
SYMMETRY Interchangeable
INVARIANTS TypeOK Attributed OneKey NoneLost
PROPERTIES FollowsSender
CHECK_DEADLOCK FALSE
