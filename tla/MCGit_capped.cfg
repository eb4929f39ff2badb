SPECIFICATION Spec
CONSTANTS
  a = a
  b = b
  scanned = scanned
  p1 = p1
  p2 = p2
  Commit = {1, 2, 3, 4}
  Parents <- MCParents
  Touches <- MCTouches
  Ref = {"HEAD"}
  File = {scanned}
  PathOf <- MCPathOf
  Dotted = {}
  Cap = {2, 9}
  Process = {p1, p2}
  MaxCommands = 2
  MaxMoves = 2
  MaxEdits = 0
SYMMETRY Workers
INVARIANT ResumeLosesNothing
CHECK_DEADLOCK FALSE
