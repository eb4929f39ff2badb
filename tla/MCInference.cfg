SPECIFICATION Spec
CONSTANTS
  text = text
  empty = empty
  whole = whole
  p1 = p1
  p2 = p2
  Gone = Gone
  Blank = {empty}
  LocOrder <- MCLocOrder
  MaxCandidates = 2
  ManifestOf <- MCManifestOf
  Pruned = {"venv"}
  Accepts <- MCAccepts
  ContentOf <- MCContentOf
  Marked <- MCMarked
  OldMarked <- MCOldMarked
  Alike <- MCAlike
  Process = {p1, p2}
  Trees <- MCTrees
  MaxPasses = 2
  MaxChanged = 4
SYMMETRY Workers
INVARIANTS TypeOK RenameSound
PROPERTIES RenamesComplete MembershipCurrent FindingsCurrent
CHECK_DEADLOCK FALSE
