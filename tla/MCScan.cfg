SPECIFICATION Spec
CONSTANTS
  inner = inner
  outer = outer
  dir = dir
  top = top
  v1 = v1
  v2 = v2
  s1 = s1
  s2 = s2
  Gone = Gone
  NoCursor = NoCursor
  Locator = {inner, outer}
  Dir = {dir}
  Root = top
  Parent <- MCParent
  WalkPos <- MCWalkPos
  StrPos <- MCStrPos
  Version = {v1, v2}
  Crossed = FALSE
  Scanner = {s1}
  Engine = "postgres"
  Limits = {1, 9}
  Resumes = {FALSE, TRUE}
  RootStates = {"up", "missing"}
  MayFail = TRUE
  MayRestore = FALSE
  MayHide = TRUE
  MaxEdits = 2
  MaxPasses = 3
SYMMETRY Interchangeable
INVARIANTS TypeOK CursorCovers
PROPERTIES TombstoneHonest CompleteSawEverything CalmPassIsAccurate
CHECK_DEADLOCK FALSE
