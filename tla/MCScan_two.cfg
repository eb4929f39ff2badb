SPECIFICATION Spec
CONSTANTS
  inner = inner
  outer = outer
  dir = dir
  top = top
  v1 = v1
  v2 = v2
  s1 = s1
  s2 = s2
  Gone = Gone
  NoCursor = NoCursor
  Locator = {inner, outer}
  Dir = {dir}
  Root = top
  Parent <- MCParent
  WalkPos <- MCWalkPos
  StrPos <- MCStrPos
  Version = {v1, v2}
  Crossed = FALSE
  Scanner = {s1, s2}
  Engine = "sqlite"
  Limits = {9}
  Resumes = {FALSE}
  RootStates = {"up"}
  MayFail = TRUE
  MayRestore = FALSE
  MayHide = FALSE
  MaxEdits = 1
  MaxPasses = 3
SYMMETRY Interchangeable
INVARIANTS OneRunningPass
PROPERTIES TombstoneHonest
CHECK_DEADLOCK FALSE
