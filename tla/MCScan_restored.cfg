SPECIFICATION Spec
CONSTANTS
  inner = inner
  outer = outer
  dir = dir
  top = top
  v1 = v1
  v2 = v2
  s1 = s1
  s2 = s2
  Gone = Gone
  NoCursor = NoCursor
  Locator = {inner, outer}
  Dir = {dir}
  Root = top
  Parent <- MCParent
  WalkPos <- MCWalkPos
  StrPos <- MCStrPos
  Version = {v1, v2}
  Crossed = FALSE
  Scanner = {s1}
  Engine = "sqlite"
  Limits = {9}
  Resumes = {FALSE}
  RootStates = {"up"}
  MayFail = FALSE
  MayRestore = TRUE
  MayHide = FALSE
  MaxEdits = 2
  MaxPasses = 3
PROPERTIES CalmPassIsAccurate
CHECK_DEADLOCK FALSE
