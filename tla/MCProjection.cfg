SPECIFICATION FairSpec
CONSTANTS
  a1 = a1
  a2 = a2
  b1 = b1
  manifest = manifest
  fileA = fileA
  fileB = fileB
  p1 = p1
  p2 = p2
  NoObs = NoObs
  Obs = {a1, a2, b1}
  Locator <- MCLocator
  LocatorOf <- MCLocatorOf
  FileStates <- MCFileStates
  State <- MCState
  StateOf <- MCStateOf
  Proc = {p1, p2}
  Engine = "sqlite"
  Commands = {"scan", "project"}
  BatchLimit = 2
  MayAbandon = TRUE
  MaxSeq = 2
INVARIANTS TypeOK Reflected UniqueRows
PROPERTIES ImplementsLogView EveryRowProjected
