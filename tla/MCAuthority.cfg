SPECIFICATION Spec
CONSTANTS
  rev1 = rev1
  rev2 = rev2
  also2 = also2
  num3 = num3
  copy = copy
  dep = dep
  one = one
  two = two
  empty = empty
  p1 = p1
  p2 = p2
  Gone = Gone
  None = None
  LocOrder <- MCLocOrder
  NameOf <- MCNameOf
  ContentOf <- MCContentOf
  Blank = {empty}
  Vendored = {dep}
  Trees <- MCTrees
  Chosen = {"suffix-as-version"}
  Process = {p1, p2}
  MaxCommands = 3
SYMMETRY Workers
INVARIANTS TypeOK SupersessionEarned
PROPERTIES PersonsAreHeard NothingInvented
CHECK_DEADLOCK FALSE
