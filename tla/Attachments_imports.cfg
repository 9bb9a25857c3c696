SPECIFICATION Spec
CONSTANTS
  w1 = w1
  w2 = w2
  x1 = x1
  x2 = x2
  x3 = x3
  i1 = i1
  i2 = i2
  NoWorkspace = NoWorkspace
  NoItem = NoItem
  Workspaces <- TwoWorkspaces
  Items <- ThreeItems
  Imports <- TwoImports
  BatchLimit = 2
SYMMETRY Symmetric
INVARIANTS RecordsHaveFiles FailuresLeaveNothing
CHECK_DEADLOCK FALSE
