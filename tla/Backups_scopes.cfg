SPECIFICATION ScopedSpec
CONSTANTS
  w1 = w1
  w2 = w2
  x1 = x1
  i1 = i1
  d1 = d1
  d2 = d2
  NoWorkspace = NoWorkspace
  NoItem = NoItem
  NoDir = NoDir
  NoContent = NoContent
  Workspaces <- TwoWorkspaces
  Items <- OneItem
  Imports <- OneImport
  Dirs <- TwoDirs
  BatchLimit = 1
  Keep = 1
  MaxRuns = 3
  MaxTime = 1
  ClockMayGoBack = TRUE
INVARIANTS RetainedBackupsExist OnlyTrashIsLost SnapshotStaysCollectable
PROPERTIES RemovalLeavesEnough RestoreOverwritesNothing
CHECK_DEADLOCK FALSE
