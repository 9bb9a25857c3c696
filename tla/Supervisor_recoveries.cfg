SPECIFICATION FairSpec
CONSTANTS
  w1 = w1
  NoWorkspace = NoWorkspace
  setup = setup
  ui = ui
  quit = quit
  Workspaces <- OneWorkspace
  RestartLimit = 1
  MaxSpawns = 4
  MaxCrashes = 0
  MaxCommands = 0
INVARIANTS SpawnsAreBounded
PROPERTIES ThreadsReturn StartingEnds
CHECK_DEADLOCK FALSE
