SPECIFICATION Spec
CONSTANTS
  w1 = w1
  NoWorkspace = NoWorkspace
  setup = setup
  ui = ui
  quit = quit
  Workspaces <- OneWorkspace
  RestartLimit = 1
  MaxSpawns = 2
  MaxCrashes = 1
  MaxCommands = 1
INVARIANTS ReadyOwnsItsProcess StopEndsItsProcess
CHECK_DEADLOCK FALSE
