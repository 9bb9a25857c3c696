SPECIFICATION Spec
CONSTANTS
  Nothing = Nothing
  Workspaces = {w1, w2, w3}
  MaxEntries = 2
  MaxRecords = 3
  MaxMishaps = 2
  Collections = {"a", "b", "c"}
  Fields = {"f", "g"}
  Names = {2, 3}
  Orders = {2}
  Keys = {1, 2}
  Scenes <- MCScenes
  MaxProcesses = 3
  MaxGeneration = 5
  Limits <- MCLimits
  NoJob = Nothing
  MaxSteps = 2
  Cases <- MCCases
  LayoutFields = {"theme", "width"}
  Values = {0, 1}
  Items = {"a"}
  Refused = {"x"}
  RecentLimit = 2
  Legacies <- MCLegacies
  NoValue = NoValue
  MaxSaves = 3
  Budgets <- MCBudgets
INVARIANTS QuietPageAgrees SchemaEditsLand RecentWorkspacesSurvive
PROPERTIES MigrationIsFaithful WaitsEnd
CHECK_DEADLOCK FALSE
