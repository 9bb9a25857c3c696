SPECIFICATION PageSpec
CONSTANTS
  t1 = t1
  rec = rec
  Tasks = {t1}
  New = {t1}
  Record = rec
  Linked = {t1}
  Repeating = {t1}
  Screens = {"tasks", "today", "record"}
  Slots = {1, 2}
  Nothing = Nothing
  Budgets <- MCBudgets
  MaxProcesses = 3
  MaxGeneration = 5
  Limits <- MCLimits
INVARIANTS SettledViewsAreCurrent QuietGateAgrees
PROPERTIES QuietDraftsSurvive QuietUpdateIsExact
CHECK_DEADLOCK FALSE
