SPECIFICATION Spec
CONSTANTS
  t1 = t1
  rec = rec
  Tasks = {t1}
  New = {t1}
  Record = rec
  Linked = {t1}
  Repeating = {t1}
  Screens = {"tasks", "today", "record"}
  Slots = {1, 2}
  Nothing = Nothing
  Budgets <- MCBudgets
PROPERTY TransitionsAreGuarded
CHECK_DEADLOCK FALSE
