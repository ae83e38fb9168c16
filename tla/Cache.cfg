SPECIFICATION Spec
CONSTANTS
  None = None
  Epcs = {1, 2}
  Readable = {1}
  Values = {0, 1}
  Default = 0
  Budgets <- MCBudgets
CHECK_DEADLOCK FALSE
INVARIANTS TypeOK CacheSettles
