SPECIFICATION Spec
CONSTANTS
  Runs = {1, 2}
  Delegations = {d1}
  Lookers = {l1, l2}
  Threshold = 2
  MaxNudges = 1
  MaxRows = 2
  Statements = {p, q}
  Budgets = {1, 2}
  Multiple = 1
  Closes = {"GATED", "UNGATED"}
  MaxClock = 2
  MaxProcesses = 3
  Faulty = {1}
  Watched = {1}
SYMMETRY Alike
INVARIANTS
  RefusedIsOver
  StatementIsTold
  NudgesPaidFor
PROPERTIES
  BackstopHolds
  NotebooksKept
CHECK_DEADLOCK FALSE
