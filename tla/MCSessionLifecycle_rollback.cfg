SPECIFICATION SessionSpec
CONSTANTS
  Task = {l1, l2}
  Remote = {}
  Approval = {a1, a2}
  NoTask = NoTask
  NoApproval = NoApproval
  MaxCancels = 1
  MaxRestarts = 1
  MaxUpsets = 1
SYMMETRY SessionSymmetry
PROPERTIES
  NoRollback
CHECK_DEADLOCK FALSE
