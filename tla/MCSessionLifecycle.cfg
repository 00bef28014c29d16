SPECIFICATION SessionSpec
CONSTANTS
  Task = {l1, l2}
  Remote = {}
  Approval = {a1, a2}
  NoTask = NoTask
  NoApproval = NoApproval
  MaxCancels = 1
  MaxRestarts = 1
  MaxUpsets = 1
SYMMETRY SessionSymmetry
INVARIANTS
  SessionTypeOK
  HeardWhileInProgress
  OneRunAtATime
  WaitsForSomething
PROPERTIES
  StartNeedsConsent
CHECK_DEADLOCK FALSE
