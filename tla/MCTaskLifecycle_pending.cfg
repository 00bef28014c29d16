SPECIFICATION FairSpec
CONSTANTS
  l1 = l1
  l2 = l2
  r1 = r1
  r2 = r2
  Task = {l1}
  Remote = {}
  Approval = {a1}
  NoTask = NoTask
  NoApproval = NoApproval
  MaxCancels = 1
  MaxRestarts = 1
PROPERTY PendingIsDecided
CHECK_DEADLOCK FALSE
