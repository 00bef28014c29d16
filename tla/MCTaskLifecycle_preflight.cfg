SPECIFICATION FairSpec
CONSTANTS
  l1 = l1
  l2 = l2
  r1 = r1
  r2 = r2
  Task = {r1}
  Remote = {r1}
  Approval = {a1}
  NoTask = NoTask
  NoApproval = NoApproval
  MaxCancels = 1
  MaxRestarts = 0
PROPERTY ApprovedRunContinues
CHECK_DEADLOCK FALSE
