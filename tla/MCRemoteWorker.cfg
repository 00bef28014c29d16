SPECIFICATION FairWorkerSpec
CONSTANTS
  r1 = r1
  r2 = r2
  Task = {r1, r2}
  Remote = {r1, r2}
  Approval = {a1}
  Slot = {s1}
  NoTask = NoTask
  NoApproval = NoApproval
  MaxCancels = 1
  MaxRestarts = 1
INVARIANTS
  WorkerTypeOK
  BegunOnce
  OneAtATime
  AbandonedOnlyByFault
  WaitingIsAnswerable
PROPERTIES
  CancelReachesWorker
  TerminalLeftOnlyByRace
  StartNeedsConsent
  DeskSafe
CHECK_DEADLOCK FALSE
