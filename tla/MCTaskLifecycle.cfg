SPECIFICATION FairSpec
CONSTANTS
  l1 = l1
  l2 = l2
  r1 = r1
  r2 = r2
  Task = {l1, r1}
  Remote = {r1}
  Approval = {a1, a2}
  NoTask = NoTask
  NoApproval = NoApproval
  MaxCancels = 1
  MaxRestarts = 1
INVARIANTS
  TypeOK
  BrokerConsistent
  AnswerMatchesRow
  WaitingIsAnswerable
  DriverConsistent
  StartedOnce
PROPERTIES
  StartNeedsConsent
  TerminalLeftOnlyByRace
  LocalRunEnds
  CancelEndsRun
  DeskSpec
CHECK_DEADLOCK FALSE
