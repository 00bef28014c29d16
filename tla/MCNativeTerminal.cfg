SPECIFICATION Spec
CONSTANTS
  t1 = t1
  t2 = t2
  b1 = b1
  b2 = b2
  c1 = c1
  c2 = c2
  r1 = r1
  Bridge = {b1, b2}
  NoBridge = NoBridge
  Request = {r1}
  Terminal = {t1, t2}
  Local = {t2}
  NoTerminal = NoTerminal
  Browser = {c1, c2}
SYMMETRY Symmetry
INVARIANTS
  TerminalTypeOK
  TimersMatchSockets
  HomedOnCurrentBridge
  PendingIsWatched
  ShownOnlyWhenConnected
  OrphanedOnlyByFault
  CreatedOnce
  KilledAfterCreated
  ExitIsLast
CHECK_DEADLOCK FALSE
