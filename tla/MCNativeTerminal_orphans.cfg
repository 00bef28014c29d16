SPECIFICATION SteadySpec
CONSTANTS
  t1 = t1
  t2 = t2
  b1 = b1
  b2 = b2
  c1 = c1
  c2 = c2
  r1 = r1
  Bridge = {b1}
  NoBridge = NoBridge
  Request = {}
  Terminal = {t1}
  Local = {}
  NoTerminal = NoTerminal
  Browser = {c1}
PROPERTY PtysEnd
CHECK_DEADLOCK FALSE
