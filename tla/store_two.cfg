SPECIFICATION Spec
CONSTANTS
  r1 = r1
  r2 = r2
  e1 = e1
  t1 = t1
  t2 = t2
  t3 = t3
  x1 = x1
  x2 = x2
  ReplSid = {r1}
  EnvSid = {e1}
  Token = {t1, t2, t3}
  Stream = {x1}
  None = None
  TTL = 1
  LoadWindow = 2
  MaxNow = 1
  MaxFaults = 1
  MaxInFlight = 2
  ReconnectOverlaps = TRUE
SYMMETRY Symmetry
INVARIANTS TokenIndexExact TokenMeansOneSession
CHECK_DEADLOCK FALSE
