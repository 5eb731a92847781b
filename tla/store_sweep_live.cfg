SPECIFICATION Spec
CONSTANTS
  r1 = r1
  r2 = r2
  e1 = e1
  t1 = t1
  t2 = t2
  t3 = t3
  x1 = x1
  x2 = x2
  ReplSid = {r1}
  EnvSid = {}
  Token = {t1}
  Stream = {x1}
  None = None
  TTL = 1
  LoadWindow = 2
  MaxNow = 2
  MaxFaults = 0
  MaxInFlight = 1
  ReconnectOverlaps = FALSE
PROPERTY SweepKeepsLive
CHECK_DEADLOCK FALSE
