SPECIFICATION ControlSpec
CONSTANTS
  Users = {u1}
  Passwords = {p1}
  Tokens = {t1}
  Slots = {s1}
  None = None
  LOGIN_MAX_FAILS = 1
  LOGIN_LOCK_MS = 1
  MaxTime = 1
  MaxFailures = 0
  MaxBreaks = 1
  EnvIds = {e1, e2}
  BridgeSlots = {b1, b2}
  MaxSessions = 2
INVARIANTS EnvTypeOK WorkHonest 
PROPERTIES EventuallyPolled
CHECK_DEADLOCK FALSE
