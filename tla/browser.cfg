SPECIFICATION Spec
CONSTANTS
  Sids = {a, b}
  None = None
  MaxEvents = 1
  MaxChanges = 1
  MaxDrops = 1
  MaxRetries = 1
  MaxWire = 2
INVARIANTS TypeOK  OnceOnly
PROPERTIES BackOnline
CHECK_DEADLOCK FALSE
