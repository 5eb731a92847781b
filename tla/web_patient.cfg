SPECIFICATION FairSpec
CONSTANTS
  a = a
  b = b
  Session = {a, b}
  None = None
  HistoryLimit = 1
  MaxEvents = 2
  MaxSubscribes = 4
  MaxFaults = 2
  PatientReader = TRUE
INVARIANTS TypeOK 
PROPERTY EventuallyShown
CHECK_DEADLOCK FALSE
