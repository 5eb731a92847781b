SPECIFICATION Spec
CONSTANTS
  NumGates = 2
  Sticky = {2}
  Names = 2
  SpawnGate = 2
  MaxPauses = 3
  MaxFaults = 2
  HeadlessPauses = 2
  HeadlessFaults = 1
CHECK_DEADLOCK FALSE
INVARIANTS
  TypeOK
  
  StopsHandled
PROPERTY
  NothingHangs
