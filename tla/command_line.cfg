SPECIFICATION Spec
CONSTANTS
  h1 = h1
  h2 = h2
  None = None
  Hosts = {h1, h2}
  Jobs <- GivenJobs
  Urls = {"main", "lan"}
  Default = "main"
  KeepRuns = 1
  MaxFaults = 1
  MaxSignals = 1
  MaxDay = 2
INVARIANTS TypeOK AccountHonest InputHonest EndsWell 
CHECK_DEADLOCK FALSE
