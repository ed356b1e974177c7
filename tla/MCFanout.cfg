CONSTANTS
  MaxTasks = 3
  MaxCopies = 2
  MaxConcurrency = 2
  MaxRetries = 0
  MaxRepairs = 0
  Fanouts = {2}
  MaxRequests = 1
  MaxFaults = 0
  MaxCrashes = 0
SPECIFICATION Spec
INVARIANTS
  TypeOK
  FanInAgrees
CHECK_DEADLOCK FALSE
