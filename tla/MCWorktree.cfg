CONSTANTS
  MaxTasks = 2
  MaxCopies = 2
  MaxConcurrency = 2
  MaxRetries = 1
  MaxRepairs = 0
  Fanouts = {0}
  MaxRequests = 0
  MaxFaults = 0
  MaxCrashes = 0
SPECIFICATION Spec
INVARIANTS
  WorktreeIsolation
CHECK_DEADLOCK FALSE
