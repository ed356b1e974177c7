CONSTANTS
  MaxTasks = 2
  MaxCopies = 2
  MaxConcurrency = 1
  MaxRetries = 1
  MaxRepairs = 0
  Fanouts = {0}
  MaxRequests = 0
  MaxFaults = 0
  MaxCrashes = 1
SPECIFICATION FairSpec
PROPERTIES
  QueuedSettles
CHECK_DEADLOCK FALSE
