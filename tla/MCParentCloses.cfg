CONSTANTS
  MaxTasks = 2
  MaxCopies = 1
  MaxConcurrency = 1
  MaxRetries = 0
  MaxRepairs = 0
  Fanouts = {1}
  MaxRequests = 0
  MaxFaults = 0
  MaxCrashes = 1
SPECIFICATION FairSpec
PROPERTIES
  ParentCloses
CHECK_DEADLOCK FALSE
