CONSTANTS
  MaxTasks = 2
  MaxCopies = 2
  MaxConcurrency = 2
  MaxRetries = 1
  MaxRepairs = 1
  Fanouts = {0}
  MaxRequests = 1
  MaxFaults = 1
  MaxCrashes = 1
SPECIFICATION Spec
CONSTRAINT OneTaskOrFailuresOnly
INVARIANTS
  QueuedIsScheduled
  RunningIsWorked
  FailedMeansEscalated
  ExecutionBound
  OneTurnAtATime
CHECK_DEADLOCK FALSE
