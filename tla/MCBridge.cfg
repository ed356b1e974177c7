CONSTANTS
  m1 = m1
  m2 = m2
  Messages = {m1, m2}
  MaxRetries = 1
  MaxDeliveries = 2
  MaxTroubles = 1
SPECIFICATION FairSpec
INVARIANTS
  TypeOK
  TaskBound
  LabelsAreTrue
PROPERTIES
  QueuedIsSettled
CHECK_DEADLOCK FALSE
