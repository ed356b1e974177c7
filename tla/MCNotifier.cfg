CONSTANTS
  t1 = t1
  t2 = t2
  Tasks = {t1}
  MaxChanges = 3
  MaxTroubles = 2
SPECIFICATION FairSpec
INVARIANTS
  TypeOK
  NoRepeatedUpdate
  UnboundWasTold
  FileFollows
PROPERTIES
  UpdatesFlow
CHECK_DEADLOCK FALSE
