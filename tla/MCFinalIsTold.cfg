CONSTANTS
  t1 = t1
  t2 = t2
  Tasks = {t1}
  MaxChanges = 2
  MaxTroubles = 0
SPECIFICATION Spec
INVARIANTS
  FinalIsTold
CHECK_DEADLOCK FALSE
