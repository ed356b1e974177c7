CONSTANTS
  k1 = k1
  k2 = k2
  NoKey = NoKey
  Keys = {k1, k2}
  MaxRecords = 2
  MaxRetries = 1
  MaxCrashes = 1
SPECIFICATION FairSpec
INVARIANTS
  TypeOK
  KeyIndexSound
  DeliveryBudget
  DiskIsTrue
PROPERTIES
  PassIsCurrent
  PromisedIsSettled
  ImplementsDurableDelivery
CHECK_DEADLOCK FALSE
