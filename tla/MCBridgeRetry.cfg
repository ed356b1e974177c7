CONSTANTS
  m1 = m1
  m2 = m2
  Messages = {m1}
  MaxRetries = 1
  MaxDeliveries = 2
  MaxTroubles = 0
SPECIFICATION FairSpec
PROPERTIES
  FailedDispatchIsRetried
CHECK_DEADLOCK FALSE
