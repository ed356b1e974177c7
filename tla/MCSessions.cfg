CONSTANTS
  MaxCalls = 3
  MaxObjects = 2
  MaxStops = 1
  MaxAborts = 1
  MaxWindows = 1
  Fading = {1}
  Depth = 1
  Sends = {3}
  Subscribers = {3}
SPECIFICATION FairSpec
INVARIANTS
  TypeOK
  WaitersAreServed
  OneTurnPerWindow
  BusyIsSeen
  SessionIsReachable
PROPERTIES
  CallsSettle
CHECK_DEADLOCK FALSE
