SPECIFICATION FairSpec
CONSTANTS
  None = None
  Sessions = {s1, s2}
  MaxEpoch = 2
  MaxOrders = 3
INVARIANTS
  TypeOK
  WatchdogSees
PROPERTIES
  GatePromise
CHECK_DEADLOCK FALSE
