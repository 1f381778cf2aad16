SPECIFICATION FairSpec
CONSTANTS
  None = None
  Orders <- MCOrders
  MaxConns = 2
  MaxOrders = 3
  MaxFaults = 1
INVARIANTS
  RegisteredInForce
  NoOrphan
CHECK_DEADLOCK FALSE
PROPERTIES
  Relinked
  RefreshHeals
