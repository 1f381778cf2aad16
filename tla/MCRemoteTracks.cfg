SPECIFICATION Spec
CONSTANTS
  s1 = s1
  s2 = s2
  k1 = k1
  k2 = k2
  k3 = k3
  l1 = l1
  None = None
  Sessions <- MCSessions
  Tracks <- MCTracks
  Origin <- MCOrigin
  Listeners <- MCListeners
  MaxPubs = 5
  MaxActive = 2
  MaxOrders = 2
  MaxArrivals = 2
INVARIANTS
  NoStaleRegistration
  RecomputeHeals
  HeardAlone
CHECK_DEADLOCK FALSE
SYMMETRY MCSymmetry
