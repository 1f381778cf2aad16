SPECIFICATION FairSpec
CONSTANTS
  N = 3
  Home <- MCHome
  Seat <- MCSeat
  Parents <- MCParents
  MaxChanges = 2
  MaxFaults = 1
INVARIANTS
  RoutesExact
  NoLoop
CHECK_DEADLOCK FALSE
PROPERTIES
  ComesToRest
