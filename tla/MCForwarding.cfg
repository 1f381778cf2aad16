SPECIFICATION Spec
CONSTANTS
  a = a
  b = b
  None = None
  Parts <- MCParts
  Publishers <- MCPublishers
  MaxActive = 2
  MaxTracks = 1
  MaxOrders = 2
INVARIANTS
  TypeOK
  TracksComplete
  FanoutExactAlone
PROPERTIES
  RevokedPublisherSilent
