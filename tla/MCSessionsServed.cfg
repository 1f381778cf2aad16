SPECIFICATION Spec
CONSTANTS
  c1 = c1
  c2 = c2
  c3 = c3
  s1 = s1
  s2 = s2
  i1 = i1
  u1 = u1
  u2 = u2
  None = None
  Conns <- MCConns
  Sids <- MCSids
  Rids <- MCRids
  Uids <- MCUids
  Token <- MCToken
  MaxUsers = 2
  MaxRooms = 4
  MaxOrders = 1
INVARIANT ServedIsIndexed
