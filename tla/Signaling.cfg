SPECIFICATION FairSpec
CONSTANTS
  N = 2
  Clients = {a, b, c}
  Sids = {s1, s2}
  Empty = Empty
  PairingLimit = 0
  IdleLimit = 1
  Sockets = {k1, k2}
  None = None
INVARIANTS TypeOK DistinctOccupants BoundToOwnSlot
PROPERTIES LivePeerKept SessionStaysPut DesertedIsReclaimable
