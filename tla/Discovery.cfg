CONSTANTS
  p = p
  q = q
  udp = udp
  http = http
  Nodes = {1, 2, 3, 4, 5}
  NumRouters = 3
  Peers = {p, q}
  Alpha = 2
  MaxQueried = 4
  EnoughPeers = 2
  MaxStrays = 1
  UdpTrackers = {udp}
  HttpTrackers = {http}
  Lists <- MCLists
SPECIFICATION FairSpec
INVARIANTS
  TypeOK
  SlotsAreExact
  NoSlotIdles
  EverySourceCounts
PROPERTIES
  ImplementsContract
CHECK_DEADLOCK FALSE
