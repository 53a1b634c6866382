CONSTANTS
  H = H
  M = M
  Wanted <- MCWanted
  NumBlocks <- MCNumBlocks
  Owners <- MCPeers
  Peers <- MCPeers
  Honest <- MCAllHonest
  Holds <- MCOverlap
  NoOwner = NoOwner
  NoPeer = NoPeer
  EndgamePieceThreshold = 1
  PipelineMin = 1
  PipelineMax = 2
  Gossip = {1, 2, 3}
  KnownPeers = {3}
  MaxDiscovered = 1
  Events = {"timeout"}
SPECIFICATION SwarmSpec
INVARIANTS
  DiscoveredIsNew
PROPERTIES
  UsesScheduler
  SwarmDelivers
  
CHECK_DEADLOCK FALSE
