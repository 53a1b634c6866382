CONSTANTS
  H = H
  M = M
  Wanted <- MCWanted
  NumBlocks <- MCNumBlocks
  Owners <- MCPeers
  Peers <- MCPeers
  Honest <- MCHonest
  Holds <- MCHolds
  NoOwner = NoOwner
  NoPeer = NoPeer
  EndgamePieceThreshold = 1
  PipelineMin = 1
  PipelineMax = 2
  Gossip = {}
  KnownPeers = {}
  MaxDiscovered = 1
  Events = {"disconnect", "deadline"}
SPECIFICATION Spec
INVARIANTS
  TypeOK
  EmittedIntact
  HashedIsHeld
  RequestsHaveLiveOwners
  EachReportsOnce

CHECK_DEADLOCK FALSE
