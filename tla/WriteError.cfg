CONSTANTS
  H = H
  M = M
  Wanted <- MCWanted
  NumBlocks <- MCNumBlocks
  Owners <- MCPeers
  Peers <- MCPeers
  Honest <- MCAllHonest
  Holds <- MCHolds
  NoOwner = NoOwner
  NoPeer = NoPeer
  EndgamePieceThreshold = 1
  PipelineMin = 1
  PipelineMax = 2
  Gossip = {}
  KnownPeers = {}
  MaxDiscovered = 1
  Events = {"client"}
SPECIFICATION Spec
INVARIANTS
  WriteErrorsAreHarmless

CHECK_DEADLOCK FALSE
