CONSTANTS
  H = H
  M = M
  Wanted <- MCOnePiece
  NumBlocks <- MCNumBlocks
  Owners <- MCPeers
  Peers <- MCPeers
  Honest <- MCHonest
  Holds <- MCHoldsOne
  NoOwner = NoOwner
  NoPeer = NoPeer
  EndgamePieceThreshold = 1
  PipelineMin = 1
  PipelineMax = 2
  Gossip = {}
  KnownPeers = {}
  MaxDiscovered = 1
  Events = {"choke", "timeout", "deadline", "client"}
SPECIFICATION FairSpec
INVARIANTS
  NeverOvercommitted
  SettledIsQuiet
PROPERTIES
  ImplementsContract
CHECK_DEADLOCK FALSE
