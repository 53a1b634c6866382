\* Two owners, two pieces of three and one blocks, endgame at the last piece.
CONSTANTS
  A = A
  B = B
  Wanted <- MCWanted
  NumBlocks <- MCNumBlocks
  Owners <- MCOwners
  NoOwner = NoOwner
  EndgamePieceThreshold = 1
SPECIFICATION SchedSpec
INVARIANTS
  SchedTypeOK
  ReceivedCountsDone
  OwnedIffRequested
  NextRequestsIsTheLoop
PROPERTIES
  DoneIsKept
  HandedOverIsFrozen
