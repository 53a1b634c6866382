\* A complete peer and one that says anything.
CONSTANTS
  Peers = {C, L}
  Complete = {C}
  InfoPieces = 2
  MaxPieces = 3
SPECIFICATION FairSpec
INVARIANTS
  TypeOK
  ReceivedIsExact
  OneOutstanding
  SettledIsQuiet
  OutcomeIsJust
PROPERTIES
  OnePeerSuffices
CHECK_DEADLOCK FALSE
