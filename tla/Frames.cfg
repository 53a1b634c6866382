CONSTANTS
  FrameStreams <- MCFrameStreams
  WireStreams <- MCWireStreams
SPECIFICATION Spec
INVARIANTS
  ItemsAreExact
CHECK_DEADLOCK FALSE
