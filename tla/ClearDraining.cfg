CONSTANTS
  Torrents = {t}
  NumPieces = 2
  Addresses = {a}
  None = None
  Workers = {w1, w2}
  Starts = {g}
  MinPeers = 1
  MaxPeerCache = 1
  MaxWorkers = 2
  MinBatch = 1
  StartBatch = 1
  MaxBatch = 2
  MaxSwitches = 1
  Worlds = {{"stop", "clear"}}
SPECIFICATION Spec
PROPERTIES
  PurgeIsFinal
SYMMETRY Pool
