CONSTANTS
  Torrents = {t}
  NumPieces = 3
  Addresses = {a}
  None = None
  Workers = {w1, w2, w3}
  Starts = {g}
  MinPeers = 2
  MaxPeerCache = 1
  MaxWorkers = 3
  MinBatch = 1
  StartBatch = 1
  MaxBatch = 2
  MaxSwitches = 1
  Worlds = {{"stop", "scale"}}
SPECIFICATION FairSpec
PROPERTIES
  StopStops
  DownloadCompletes
