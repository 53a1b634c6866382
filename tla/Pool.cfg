CONSTANTS
  Torrents = {t, u}
  NumPieces = 2
  Addresses = {a, b}
  None = None
  Workers = {w1, w2}
  Starts = {g}
  MinPeers = 1
  MaxPeerCache = 1
  MaxWorkers = 2
  MinBatch = 1
  StartBatch = 1
  MaxBatch = 2
  MaxSwitches = 1
  Worlds = {
    {"stop", "errors", "crash", "scale"},
    {"stop", "clear", "save"},
    {"stop", "quota", "errors"},
    {"switch"}}
SPECIFICATION Spec
INVARIANTS
  TypeOK
  ClaimsAreDisjoint
  ActiveIsExact
  BitsAreStored
  ClaimsExist
  DiskIsIntact
PROPERTIES
  RecordsOnlyGrow
  EndsOnlyWhenDone
SYMMETRY Pool
