SPECIFICATION LiveSpec
CONSTANTS
  Hashes <- MCHashes
  FirstLive <- MCFirstLive
  FirstOrphans <- MCFirstOrphans
  MaxMoves = 5
  MaxFaults = 1
INVARIANTS
  TypeOK
  LiveHasRow
  GoneRowsLeave
PROPERTIES
  BadgeCatchesUp
