SPECIFICATION BoardSpec
CONSTANTS
  h1 = h1
  h2 = h2
  h3 = h3
  Hashes <- MCHashes
  Rows <- MCRows
  Category <- MCCategory
  Tags <- MCTags
  Matches <- MCMatches
  SortKey <- MCSortKey
  FirstSets <- MCFirstSets
  FirstFlags <- MCFirstFlags
  MaxSteps = 2
  MaxChanges = 1
INVARIANTS
  BoardTypeOK
  BadgeHasPill
  RowsAreTheMatches
  DragLandsNearby
