SPECIFICATION LiveSpec
CONSTANTS
  Texts <- MCTexts
  NoText = ""
  LogFilters <- MCLogFilters
  NoFilter = "all"
  Tabs <- MCTabs
  FirstTab = "all"
  Levels <- MCLevels
  FirstLevel = "info"
  FirstPages <- MCFirstPages
  MaxMoves = 3
  MaxFaults = 1
  MaxCalls = 2
INVARIANTS
  TypeOK
  LevelAgrees
  ListShowsItsOwn
  PageHasRows
PROPERTIES
  LogsCatchUp
CHECK_DEADLOCK FALSE
