SPECIFICATION Spec
CONSTANTS
  Tabs = {t1, t2}
  Keys <- MCKeys
  Runtime <- MCRuntime
  Typable <- MCTypable
  Restored <- MCRestored
  Numbers <- MCNumbers
  Default <- MCDefault
  FirstTable <- MCFirstTable
  MaxMoves = 3
  MaxFaults = 1
SYMMETRY TabSymmetry
INVARIANTS
  TypeOK
  EngineFollowsTable
PROPERTIES
  EditsSurviveRefetch
  SavesOnlyWhatWasTyped
CHECK_DEADLOCK FALSE
