SPECIFICATION FairSpec
CONSTANTS
  MaxId = 3
  Filters <- MCFilters
  MaxEdits = 2
  MaxOthers = 1
  MaxOutages = 1
  MaxPushed = 1
CHECK_DEADLOCK FALSE
INVARIANTS
  UneditedIsCurrent
PROPERTIES
  ActsOnWhatWasShown
  ReconnectionReconciles
