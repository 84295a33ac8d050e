SPECIFICATION Spec
CONSTANTS
  MaxParts = 5
  MaxBatches = 5
  MaxCrashes = 2
  PartCap = 2
  RenameGap = FALSE
  TornAppends = TRUE
CHECK_DEADLOCK FALSE
INVARIANTS
  HandedOffOnce
  NothingLost
PROPERTIES
  ExportedNeverChanges
