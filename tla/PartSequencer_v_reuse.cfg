SPECIFICATION Spec
CONSTANTS
  MaxParts = 5
  MaxBatches = 5
  MaxCrashes = 2
  PartCap = 2
  RenameGap = TRUE
  TornAppends = FALSE
CHECK_DEADLOCK FALSE
INVARIANTS
  HandedOffOnce
