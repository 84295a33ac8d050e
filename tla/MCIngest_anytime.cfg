SPECIFICATION Spec
CONSTANTS
  g = g
  a1 = a1
  a2 = a2
  a3 = a3
  a4 = a4
  a5 = a5
  b1 = b1
  b2 = b2
  b3 = b3
  b4 = b4
  None = None
  NoBlock = None
  Block <- BlockForkAtG
  Parent <- ParentForkAtG
  Height <- HeightForkAtG
  MaxHeight = 5
  InitHeight = 2
  OldHeight <- NeverUpgraded
  Confirmations = 1
  MaxReorgDepth = 2
  BatchSize = 3
  Workers = 2
  PrefetchPerWorker = 1
  ReorgMode = "anytime"
  MaxFaults <- CrashAndRpc
INVARIANTS
  TypeOK
  IndexImpliesExported
  DuplicatesBounded
  OneBranch
PROPERTIES
  ImplementsExportLog
