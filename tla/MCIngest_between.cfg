SPECIFICATION FairSpec
CONSTANTS
  g = g
  a1 = a1
  a2 = a2
  a3 = a3
  a4 = a4
  a5 = a5
  b1 = b1
  b2 = b2
  b3 = b3
  b4 = b4
  None = None
  NoBlock = None
  Block <- BlockForkAt1
  Parent <- ParentForkAt1
  Height <- HeightForkAt1
  MaxHeight = 4
  InitHeight = 2
  OldHeight = 1
  Confirmations = 0
  MaxReorgDepth = 3
  BatchSize = 2
  Workers = 1
  PrefetchPerWorker = 1
  ReorgMode = "between"
  MaxFaults <- OneOfEach
INVARIANTS
  StatusFollowsChain
  WalkNeverLost
  ActiveChainExported
PROPERTIES
  EventuallyExported
