SPECIFICATION FairSpec
CONSTANTS
  t = t
  u = u
  NoTx = NoTx
  Tx = {t, u}
  Rivals <- TwoRivals
  Listed = {t}
  ScanBlocks = 2
  ForgetAfter = 2
  DirectlyMined = {t}
  MaxBlocks = 4
  MaxReorg = 1
  MaxMoves = 3
  MaxFaults = 1
INVARIANTS
  RecordMatchesEvents
  ConfirmedByItsBlock
PROPERTIES
  NotForgotten
  ImplementsEventLog
  EventuallyAgrees
