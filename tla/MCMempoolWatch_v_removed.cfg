SPECIFICATION Spec
CONSTANTS
  t = t
  u = u
  NoTx = NoTx
  Tx = {t}
  Rivals = {}
  Listed = {t}
  ScanBlocks = 2
  ForgetAfter = 2
  DirectlyMined = {}
  MaxBlocks = 4
  MaxReorg = 1
  MaxMoves = 3
  MaxFaults = 0
INVARIANTS
  RemovedIsUnmined
