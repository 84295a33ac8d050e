SPECIFICATION FairSpec
CONSTANTS
  Block = {b, c}
  Infos = {fork, longer}
  MaxMoves = 3
  MaxFaults = 2
INVARIANTS
  TypeOK
  RecordedIsExported
  OncePerCut
PROPERTIES
  NeverDowngraded
  ImplementsEventLog
  EventuallyReported
