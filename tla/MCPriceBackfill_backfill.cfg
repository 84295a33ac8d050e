SPECIFICATION FairSpec
CONSTANTS
  m1 = m1
  m2 = m2
  None = None
  Minute = {m1, m2}
  NoPrice = None
  LastStep = 4
  PriceTime <- Prices
  Starts = {1, 2}
  FlushEvery = 2
  MaxPolls = 1
  MaxFaults <- SomeFaults
INVARIANTS
  TypeOK
  NothingSkipped
  LossBounded
PROPERTIES
  WrittenOnce
  EventuallyFilled
