SPECIFICATION Spec
CONSTANTS
  None = None
  InitialSubsidy = 4
  HalvingInterval = 2
  ValueBits = 2
  TypeBit = 3
  DisableBit = 4
  Utf8 <- Utf8Of
  Latin1 <- Latin1Of
  MaxHeight = 2
  MaxTxs = 2
  MaxInputs = 2
  Templates <- TemplatesOf
  Datasets <- DatasetsOf
  Coinbases <- CoinbasesOf
CHECK_DEADLOCK FALSE
INVARIANTS
  BlockAddsUp
  InputsJoinOutputs
  FeesAreTrue
  
