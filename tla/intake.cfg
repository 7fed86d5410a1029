SPECIFICATION FairSpec
CONSTANTS
  ConfiguredMaxInFlight = 3
  QueueMaxMessages = 2
  BackpressureMin = 1
  ConcurrencyMin = 0
  ScaleUpStep = 1
  ScaleDownStep = 1
  LagScaleUpThreshold = 2
  AdaptiveModes <- AllAdaptiveModes
  Lags <- LowAndHigh
  BatchSize = 2
  MaxLoad = 7
  MaxRebalances = 3
INVARIANTS
  LoadBounded
  OwnershipAgrees
PROPERTIES
  
  
  
  CallbackEnds
CHECK_DEADLOCK FALSE
