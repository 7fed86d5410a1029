SPECIFICATION FairSpec
CONSTANTS
  p1 = p1
  p2 = p2
  a = a
  b = b
  Partitions <- OnePartition
  Keys <- TwoKeys
  KeyOf <- InterleavedKeys
  OrderingModes <- KeyHash
  Limits <- OneOrTwo
  RouteBatchSize = 1
  OrderedRouteBatch <- NotBatched
  BlockingCacheTtl = 1
  BlockingTimeouts = FALSE
  PoisonThreshold = 2
  Statuses <- BothStatuses
  FaultKinds <- RevokeOnly
  MaxFaults = 1
PROPERTIES
  EventuallyCompleted
CHECK_DEADLOCK FALSE
