SPECIFICATION Spec
CONSTANTS
  p1 = p1
  p2 = p2
  a = a
  b = b
  Partitions <- TwoPartitions
  Keys <- TwoKeys
  KeyOf <- TwoLogs
  OrderingModes <- KeyHash
  Limits <- Two
  RouteBatchSize = 2
  OrderedRouteBatch <- NotBatched
  BlockingCacheTtl = 1
  BlockingTimeouts = TRUE
  PoisonThreshold = 0
  Statuses <- SuccessOnly
  FaultKinds <- AllFaults
  MaxFaults = 1
INVARIANTS
  QueuesRegistered
CHECK_DEADLOCK FALSE
