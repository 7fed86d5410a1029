SPECIFICATION Spec
CONSTANTS
  p1 = p1
  p2 = p2
  a = a
  b = b
  Partitions <- OnePartition
  Keys <- TwoKeys
  KeyOf <- InterleavedKeys
  OrderingModes <- AllModes
  Limits <- OneOrTwo
  RouteBatchSize = 2
  OrderedRouteBatch <- BothBatching
  BlockingCacheTtl = 1
  BlockingTimeouts = FALSE
  PoisonThreshold = 1
  Statuses <- BothStatuses
  FaultKinds <- AllFaults
  MaxFaults = 1
INVARIANTS
  QueuesRegistered
  LedgerBalanced
  SerialWithinAssignment
  OffsetOrder
CHECK_DEADLOCK FALSE
