SPECIFICATION FairSpec
CONSTANTS
  p1 = p1
  p2 = p2
  Partitions <- TwoPartitions
  MaxOffset = 1
  QueueMaxPartitions = 1
  FaultKinds <- AllFaults
  MaxFaults = 2
INVARIANTS
  SettledAfterConfirmation
  CommitsOnlyHandled
  OutboxBounded
PROPERTIES
  CommitsAdvance
  EventuallyCommitted
CHECK_DEADLOCK FALSE
