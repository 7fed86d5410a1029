SPECIFICATION FairSpec
CONSTANTS
  MaxOffset = 1
  Log <- DenseLog
  Start = 0
  MaxRetries = 1
  DlqEnabled = FALSE
  TaskTimeouts = TRUE
  BlockingTimeouts = TRUE
  MetadataSnapshot = FALSE
  MetadataCap = 0
  MaxMetadataSize = 8
  FaultKinds <- AllFaults
  MaxFaults = 1
INVARIANTS
  DirtyCoversCompleted
PROPERTIES
  ImplementsAtLeastOnce
  EventuallyPrefixComplete
CHECK_DEADLOCK FALSE
