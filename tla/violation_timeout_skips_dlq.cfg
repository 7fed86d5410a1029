SPECIFICATION Spec
CONSTANTS
  MaxOffset = 0
  Log <- DenseLog
  Start = 0
  MaxRetries = 2
  DlqEnabled = TRUE
  TaskTimeouts = TRUE
  BlockingTimeouts = FALSE
  MetadataSnapshot = FALSE
  MetadataCap = 0
  MaxMetadataSize = 4000
  FaultKinds <- RevokeOnly
  MaxFaults = 0
INVARIANT
  NeverCommitsUnhandled
CHECK_DEADLOCK FALSE
