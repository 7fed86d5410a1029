SPECIFICATION Spec
CONSTANTS
  MaxOffset = 2
  Log <- DenseLog
  Start = 0
  MaxRetries = 1
  DlqEnabled = TRUE
  TaskTimeouts = FALSE
  BlockingTimeouts = FALSE
  MetadataSnapshot = TRUE
  MetadataCap = 2
  MaxMetadataSize = 2
  FaultKinds <- HandoverFaults
  MaxFaults = 1
INVARIANTS
  NeverCommitsUnhandled
  SkipsOnlyHandled
  NoLostWork
  LedgersHandled
  FirstGapHeadCoherent
PROPERTY
  CommittedOffsetAdvances
CHECK_DEADLOCK FALSE
