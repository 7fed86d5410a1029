SPECIFICATION FairSpec
CONSTANTS
  MaxInFlight = 1
  MaxRetries = 2
  CacheMaxBytes = 2
  FullPayloadMode = TRUE
  SizeOf <- TwoRecords
  BatchSize = 2
  DlqEnabled = TRUE
  StrictMonitor = TRUE
  Policies <- BothPolicies
  FaultKinds <- AllFaults
  MaxFaults = 1
  MaxStops = 2
INVARIANTS
  PermitsConserved
  CacheAccounted
  CommittedHandled
  DrainedHandled
  
  StopReleasesAll
PROPERTIES
  LockReleased
  StopEnds
CHECK_DEADLOCK FALSE
