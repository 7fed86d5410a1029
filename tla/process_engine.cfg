SPECIFICATION Spec
CONSTANTS
    QueueSize = 1
    MaxSeen = 2
    Workers <- OneWorker
    WorkerOf <- AllToOne
    Plan <- BatchOnly
    MaxRetries = 1
    BatchLimit = 2
    Monitor = TRUE
    Outcomes <- BothOutcomes
    TaskTimeouts = TRUE
    Stops = TRUE
    MaxFaults = 2
    Overlap = FALSE
    MaxProcs = 3
INVARIANTS
    NoRecordStranded
    SurfacedOnce
    CountersExact
    RouteOrder
    
CHECK_DEADLOCK FALSE
