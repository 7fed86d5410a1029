SPECIFICATION Spec
CONSTANTS
    QueueSize = 1
    MaxSeen = 2
    Workers <- OneWorker
    WorkerOf <- AllToOne
    Plan <- BatchOnly
    MaxRetries = 1
    BatchLimit = 2
    Monitor = TRUE
    Outcomes <- BothOutcomes
    TaskTimeouts = FALSE
    Stops = FALSE
    MaxFaults = 1
    Overlap = TRUE
    MaxProcs = 3
INVARIANT NoRecordStranded
CHECK_DEADLOCK FALSE
