SPECIFICATION FairSpec
CONSTANTS
    QueueSize = 1
    MaxSeen = 2
    Workers <- OneWorker
    WorkerOf <- AllToOne
    Plan <- BatchOnly
    MaxRetries = 1
    BatchLimit = 2
    Monitor = FALSE
    Outcomes <- BothOutcomes
    TaskTimeouts = FALSE
    Stops = FALSE
    MaxFaults = 1
    Overlap = FALSE
    MaxProcs = 2
PROPERTY EventuallySurfaced
CHECK_DEADLOCK FALSE
