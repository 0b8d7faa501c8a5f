SPECIFICATION FairSpec
CONSTANTS
    BufferSize = 1
    BatchSize = 3
    QueueQuota = 2
    ClockSkew = 1
    MaxEvents = 3
    MaxFaults = 2
INVARIANTS
    QuotaRespected
    OneBatchPerEvent
    BatchesAreRuns
PROPERTIES
    DurableUntilSent
    MemoryDrains
    DiskDrains
    StopCompletes
