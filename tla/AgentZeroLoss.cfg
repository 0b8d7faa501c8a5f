SPECIFICATION Spec
CONSTANTS
    BufferSize = 2
    BatchSize = 2
    QueueQuota = 2
    ClockSkew = 0
    MaxEvents = 2
    MaxFaults = 1
INVARIANT
    ZeroDataLoss
