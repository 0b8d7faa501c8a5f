SPECIFICATION Spec
CHECK_DEADLOCK FALSE
SYMMETRY Symmetry
CONSTANTS
    Workers = {w1, w2}
    Batches = {b1, b2}
    NoBatch = NoBatch
    EventsPerBatch = 2
    MaxDeliveries = 3
    MaxFaults = 2
INVARIANT
    AckedIsDurable
