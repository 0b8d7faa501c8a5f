SPECIFICATION FairSpec
CHECK_DEADLOCK FALSE
CONSTANTS
    MaxStreams = 2
    CommandCap = 1
    SendCap = 1
    MaxCommands = 2
    MaxBatches = 1
INVARIANTS
    OneOpenChannel
    Accounted
    NoGoroutineLeak
PROPERTIES
    NoOvertaking
    DispatchedResolves
    KeepsPromise
