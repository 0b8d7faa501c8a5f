SPECIFICATION Spec
CHECK_DEADLOCK FALSE
CONSTANTS
    MaxStreams = 2
    CommandCap = 2
    SendCap = 3
    MaxCommands = 2
    MaxBatches = 1
INVARIANT
    NoSilentLoss
