SPECIFICATION Spec
CHECK_DEADLOCK FALSE
CONSTANTS
    MaxStreams = 2
    CommandCap = 1
    SendCap = 1
    MaxCommands = 0
    MaxBatches = 1
INVARIANT
    IsOnlineIsTrue
