SPECIFICATION ExternalSpec
CONSTANTS
    Procs = {p, q}
    Ids = {a, b, c}
    Sizes = {1}
    Durable = TRUE
    MaxEvents = 2
    MaxBytes = 9
    Retention = 0
    StreamBuffer = 1
    MaxCursor = 3
    MaxTime = 0
    MaxDropped = 0
    MaxSubscribers = 0
    MaxFaults = 0
    MaxRestarts = 1
SYMMETRY Symmetry
PROPERTIES ClearDeletesRows
CHECK_DEADLOCK FALSE
