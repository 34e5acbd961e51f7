SPECIFICATION ExternalSpec
CONSTANTS
    Procs = {p, q, r}
    Ids = {a, b, c}
    Sizes = {1}
    Durable = TRUE
    MaxEvents = 2
    MaxBytes = 9
    Retention = 0
    StreamBuffer = 1
    MaxCursor = 3
    MaxTime = 1
    MaxDropped = 0
    MaxSubscribers = 0
    MaxFaults = 1
    MaxRestarts = 1
SYMMETRY Symmetry
INVARIANTS TableCatchesUp DivergenceReported CursorsUnique
PROPERTIES CursorContinues
CHECK_DEADLOCK FALSE
