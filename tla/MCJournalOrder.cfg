SPECIFICATION JournalSpec
CONSTANTS
    Procs = {p, q, r}
    Ids = {a, b, c}
    Sizes = {1}
    Durable = TRUE
    MaxEvents = 3
    MaxBytes = 9
    Retention = 9
    StreamBuffer = 1
    MaxCursor = 3
    MaxTime = 0
    MaxDropped = 0
    MaxSubscribers = 0
    CompactAbove = 6
    MaxFaults = 0
    MaxRestarts = 1
SYMMETRY Symmetry
INVARIANTS CursorsAscend
CHECK_DEADLOCK FALSE
