SPECIFICATION JournalFairSpec
CONSTANTS
    Procs = {p, q, r}
    Ids = {a, b}
    Sizes = {1}
    Durable = TRUE
    MaxEvents = 1
    MaxBytes = 9
    Retention = 9
    StreamBuffer = 1
    MaxCursor = 3
    MaxTime = 0
    MaxDropped = 0
    MaxSubscribers = 0
    CompactAbove = 2
    MaxFaults = 1
    MaxRestarts = 0
PROPERTIES WaitersProceed
CHECK_DEADLOCK FALSE
