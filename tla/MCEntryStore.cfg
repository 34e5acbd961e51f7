SPECIFICATION Spec
CONSTANTS
    Procs = {p, q}
    Ids = {a, b, c}
    Sizes = {1, 2, 4}
    Durable = TRUE
    MaxEvents = 2
    MaxBytes = 3
    Retention = 0
    StreamBuffer = 2
    MaxCursor = 3
    MaxTime = 1
    MaxDropped = 1
    MaxSubscribers = 1
SYMMETRY Symmetry
INVARIANTS IndexesAgree CursorsAscend LimitsHold StreamContiguous
PROPERTIES RetiresOldestFirst AcceptedEntryIsStored
CHECK_DEADLOCK FALSE
