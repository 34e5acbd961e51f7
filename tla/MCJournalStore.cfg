SPECIFICATION JournalSpec
CONSTANTS
    Procs = {p, q, r}
    Ids = {a, b, c}
    Sizes = {1}
    Durable = TRUE
    MaxEvents = 2
    MaxBytes = 9
    Retention = 0
    StreamBuffer = 1
    MaxCursor = 3
    MaxTime = 1
    MaxDropped = 0
    MaxSubscribers = 0
    CompactAbove = 2
    MaxFaults = 1
    MaxRestarts = 1
SYMMETRY Symmetry
INVARIANTS JournalCatchesUp OneWriterInTurn EveryTurnHasAnOwner DivergenceReported
PROPERTIES AcknowledgedSurvives
CHECK_DEADLOCK FALSE
