SPECIFICATION Spec
CONSTANTS
    Procs = {p, q, s}
    Requests = {r1, r2}
    Queries = {a, b}
    Logs = {c}
    RequestLimits <- Limits
    DisabledKinds = {"log"}
    Unencodable = {b}
INVARIANTS SlotsExact ChildrenBeforeRequest OneFate
PROPERTIES SlotSearchEnds RetainedIsRecorded
CHECK_DEADLOCK FALSE
