SPECIFICATION Spec
CONSTANTS
    Procs = {p, q, s}
    Requests = {r1, r2}
    Queries = {a, b}
    Logs = {c}
    RequestLimits <- Limits
    DisabledKinds = {"log"}
    Unencodable = {b}
INVARIANT RejectedLeavesNothing
CHECK_DEADLOCK FALSE
