SPECIFICATION Spec
CONSTANTS
    MaxEvents = 2
    StreamBuffer = 2
    MaxLimit = 2
    DefaultLimit = 1
    LoginLimit = 1
    Classes = {"other"}
    MaxCursor = 3
    MaxRestarts = 1
    PageSize = 1
    ScopeLimit = 1
    MaxDrops = 1
    MaxScopes = 1
    w = w
    i = i
    Waiters = {w}
    s = s
    Inspectors = {i}
    Watchers = {s}
    WaitLimit = 2
    InspectLimit = 2
    Inspected = {}
    Kinds = {"browser"}
INVARIANT
    GapsHaveAReason
PROPERTY
    ForgetsOnlyRetired
CHECK_DEADLOCK FALSE
