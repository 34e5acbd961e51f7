SPECIFICATION Spec
CONSTANTS
    MaxEvents = 3
    StreamBuffer = 2
    MaxLimit = 2
    DefaultLimit = 1
    LoginLimit = 1
    Classes = {"exact", "folded", "other"}
    MaxCursor = 4
    MaxRestarts = 1
    PageSize = 1
    ScopeLimit = 1
    MaxDrops = 1
    MaxScopes = 1
    w = w
    i = i
    Waiters = {w}
    s = s
    Inspectors = {i}
    Watchers = {s}
    WaitLimit = 2
    InspectLimit = 2
    Inspected <- Family2
    Kinds = {"waiting", "inspecting"}
INVARIANT
    ReauthSucceeds
PROPERTIES
    WaitReturnsNext
    WaitCatchesMatch
    ReportIsWhole
CHECK_DEADLOCK FALSE
