SPECIFICATION Spec
CONSTANTS Ids = {a, b, c}  NoId = none  InitialCapacity = 2  MaxCount = 6
CONSTANT Scenes <- AllScenes
CONSTANT Plans <- MCPlans
CONSTANTS ExplainMaxRows = 2  ExplainMaxBytes = 6  MaxMessages = 2  MaxResultSets = 2  MaxNesting = 2  MaxRetries = 2
CONSTANTS Calls = {c1, c2, c3}  Statuses = {101, 103, 200, 404}  Chunks = {1, 2}
CONSTANTS BodyLimits = {0, 3}  MaxTime = 5  MaxWrites = 3
CONSTANTS Goroutines = {g1, g2}  Routers = {r1}  MaxProfilers = 3  Nobody = Nobody
CONSTANTS SpanIds = {s1, s2, s3}  NoSpan = NoSpan
INVARIANTS TypeOK LiveSlotsExact
INVARIANTS SqlShareIsCoverage QueriesBlamedOnce SerialCallsApart BottleneckIsTheCause FindingsStayInScope
INVARIANTS RecordedOnce WorkPartition ObservedAsSent DefaultIsOpen
PROPERTIES ImplementsFifo FiledWhileServing
CHECK_DEADLOCK FALSE
