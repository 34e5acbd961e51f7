------------------------------ MODULE Analysis -------------------------------
(***************************************************************************)
(* What analysis.go concludes from the stored timeline of a request, a     *)
(* schedule, a callable or a task.  Reading changes nothing, so the only   *)
(* action records an entry; the findings are operators on the timeline.    *)
(* An instant or a duration counts ticks of 50 ms, the greatest unit that  *)
(* divides every threshold of the code; the instant 0 is Go's zero time.   *)
(***************************************************************************)
EXTENDS Integers, Sequences, FiniteSets, SequencesExt

CONSTANTS
    Scenes   \* a sequence: a root entry each, and what each slot may hold

VARIABLES
    scene,    \* the execution that is recorded
    slot,     \* the slots before it have been passed
    timeline  \* the entries stored, in insertion order

analysisVars == <<scene, slot, timeline>>

None == "none"  \* an empty id, fingerprint, host or text, an absent duration

-----------------------------------------------------------------------------
(* Thresholds and classes of operations                                    *)

MaxGap == 2            \* 100 ms, between HTTP calls and between cache and query
SlowQuery == 2
AtLeast == 3           \* queries of an N+1 or a burst, calls of a chain
CacheReadsAtLeast == 5
HalfPercent == 50

SlowRoot == [request |-> 10, schedule |-> 10, callable |-> 10, task |-> 20]

\* bottleneckCandidate and bottleneckMinimum: the kinds that may be named.
BottleneckMinimum ==
    [query |-> 1, cache |-> 1, middleware |-> 2, http |-> 10,
     event |-> 10, job |-> 10, email |-> 10]

CacheReads == {"", "get", "mget", "exists", "pull", "remember"}
CacheWrites == {"put", "set", "setex", "add", "incr", "getset"}
SafeMethods == {"GET", "HEAD", "OPTIONS"}
FailedStates == {"failed", "failure", "error", "panicked", "panic", "bounced"}

AtLeast0(n) == Max({n, 0})

\* math.Round of a percentage: a half is rounded up.
Percent(part, whole) == (200 * part + whole) \div (2 * whole)

Entries(es) == {es[i] : i \in DOMAIN es}
EndOf(e) == e.start + AtLeast0(e.dur)

HappenedBefore(left, right) ==
    \/ left.start < right.start
    \/ left.start = right.start /\ left.cursor < right.cursor

OfKind(es, kind) ==
    SortSeq(SelectSeq(es, LAMBDA e : e.kind = kind), HappenedBefore)

Finding(code, about, related) ==
    [code |-> code, about |-> about.id, related |-> {e.id : e \in related}]

-----------------------------------------------------------------------------
(* The entries of an execution                                             *)

\* scopeIDsLocked: everything below an entry.
ScopeIds(es, id) ==
    LET Below(ids) == {e.id : e \in {x \in Entries(es) : x.parent \in ids}}
        within[n \in Nat] ==
            IF n = 0 THEN {id} ELSE within[n - 1] \cup Below(within[n - 1])
    IN  within[Len(es)]

ScopeEntries(es, id) == SelectSeq(es, LAMBDA e : e.id \in ScopeIds(es, id))

RequestEntries(es, id) ==
    SelectSeq(es, LAMBDA e : id \in {e.id, e.request, e.origin})

\* Mutant: what the request caused elsewhere counts as its own.
CausedRequestEntries(es, id) == es

DirectRequestEntries(es, id) ==
    SelectSeq(es, LAMBDA e : id \in {e.id, e.request})

Execution(es, root) ==
    IF root.kind = "request"
    THEN DirectRequestEntries(RequestEntries(es, root.id), root.id)
    ELSE ScopeEntries(es, root.id)

\* Work may outlast its root.
ExecutionDuration(root, es) ==
    IF root.start = 0 THEN AtLeast0(root.dur)
    ELSE Max({AtLeast0(root.dur)} \cup
             {EndOf(e) - root.start : e \in
                 {x \in Entries(es) : /\ x.id # root.id
                                      /\ x.start # 0 /\ x.start >= root.start}})

-----------------------------------------------------------------------------
(* Queries                                                                 *)

Reading(q) == q.operation \in {"SELECT", "WITH"} /\ q.fingerprint # None

\* queryNPlusOneGroup: the place in the code, or else the parent span.
NPlusOneGroup(q) ==
    <<IF q.callsite # None THEN q.callsite ELSE q.parent, q.fingerprint>>

NPlusOneFindings(queries, explained) ==
    LET counted == {q \in Entries(queries) : Reading(q) /\ q.id \notin explained}
        Group(key) == {q \in counted : NPlusOneGroup(q) = key}
        First(group) ==
            CHOOSE q \in group : \A o \in group \ {q} : HappenedBefore(q, o)
    IN  {Finding("possible_n_plus_one", First(Group(key)), Group(key)) :
            key \in {k \in {NPlusOneGroup(q) : q \in counted} :
                        Cardinality(Group(k)) >= AtLeast}}

\* The part of a query that lies within the execution.
Clipped(q, root, duration) ==
    IF root.start = 0 THEN [start |-> q.start, end |-> EndOf(q)]
    ELSE [start |-> Max({q.start, root.start}),
          end   |-> Min({EndOf(q), root.start + duration})]

\* Mutant: an interval inside an earlier one moves the end back.
CoverNested(covered, interval) ==
    [total |-> covered.total +
        AtLeast0(interval.end - Max({interval.start, covered.until})),
     until |-> interval.end]

\* One interval of the sweep over intervals sorted by their start.
Cover(covered, interval) ==
    [total |-> covered.total +
        AtLeast0(interval.end - Max({interval.start, covered.until})),
     until |-> Max({covered.until, interval.end})]

SqlTime(intervals) ==
    FoldLeft(Cover, [total |-> 0, until |-> 0],
             SortSeq(intervals, LAMBDA l, r : l.start < r.start)).total

SqlContributes(q, root, duration) ==
    /\ q.dur > 0 /\ q.start # 0
    /\ Clipped(q, root, duration).end > Clipped(q, root, duration).start

SqlShareFindings(queries, root, duration) ==
    LET contributing ==
            SelectSeq(queries, LAMBDA q : SqlContributes(q, root, duration))
        total == SqlTime([i \in DOMAIN contributing |->
                            Clipped(contributing[i], root, duration)])
        share == Min({100, Percent(total, duration)})
        Slowest == CHOOSE i \in DOMAIN contributing :
            \A j \in DOMAIN contributing :
                \/ contributing[j].dur < contributing[i].dur
                \/ contributing[j].dur = contributing[i].dur /\ i <= j
    IN  IF duration <= 0 \/ contributing = <<>> \/ share < HalfPercent THEN {}
        ELSE {Finding("sql_dominates", contributing[Slowest],
                      Entries(contributing))}

\* Large estimates always show, the others only on a slow query.
VisibleIssues(q) ==
    {issue \in q.issues : issue = "large_estimate" \/ q.dur >= SlowQuery}

QueryPlanFindings(queries) ==
    {Finding("query_plan_issue", q, {q}) :
        q \in {x \in Entries(queries) : VisibleIssues(x) # {}}}

-----------------------------------------------------------------------------
(* Caches                                                                  *)

SameResource(left, right) ==
    /\ left.key # None /\ left.key = right.key
    /\ left.store = None \/ right.store = None \/ left.store = right.store

Missed(c) == c.operation \in CacheReads /\ ~c.hit /\ c.error = None

Resolves(miss, c) ==
    /\ SameResource(miss, c) /\ c.error = None
    /\ c.operation \in CacheWrites \/ (c.operation \in CacheReads /\ c.hit)

\* cacheResolutionAfter: the queries from then on do not count.
ResolvedAt(caches, i) ==
    LET later == {j \in i + 1 .. Len(caches) : Resolves(caches[i], caches[j])}
    IN  IF later = {} THEN {} ELSE {caches[Min(later)].start}

\* Mutant: a query may belong to the bursts of two misses.
UnclaimedAlways(run, claimed) == TRUE

Unclaimed(run, claimed) == run \cap claimed = {}

\* The identical queries that follow the i-th cache operation closely.
QueriesAfter(caches, i, queries) ==
    LET miss == caches[i]
        first == Min({j \in DOMAIN queries : queries[j].start >= miss.start}
                        \cup {Len(queries) + 1})
        Follows(j) ==
            /\ \A at \in ResolvedAt(caches, i) : queries[j].start < at
            /\ queries[j].fingerprint = queries[first].fingerprint
            /\ j > first => queries[j].start - EndOf(queries[j - 1]) <= MaxGap
        run == {j \in first .. Len(queries) : \A k \in first .. j : Follows(k)}
    IN  IF \/ ~Missed(miss) \/ miss.key = None \/ first > Len(queries)
        THEN {}
        ELSE IF \/ queries[first].fingerprint = None
                \/ queries[first].start - miss.start > MaxGap
             THEN {} ELSE {queries[j] : j \in run}

\* cacheMissQueryFindings, the newest miss first.
Bursts(caches, queries) ==
    LET Claim(found, i) ==
            LET run == QueriesAfter(caches, i, queries)
            IN  IF /\ Cardinality(run) >= AtLeast
                   /\ Unclaimed(run, UNION {b.queries : b \in found})
                THEN found \cup {[miss |-> caches[i], queries |-> run]}
                ELSE found
    IN  FoldLeft(Claim, {}, Reverse([i \in DOMAIN caches |-> i]))

CacheMissQueryFindings(bursts) ==
    {Finding("cache_miss_query_burst", b.miss, {b.miss} \cup b.queries) :
        b \in bursts}

CacheMissRateFindings(caches) ==
    LET reads == SelectSeq(caches, LAMBDA c : /\ c.operation \in CacheReads
                                              /\ c.error = None)
        misses == SelectSeq(reads, LAMBDA c : ~c.hit)
    IN  IF \/ Len(reads) < CacheReadsAtLeast
           \/ Percent(Len(misses), Len(reads)) < HalfPercent
        THEN {}
        ELSE {Finding("high_cache_miss_rate", misses[1], Entries(misses))}

-----------------------------------------------------------------------------
(* Outbound calls                                                          *)

Repeatable(c) ==
    /\ c.host # None /\ c.method \in SafeMethods /\ c.dur > 0
    /\ c.error = None /\ c.status < 400

\* Mutant: a call that starts before the previous one ends is in the chain.
FollowsLoosely(previous, call) == call.start - EndOf(previous) <= MaxGap

FollowsSerially(previous, call) ==
    call.start - EndOf(previous) \in 0 .. MaxGap

\* The longest of the chains that the calls to a host break into.
SerialChain(calls) ==
    LET Extend(chains, i) ==
            LET grown == IF i > 1 /\ FollowsSerially(calls[i - 1], calls[i])
                         THEN Append(chains.current, calls[i])
                         ELSE <<calls[i]>>
            IN  [current |-> grown,
                 best |-> IF Len(grown) > Len(chains.best) THEN grown
                          ELSE chains.best]
    IN  FoldLeft(Extend, [current |-> <<>>, best |-> <<>>],
                 [i \in DOMAIN calls |-> i]).best

CallsTo(calls, host) ==
    SelectSeq(calls, LAMBDA c : Repeatable(c) /\ c.host = host)

SequentialHTTPFindings(calls) ==
    LET Chain(host) == SerialChain(CallsTo(calls, host))
    IN  {Finding("sequential_http_calls", Chain(host)[1], Entries(Chain(host))) :
            host \in {h \in {c.host : c \in Entries(calls)} :
                        Len(Chain(h)) >= AtLeast}}

-----------------------------------------------------------------------------
(* The hierarchy of spans                                                  *)

\* middlewareWorkDuration and entryBottleneckDuration.
WorkDuration(e) ==
    AtLeast0(IF e.kind = "middleware" /\ e.work # {}
             THEN Max(e.work) ELSE e.dur)

\* Mutant: a long span hides what is longer below it.
QualifyingOfOwn(e, below) ==
    IF e.kind \in DOMAIN BottleneckMinimum
       /\ WorkDuration(e) >= BottleneckMinimum[e.kind]
    THEN WorkDuration(e) ELSE below

\* The longest operation at or below an entry that is long for its kind.
Qualifying(e, below) ==
    IF e.kind \in DOMAIN BottleneckMinimum
       /\ WorkDuration(e) >= BottleneckMinimum[e.kind]
    THEN Max({WorkDuration(e), below}) ELSE below

OwnDuration(e) ==
    IF e.kind \in DOMAIN BottleneckMinimum THEN WorkDuration(e) ELSE 0

\* newAnalysisEntryHierarchy: the longest of all and of the qualifying
\* operations below each entry.  A span is created after its parent.
Hierarchy(es) ==
    LET Children(id) == {e \in Entries(es) : e.parent = id /\ e.id # id}
        subtree[e \in Entries(es)] ==
            LET all == Max({0} \cup {subtree[c].all : c \in Children(e.id)})
                long == Max({0} \cup {subtree[c].long : c \in Children(e.id)})
            IN  [allBelow |-> all, longBelow |-> long,
                 all |-> Max({OwnDuration(e), all}), long |-> Qualifying(e, long)]
    IN  subtree

\* hasExplainingDescendant and hasQualifyingExplainingDescendant.
Explains(below, duration) ==
    duration > 0 /\ below > 0 /\ 100 * below >= HalfPercent * duration

SlowMiddlewareFindings(middlewares, hierarchy) ==
    {Finding("slow_middleware", m, {m}) : m \in
        {x \in Entries(middlewares) :
            /\ WorkDuration(x) >= BottleneckMinimum["middleware"]
            /\ x.work = {} =>
                 ~Explains(hierarchy[x].allBelow, WorkDuration(x))}}

SlowEventFindings(events) ==
    {Finding("slow_event", e, {e}) : e \in
        {x \in Entries(events) : x.dur >= BottleneckMinimum["event"]}}

BottleneckCandidates(root, es, hierarchy) ==
    {e \in Entries(es) :
        /\ e.id # root.id /\ e.kind \in DOMAIN BottleneckMinimum
        /\ WorkDuration(e) >= BottleneckMinimum[e.kind]
        /\ ~Explains(hierarchy[e].longBelow, WorkDuration(e))}

BottleneckFindings(root, es, hierarchy, duration) ==
    LET candidates == BottleneckCandidates(root, es, hierarchy)
        longest == Max({WorkDuration(e) : e \in candidates})
        at == Min({i \in DOMAIN es : /\ es[i] \in candidates
                                     /\ WorkDuration(es[i]) = longest})
    IN  IF duration <= 0 \/ candidates = {} THEN {}
        ELSE IF Min({100, Percent(longest, duration)}) < HalfPercent THEN {}
             ELSE {Finding("execution_bottleneck", es[at], {es[at]})}

-----------------------------------------------------------------------------
(* Slow and failed operations                                              *)

Slow(root, queries, calls) ==
    {Finding("slow_" \o e.kind, e, {e}) : e \in
        {r \in {root} : r.dur >= SlowRoot[r.kind]}
        \cup {q \in Entries(queries) : q.dur >= SlowQuery}
        \cup {c \in Entries(calls) : c.dur >= BottleneckMinimum["http"]}}

Failed(e, root) ==
    CASE e.kind = "request" -> e.error # None \/ e.status >= 500
      [] e.kind = "query" -> e.error \notin {None, "sql: no rows in result set"}
      [] e.kind = "cache" -> e.error # None
      [] e.kind \in {"event", "middleware", "job"} ->
            e.error # None \/ e.state \in FailedStates
      [] e.kind = "exception" -> TRUE
      [] e.kind = "email" -> e.error # None \/ e.state \in {"failed", "bounced"}
      [] e.kind = "http" -> e.error # None \/ e.status >= 400
      [] e.kind \in {"schedule", "callable", "task"} ->
            /\ root.kind \in {"schedule", "callable", "task"}
            /\ e.error # None \/ e.state \in FailedStates
      [] OTHER -> FALSE

FailedOperationFindings(es, root) ==
    {Finding("failed_operation", e, {e}) : e \in
        {x \in Entries(es) : Failed(x, root)}}

LegacyFindings(root, queries, calls, caches, es, includeCacheMissRate) ==
    Slow(root, queries, calls) \cup FailedOperationFindings(es, root)
    \cup (IF includeCacheMissRate THEN CacheMissRateFindings(caches) ELSE {})

-----------------------------------------------------------------------------
(* analyzeExecution                                                        *)

AnalyzeExecution(root, es) ==
    LET queries == OfKind(es, "query")
        caches == OfKind(es, "cache")
        calls == OfKind(es, "http")
        duration == ExecutionDuration(root, es)
        hierarchy == Hierarchy(es)
        bursts == Bursts(caches, queries)
        explained == {q.id : q \in UNION {b.queries : b \in bursts}}
    IN  NPlusOneFindings(queries, explained)
        \cup SqlShareFindings(queries, root, duration)
        \cup SequentialHTTPFindings(calls)
        \cup CacheMissQueryFindings(bursts)
        \cup SlowMiddlewareFindings(OfKind(es, "middleware"), hierarchy)
        \cup SlowEventFindings(OfKind(es, "event"))
        \cup BottleneckFindings(root, es, hierarchy, duration)
        \cup QueryPlanFindings(queries)
        \cup LegacyFindings(root, queries, calls, caches, es, bursts = {})

\* AnalyzeRequest, AnalyzeSchedule, AnalyzeCallable and AnalyzeTask answer only
\* when the execution's own entry is stored.
Stored(es, root) == \E e \in Entries(es) : e.id = root.id /\ e.kind = root.kind

Analyze(es, root) ==
    IF Stored(es, root) THEN AnalyzeExecution(root, Execution(es, root)) ELSE {}

-----------------------------------------------------------------------------
(* The timeline grows, entry by entry, its root first or last              *)

AnalysisInit ==
    /\ scene \in DOMAIN Scenes
    /\ slot = 1
    /\ timeline = <<>>

\* LogXContext and put: an entry is stored behind the others.
Record ==
    \E i \in slot .. Len(Scenes[scene].offers) :
        \E e \in Scenes[scene].offers[i] :
            /\ timeline' = Append(timeline,
                                  [e EXCEPT !.cursor = Len(timeline) + 1])
            /\ slot' = i + 1
            /\ UNCHANGED scene

AnalysisNext == Record

-----------------------------------------------------------------------------
(* Properties                                                              *)

Observed == Scenes[scene].root
Findings == Analyze(timeline, Observed)
Scope == Execution(timeline, Observed)
InScope(kind) == {e \in Entries(Scope) : e.kind = kind}
WithCode(code) == {f \in Findings : f.code = code}
Duration == ExecutionDuration(Observed, Scope)

\* The ticks of the execution during which some query ran.
SqlTicks ==
    {t \in 0 .. Max({0} \cup {EndOf(q) : q \in InScope("query")}) :
        /\ \E q \in InScope("query") : q.start # 0 /\ t \in q.start .. EndOf(q) - 1
        /\ Observed.start # 0 =>
              t \in Observed.start .. Observed.start + Duration - 1}

\* The share of SQL is the share of the execution covered by queries, however
\* they overlap, nest, or reach beyond the execution (sqlShareFinding).
SqlShareIsCoverage ==
    Stored(timeline, Observed) =>
        (WithCode("sql_dominates") # {} <=>
            /\ Duration > 0 /\ SqlTicks # {}
            /\ Percent(Cardinality(SqlTicks), Duration) >= HalfPercent)

\* No query is a symptom of two causes: the bursts of different misses and the
\* N+1 groups share none, and a burst comes after its miss and before the key
\* is stored (cacheMissQueryFindings, nPlusOneFindings).
QueriesBlamedOnce ==
    LET bursts == WithCode("cache_miss_query_burst")
        ById(id) == CHOOSE e \in Entries(Scope) : e.id = id
        Queries(f) == {id \in f.related : ById(id).kind = "query"}
    IN  /\ \A f, g \in bursts \cup WithCode("possible_n_plus_one") :
             f # g => Queries(f) \cap Queries(g) = {}
        /\ \A f \in bursts :
             LET miss == ById(f.about)
             IN  \A id \in Queries(f) :
                    /\ ById(id).start >= miss.start
                    /\ \A c \in InScope("cache") :
                          /\ Resolves(miss, c) /\ HappenedBefore(miss, c)
                          => ById(id).start < c.start

\* Calls said to be sequential never ran at the same time, and no longer run of
\* neighbouring calls is passed over (sequentialHTTPFindings).
SerialCallsApart ==
    LET CallTo(host) == CallsTo(OfKind(Scope, "http"), host)
        found == WithCode("sequential_http_calls")
        Reported(host) == {f \in found : \E c \in InScope("http") :
                                            c.id = f.about /\ c.host = host}
    IN  Stored(timeline, Observed) =>
        \A host \in {c.host : c \in InScope("http")} :
        LET calls == CallTo(host)
            Serial(i, j) == \A k \in i + 1 .. j : calls[k].start - EndOf(calls[k - 1]) \in 0 .. MaxGap
        IN  /\ \A f \in Reported(host) : \A c, d \in Entries(calls) :
                 {c.id, d.id} \subseteq f.related /\ c # d
                 => EndOf(c) <= d.start \/ EndOf(d) <= c.start
            /\ \A i, j \in DOMAIN calls :
                 i + AtLeast <= j + 1 /\ Serial(i, j) =>
                    \E f \in Reported(host) : Cardinality(f.related) >= j - i + 1

\* The bottleneck is the cause, not a span around it: nothing below it is long
\* for its kind and takes half of it; and when half of the execution goes to
\* one operation and none is named, something below explains it
\* (executionBottleneckFinding over newAnalysisEntryHierarchy).
BottleneckIsTheCause ==
    LET Long(e) == /\ e.kind \in DOMAIN BottleneckMinimum
                   /\ WorkDuration(e) >= BottleneckMinimum[e.kind]
        Causes(e) == {d \in Entries(Scope) :
                        /\ d.id \in ScopeIds(Scope, e.id) \ {e.id} /\ Long(d)
                        /\ 2 * WorkDuration(d) >= WorkDuration(e)}
        named == WithCode("execution_bottleneck")
    IN  /\ \A f \in named : \A e \in Entries(Scope) :
             e.id = f.about => Long(e) /\ Causes(e) = {}
        /\ Stored(timeline, Observed) /\ named = {} =>
             \A e \in Entries(Scope) \ {Observed} :
                /\ e.id # Observed.id /\ Long(e) /\ Duration > 0
                /\ Percent(WorkDuration(e), Duration) >= HalfPercent
                => Causes(e) # {}

\* Findings speak of stored entries of their own execution only: the entries
\* whose chain of parents leads to a schedule, callable or task; those of the
\* request itself, and not of the jobs it caused (scopeIDsLocked,
\* directRequestEntries).
FindingsStayInScope ==
    LET Parents(id) == {e.parent : e \in {x \in Entries(timeline) : x.id = id}}
        ids == {e.id : e \in Entries(timeline)} \cup {Observed.id}
        Climb[n \in Nat, id \in ids] ==
            \/ id = Observed.id
            \/ n > 0 /\ \E up \in Parents(id) \cap ids : Climb[n - 1, up]
        Belongs(e) == IF Observed.kind = "request" THEN Observed.id \in {e.id, e.request}
                      ELSE Climb[Len(timeline), e.id]
    IN  \A f \in Findings :
          /\ f.about \in f.related
          /\ f.related \subseteq {e.id : e \in {x \in Entries(timeline) : Belongs(x)}}
=============================================================================
