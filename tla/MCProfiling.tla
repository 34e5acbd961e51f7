---------------------------- MODULE MCProfiling ------------------------------
(* Profiling for TLC: plans, and timelines, one family for each kind of      *)
(* finding.                                                                  *)
EXTENDS Profiling

MCPlans == {<<>>, <<3>>, <<3, 3>>, <<1, 1, 1>>, <<9>>}

Base(kind, id, start, dur, parent) ==
    [kind |-> kind, id |-> id, start |-> start, dur |-> dur, parent |-> parent,
     request |-> "r", origin |-> None, cursor |-> 0, error |-> None]

Root(kind, start, dur) ==
    Base(kind, "r", start, dur, None) @@ [status |-> 200, state |-> "ok"]

Query(id, start, dur, print) ==
    Base("query", id, start, dur, "r") @@
    [operation |-> "SELECT", fingerprint |-> print, callsite |-> None, issues |-> {}]

Cache(id, start, op, hit) ==
    Base("cache", id, start, 0, "r") @@
    [operation |-> op, hit |-> hit, key |-> "k", store |-> None]

Call(id, start, dur, status) ==
    Base("http", id, start, dur, "r") @@
    [host |-> "h", method |-> "GET", status |-> status]

\* Queries that overlap, nest and stick out of their request.
SqlScenes ==
    {[root |-> root,
      offers |-> [i \in 1 .. 3 |->
        {Query(<<"q1", "q2", "q3">>[i], start, dur, "f") :
            start \in {0, 2, 4, 6}, dur \in {1, 5}}] \o <<{root}>>] :
        root \in {Root("request", 3, 17), Root("request", 3, 8), Root("request", 0, 3)}}

\* Misses of one key, the queries after them, and what stores the key.
CacheScenes ==
    {[root |-> root,
      offers |-> <<{Cache("c1", start, "get", FALSE) : start \in {1, 4}},
        {Cache("c2", start, "get", FALSE) : start \in {1, 2}},
        {Cache("c3", 3, "get", TRUE)} \cup {Cache("c3", 4, "set", FALSE)}>> \o
        [i \in 1 .. 4 |->
            {[Query(<<"q1", "q2", "q3", "q4">>[i], i, 1, print) EXCEPT !.issues = issues] :
                print \in {"f", "g"}, issues \in {IF i = 4 THEN {"full_scan"} ELSE {}}}] \o <<{root}>>] :
        root \in {Root("request", 1, 9)}}

\* Calls that overlap, follow each other or lie apart.
CallScenes ==
    {[root |-> root,
      offers |->
        [i \in 1 .. 4 |->
            {Call(<<"h1", "h2", "h3", "h4">>[i], start, dur, 200) :
                start \in {1, 2, 5}, dur \in {1, 3}}
            \cup {Call(<<"h1", "h2", "h3", "h4">>[i], 3, 1, 500)}] \o <<{root}>>] :
        root \in {Root("request", 1, 12)}}

\* Spans below spans, of a task; one of them belongs elsewhere.
Names == <<"e1", "e2", "e3">>
Span(id, parent) ==
    {Base("event", id, 1, dur, parent) @@ [state |-> "ok"] : dur \in {10, 24}}
    \cup {[Query(id, 2, 3, "f") EXCEPT !.parent = parent]}
    \cup {Base("middleware", id, 1, 12, parent) @@
            [work |-> work, state |-> "panicked"] : work \in {{}, {2}}}
TaskScenes ==
    {[root |-> root,
      offers |-> [i \in 1 .. 3 |->
        UNION {Span(Names[i], parent) :
            parent \in {None, "r"} \cup {Names[j] : j \in 1 .. i - 1}}] \o <<{root}>>] :
        root \in {Root("task", 1, 25)}}

\* Reads of a cache, and a job that the request caused elsewhere.
ReadScenes ==
    {[root |-> root,
      offers |->
        [i \in 1 .. 6 |->
            {Cache(<<"c1", "c2", "c3", "c4", "c5", "c6">>[i], i, "get", hit) : hit \in BOOLEAN}]
        \o <<{[Base("job", "j", 2, 12, None) EXCEPT !.request = "x", !.origin = "r"]
                @@ [state |-> "failed"]},
             {root}>>] :
        root \in {Root("request", 1, 9)}}

AllScenes == SetToSeq(SqlScenes) \o SetToSeq(CacheScenes) \o SetToSeq(CallScenes)
                \o SetToSeq(TaskScenes) \o SetToSeq(ReadScenes)
=============================================================================
