---------------------------- MODULE HandlerTiming ----------------------------
(***************************************************************************)
(* profiler/http: one invocation of a profiled middleware, with the calls  *)
(* of the downstream handler that it makes itself or from goroutines, and  *)
(* the response that the observer of a captured request passes on.         *)
(***************************************************************************)
EXTENDS Integers, Sequences, FiniteSets, SequencesExt

CONSTANTS
    Calls,      \* of the downstream handler
    Statuses,   \* that a handler writes
    Chunks,     \* sizes of what it writes
    BodyLimits, \* the values WithBodyLimit may have; zero: no body is kept
    MaxTime,    \* bound
    MaxWrites   \* bound

ASSUME TimingAssumption ==
    /\ Statuses \subseteq 100 .. 599
    /\ BodyLimits \subseteq Nat /\ {MaxTime} \cup Chunks \subseteq Nat \ {0}

VARIABLES
    time,
    call,        \* of each call: awaited, timed, and its interval
    downstream,  \* middlewareTiming: the recorded intervals
    invocation,  \* of the middleware
    observer,    \* responseObserver and its BodyRecorder
    bodyLimit,   \* its limit
    wire         \* what net/http has been told

timingVars == <<time, call, downstream, invocation, observer, bodyLimit, wire>>

NotCalled == [at |-> "idle", awaited |-> FALSE, timed |-> FALSE, start |-> 0, end |-> 0]

-----------------------------------------------------------------------------
(* workSpans                                                               *)

Clip(interval, start, finish) ==
    [start |-> Max({interval.start, start}), end |-> Min({interval.end, finish})]

\* Mutant: an interval that ends inside the one before shortens it.
MergeLatest(merged, interval) ==
    IF merged = <<>> \/ interval.start > Last(merged).end
    THEN Append(merged, interval)
    ELSE [merged EXCEPT ![Len(merged)].end = interval.end]

Merge(merged, interval) ==
    IF merged = <<>> \/ interval.start > Last(merged).end
    THEN Append(merged, interval)
    ELSE [merged EXCEPT ![Len(merged)].end = Max({@, interval.end})]

Merged(intervals, start, finish) ==
    LET clipped == [i \in DOMAIN intervals |-> Clip(intervals[i], start, finish)]
        proper == SelectSeq(clipped, LAMBDA i : i.end > i.start)
    IN  FoldLeft(Merge, <<>>, SortSeq(proper, LAMBDA i, j : i.start < j.start))

\* What remains before, between and after the merged intervals.
WorkSpans(intervals, start, finish) ==
    LET merged == Merged(intervals, start, finish)
        From(i) == IF i = 1 THEN start ELSE merged[i - 1].end
        To(i) == IF i > Len(merged) THEN finish ELSE merged[i].start
        gaps == [i \in 1 .. Len(merged) + 1 |->
                    [offset |-> From(i) - start, duration |-> To(i) - From(i)]]
    IN  IF finish <= start THEN <<>>
        ELSE SelectSeq(gaps, LAMBDA gap : gap.duration > 0)

TotalWork(spans) == FoldLeft(LAMBDA total, span : total + span.duration, 0, spans)

-----------------------------------------------------------------------------
(* ProfileMiddlewareWith                                                   *)

Tick ==
    /\ time < MaxTime
    /\ time' = time + 1
    /\ UNCHANGED <<call, downstream, invocation, observer, bodyLimit, wire>>

Running(c) == call[c].at = "running"

Invoke ==
    /\ invocation.at = "none"
    /\ invocation' = [invocation EXCEPT !.at = "running", !.start = time]
    /\ UNCHANGED <<time, call, downstream, observer, bodyLimit, wire>>

\* timedNext: the middleware waits for the calls it makes itself, one at a
\* time; a goroutine's may start and end at any time.  One that is given a
\* context without the middleware's timing is not timed.
CallNext(c) ==
    /\ call[c].at = "idle" /\ invocation.at # "none"
    /\ \E awaited, timed \in BOOLEAN :
          /\ awaited => /\ invocation.at = "running"
                        /\ \A d \in Calls : Running(d) => ~call[d].awaited
          /\ call' = [call EXCEPT ![c] = [at |-> "running", awaited |-> awaited,
                                          timed |-> timed, end |-> 0,
                                          start |-> IF timed THEN time ELSE 0]]
    /\ UNCHANGED <<time, downstream, invocation, observer, bodyLimit, wire>>

\* recordDownstream, also when the call panics.
ReturnFromNext(c) ==
    /\ Running(c)
    /\ call' = [call EXCEPT ![c].at = "ended", ![c].end = IF call[c].timed THEN time ELSE 0]
    /\ downstream' = IF call[c].timed /\ time > call[c].start
                     THEN Append(downstream, [start |-> call[c].start, end |-> time])
                     ELSE downstream
    /\ UNCHANGED <<time, invocation, observer, bodyLimit, wire>>

\* The deferred function first takes the time ...
FinishInvocation ==
    /\ invocation.at = "running"
    /\ \A c \in Calls : Running(c) => ~call[c].awaited
    /\ invocation' = [invocation EXCEPT !.at = "finishing", !.finish = time]
    /\ UNCHANGED <<time, call, downstream, observer, bodyLimit, wire>>

\* ... and then copies what is recorded by then, and logs the invocation.
LogMiddleware ==
    /\ invocation.at = "finishing"
    /\ \E state \in {"completed", "panicked"} :
          LET spans == WorkSpans(downstream, invocation.start, invocation.finish)
          IN  invocation' = [invocation EXCEPT !.at = "logged", !.state = state,
                                !.copied = downstream, !.spans = spans,
                                !.work = TotalWork(spans)]
    /\ UNCHANGED <<time, call, downstream, observer, bodyLimit, wire>>

-----------------------------------------------------------------------------
(* responseObserver                                                        *)

NoResponse == [status |-> 200, wroteHeader |-> FALSE, size |-> 0, body |-> 0,
               truncated |-> FALSE, writes |-> 0, result |-> "none"]

SwitchingProtocols == 101

\* What net/http does with a status (external): of the informational ones only
\* 101 is final; the first final one is sent, unless the handler has taken the
\* connection over.
SentHeader(w, status) ==
    IF w.status = 0 /\ ~w.hijacked /\ (status >= 200 \/ status = SwitchingProtocols)
    THEN [w EXCEPT !.status = status] ELSE w

\* A body follows most statuses (external).
TakesBody(w) == ~w.hijacked /\ w.status \notin {SwitchingProtocols, 204, 304}

\* Mutant: a second final status is taken for the one that was sent.
HeaderRewritten(o, status) ==
    IF status \in 100 .. 199 THEN o
    ELSE [o EXCEPT !.wroteHeader = TRUE, !.status = status]

\* WriteHeader
HeaderWritten(o, status) ==
    IF status \in 100 .. 199 \/ o.wroteHeader THEN o
    ELSE [o EXCEPT !.wroteHeader = TRUE, !.status = status]

\* BodyRecorder.Write; bodyLimit is its limit.
BodyWritten(o, length) ==
    LET remaining == bodyLimit - o.body
    IN  IF bodyLimit <= 0 THEN o
        ELSE [o EXCEPT !.body = @ + Min({length, remaining}),
                       !.truncated = @ \/ length > remaining]

HandlerRuns == observer.result = "none" /\ observer.writes < MaxWrites

WriteHeader ==
    /\ HandlerRuns
    /\ \E status \in Statuses :
          /\ observer' = [HeaderWritten(observer, status) EXCEPT !.writes = @ + 1]
          /\ wire' = IF status >= 200 /\ observer.wroteHeader THEN wire
                     ELSE SentHeader(wire, status)
    /\ UNCHANGED <<time, call, downstream, invocation, bodyLimit>>

\* The body is kept before the connection takes it, which may take less.
Write ==
    /\ HandlerRuns
    /\ \E length \in Chunks : \E written \in 0 .. length :
          /\ written > 0 => TakesBody(SentHeader(wire, 200))
          /\ observer' = [BodyWritten(HeaderWritten(observer, 200), length)
                            EXCEPT !.size = @ + written, !.writes = @ + 1]
          /\ wire' = [SentHeader(wire, 200) EXCEPT !.size = @ + written, !.offered = @ + length]
    /\ UNCHANGED <<time, call, downstream, invocation, bodyLimit>>

\* Flush, and ReadFrom a reader that is empty.
Flush ==
    /\ HandlerRuns
    /\ observer' = [HeaderWritten(observer, 200) EXCEPT !.writes = @ + 1]
    /\ wire' = SentHeader(wire, 200)
    /\ UNCHANGED <<time, call, downstream, invocation, bodyLimit>>

\* The handler takes the connection over, where the protocol allows it.
Hijack ==
    /\ HandlerRuns
    /\ observer' = [observer EXCEPT !.writes = @ + 1]
    /\ wire' \in {wire, [wire EXCEPT !.hijacked = TRUE]}
    /\ UNCHANGED <<time, call, downstream, invocation, bodyLimit>>

\* MiddlewareWith finishes the capture with what was observed.  Without a
\* header from the handler, net/http sends 200 if it has the connection.
HandlerReturns ==
    /\ observer.result = "none"
    /\ observer' = [observer EXCEPT !.result = "returned"]
    /\ wire' = SentHeader(wire, 200)
    /\ UNCHANGED <<time, call, downstream, invocation, bodyLimit>>

\* A panic is recorded as 500, whatever was sent.
HandlerPanics ==
    /\ observer.result = "none"
    /\ observer' = [observer EXCEPT !.result = "panicked", !.status = 500]
    /\ UNCHANGED <<time, call, downstream, invocation, bodyLimit, wire>>

-----------------------------------------------------------------------------

TimingInit ==
    /\ time = 1
    /\ call = [c \in Calls |-> NotCalled]
    /\ downstream = <<>>
    /\ invocation = [at |-> "none", start |-> 0, finish |-> 0, state |-> "none",
                     copied |-> <<>>, spans |-> <<>>, work |-> 0]
    /\ observer = NoResponse
    /\ wire = [status |-> 0, hijacked |-> FALSE, size |-> 0, offered |-> 0]
    /\ bodyLimit \in BodyLimits

MiddlewareNext ==
    \/ Tick \/ Invoke \/ FinishInvocation \/ LogMiddleware
    \/ \E c \in Calls : CallNext(c) \/ ReturnFromNext(c)

ResponseNext ==
    WriteHeader \/ Write \/ Flush \/ Hijack \/ HandlerReturns \/ HandlerPanics

-----------------------------------------------------------------------------

Covers(interval, instant) == instant \in interval.start .. interval.end - 1

\* The work of an invocation is every instant that lies outside the downstream
\* calls recorded when it is logged, however they overlap, nest or outlast it;
\* the calls the middleware waited for are among them if they had its timing;
\* and the work's duration is that of its spans, which lie apart and in order
\* (workSpans).
WorkPartition ==
    LET began == invocation.start
        From(span) == began + span.offset
        To(span) == From(span) + span.duration
        Worked == {t \in began .. invocation.finish - 1 :
                    \E i \in DOMAIN invocation.spans :
                        t \in From(invocation.spans[i]) .. To(invocation.spans[i]) - 1}
        Delegated == {t \in began .. invocation.finish - 1 :
                    \E i \in DOMAIN invocation.copied : Covers(invocation.copied[i], t)}
    IN  invocation.at = "logged" =>
        /\ Worked = (began .. invocation.finish - 1) \ Delegated
        /\ invocation.work = Cardinality(Worked)
        /\ \A i \in 2 .. Len(invocation.spans) :
              From(invocation.spans[i]) > To(invocation.spans[i - 1])
        /\ \A c \in Calls : call[c].awaited /\ call[c].timed =>
              \A t \in call[c].start .. call[c].end - 1 : t \in Delegated

\* A captured response is the one that was sent: the bytes the connection took,
\* a body that is complete up to the limit unless it says otherwise, and the
\* final status net/http sent.  Two responses have none that the observer knows:
\* that of a connection taken over before a status was sent, and 101
\* (responseObserver, BodyRecorder).
ObservedAsSent ==
    observer.result = "returned" =>
        /\ wire.status \notin {0, SwitchingProtocols} => observer.status = wire.status
        /\ wire.status = 0 => wire.hijacked
        /\ observer.size = wire.size
        /\ observer.body = Min({wire.offered, bodyLimit})
        /\ observer.truncated <=> bodyLimit > 0 /\ wire.offered > bodyLimit
=============================================================================
