------------------------------ MODULE OtelSpans ------------------------------
(***************************************************************************)
(* The span processor of profiler/otel: the spans of one trace, which      *)
(* start and end in any order, and the root under which it files them.     *)
(***************************************************************************)
EXTENDS Integers, FiniteSets

CONSTANTS
    SpanIds,
    NoSpan

ASSUME SpansAssumption == NoSpan \notin SpanIds

VARIABLES
    span,   \* of each span: its kind, where it is, and the request it is filed under
    rootOf  \* roots: the span stored for the trace

spanVars == <<span, rootOf>>

\* What a span is when it starts: one of a server, with an HTTP method among its
\* attributes or without, or another.
Kinds == {"http_server", "rpc_server", "other"}
Served == {"http_server", "rpc_server"}

\* OnStart
OnStart(s) ==
    /\ span[s].at = "none"
    /\ \E kind \in Kinds :
          /\ span' = [span EXCEPT ![s].at = "running", ![s].kind = kind]
          /\ rootOf' = IF kind = "http_server" THEN s ELSE rootOf

\* OnEnd begins with the meta of the span, and so with its request ...
OnEnd(s) ==
    /\ span[s].at = "running"
    /\ span' = [span EXCEPT ![s].at = "ending", ![s].request = rootOf]
    /\ UNCHANGED rootOf

\* Mutant: the root of the trace stays.
RootKept(s) == rootOf

\* A server span that ends takes the root with it, its own or not.
RootAfter(s) == IF span[s].kind \in Served THEN NoSpan ELSE rootOf

\* ... records it by the attributes it has by now, as a request, as an operation
\* or not at all, and ends with the root.
OnEndDone(s) ==
    /\ span[s].at = "ending"
    /\ \E end \in {"logged", "ignored"} : span' = [span EXCEPT ![s].at = end]
    /\ rootOf' = RootAfter(s)

SpansInit ==
    /\ span = [s \in SpanIds |-> [at |-> "none", kind |-> "other", request |-> NoSpan]]
    /\ rootOf = NoSpan

SpansNext == \E s \in SpanIds : OnStart(s) \/ OnEnd(s) \/ OnEndDone(s)

-----------------------------------------------------------------------------

Over(s) == span[s].at \in {"logged", "ignored"}

\* A span is filed only under an HTTP request of its trace that is still under
\* way when it ends, whatever other servers of the trace start and end
\* meanwhile; and until the first of them has ended, no span that ends after an
\* HTTP request has begun is filed under none (OnStart, OnEnd, meta).
FiledWhileServing ==
    [][\A s \in SpanIds :
         /\ span[s].at = "running" /\ span'[s].at = "ending"
         => LET r == span'[s].request
                servers == {t \in SpanIds : span[t].at # "none" /\ span[t].kind \in Served}
            IN  /\ r # NoSpan => span[r].kind = "http_server" /\ ~Over(r)
                /\ (\A t \in servers : ~Over(t)) /\ (\E t \in servers : span[t].kind = "http_server")
                   => r # NoSpan]_spanVars
=============================================================================
