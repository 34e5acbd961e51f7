----------------------------- MODULE Operations ------------------------------
(***************************************************************************)
(* One operation seen by an integration: a query through database/sql,     *)
(* GORM, Bun or pgx, with the EXPLAIN that may run beside it, a call of a   *)
(* client or a handler, or a span that the application finishes.  What the *)
(* integration keeps between the calls of its library, and when it         *)
(* records.  Operations share nothing, so one is enough.                   *)
(***************************************************************************)
EXTENDS Integers, Sequences, FiniteSets, SequencesExt

CONSTANTS
    ExplainMaxRows,   \* of a plan
    ExplainMaxBytes,  \* of the text of a plan
    Plans,            \* what a database answers to EXPLAIN: the lengths of lines
    MaxMessages,      \* bound on messages that are sent together
    MaxResultSets,    \* bound
    MaxNesting,       \* bound on queries within queries
    MaxRetries        \* how often database/sql tries again (external: twice)

ASSUME OperationsAssumption ==
    /\ {ExplainMaxRows, ExplainMaxBytes} \subseteq Nat \ {0}
    /\ {MaxMessages, MaxResultSets, MaxNesting, MaxRetries} \subseteq Nat
    /\ Plans \subseteq Seq(Nat \ {0})

VARIABLES
    operation,  \* the operation, see Begin
    recorded    \* the entries recorded for it, in order

operationVars == <<operation, recorded>>

NotBegun == [at |-> "none"]

-----------------------------------------------------------------------------
(* The states that integrations record for the outcomes of a call.  One    *)
(* that has no state for a panic lets it pass unrecorded.  A command of a  *)
(* Redis pipeline is an operation of its own.  The exception that a panic  *)
(* leaves in a request besides is not counted.                             *)

RedisStates == [ok |-> "hit", miss |-> "miss", error |-> "miss"]
CacheStates == [ok |-> "hit", miss |-> "miss", error |-> "miss"]
TransportStates == [ok |-> "", error |-> ""]
EmailStates == [ok |-> "sent", error |-> "failed"]
GoMailStates == [ok |-> "sent", error |-> "failed"]
EnqueueStates == [ok |-> "dispatched", error |-> "failed"]
ProcessStates == [ok |-> "succeeded", error |-> "failed"]
WriterStates == [ok |-> "dispatched", error |-> "dispatched"]
ReaderStates == [ok |-> "received", error |-> "failed"]
PublishStates == [ok |-> "dispatched", error |-> "failed"]
SubscriberStates == [ok |-> "succeeded", panic |-> "failed"]
JobStates == [ok |-> "succeeded", error |-> "failed"]
DispatchStates == [ok |-> "dispatched", error |-> "dispatch_failed"]
ScheduleStates == [ok |-> "succeeded", panic |-> "panicked"]
CallableStates == [ok |-> "succeeded", error |-> "failed", panic |-> "panicked"]
UnaryStates == [ok |-> "", error |-> ""]

\* The requests of other servers; the error of Gin is that of its context.
GinStates == [ok |-> "", error |-> "", panic |-> "500"]
EchoStates == [ok |-> "", error |-> "", panic |-> "500"]
FiberStates == [ok |-> "", error |-> "", panic |-> "500"]
UnaryServerStates == [ok |-> "", error |-> "", panic |-> "500"]
StreamServerStates == [ok |-> "", error |-> "", panic |-> "500"]
GinMiddlewareStates == [ok |-> "completed", panic |-> "panicked"]

\* A record is mirrored before the logger's own handler gets it.
SlogStates == [ok |-> ""]
ZapStates == [ok |-> ""]
ZerologStates == [ok |-> ""]

States ==
    [redis |-> RedisStates, cache |-> CacheStates, transport |-> TransportStates,
     email |-> EmailStates, gomail |-> GoMailStates,
     enqueue |-> EnqueueStates, process |-> ProcessStates,
     writer |-> WriterStates, reader |-> ReaderStates,
     publish |-> PublishStates, subscriber |-> SubscriberStates,
     job |-> JobStates, dispatch |-> DispatchStates,
     schedule |-> ScheduleStates, callable |-> CallableStates, unary |-> UnaryStates,
     gin |-> GinStates, echo |-> EchoStates, fiber |-> FiberStates,
     unary_server |-> UnaryServerStates, stream_server |-> StreamServerStates,
     gin_middleware |-> GinMiddlewareStates,
     slog |-> SlogStates, zap |-> ZapStates, zerolog |-> ZerologStates]

Loggers == {"slog", "zap", "zerolog"}
Batches == {"gomail", "writer", "dispatch"}  \* an entry for each message or job

Drivers == {"conn", "stmt"}           \* profiler/sql: connections and statements
Spans == {"query", "event", "task"}   \* StartQuery, StartEvent, StartTask
Queries == Drivers \cup {"gorm", "bun", "pgx"}
Integrations == DOMAIN States \cup Spans \cup Queries \cup {"stream"}

-----------------------------------------------------------------------------
(* Plans                                                                   *)

\* An answer as text: its lines with the line ends between them.
SizeOf(lines) == FoldLeft(LAMBDA a, b : a + b, 0, lines) + Max({Len(lines) - 1, 0})

\* appendPlanText: as many bytes as there is room for, and whether all fitted.
PlanText(lines) ==
    LET size == SizeOf(lines)
    IN  [size |-> Min({size, ExplainMaxBytes}), whole |-> size <= ExplainMaxBytes]

\* cut is the mark at the end of the text, lost whether something is missing,
\* error whether there is an error beside the text.
NoPlan == [size |-> 0, cut |-> FALSE, lost |-> FALSE, error |-> FALSE]

\* The EXPLAIN of the driver is unknown, or its query fails or times out.
FailedPlan == [size |-> 0, cut |-> FALSE, lost |-> TRUE, error |-> TRUE]

\* What a reader of plans returns that stops after some of the lines.
PlanOf(answer, read, cut) ==
    LET text == PlanText(SubSeq(answer, 1, read))
    IN  [size |-> text.size, cut |-> cut \/ ~text.whole,
         lost |-> read < Len(answer) \/ ~text.whole, error |-> FALSE]

\* ... or that fails after lines that fitted: they are kept beside the error.
BrokenPlan(answer, read) ==
    [FailedPlan EXCEPT !.size = PlanText(SubSeq(answer, 1, read)).size]

BrokenPlans(answer, most) ==
    {BrokenPlan(answer, read) : read \in
        {n \in 0 .. Min({Len(answer), most}) : PlanText(SubSeq(answer, 1, n)).whole}}

\* profiler/sql readPlan does not look whether there is a row after the last
\* one it takes.
ReadPlan(answer) ==
    PlanOf(answer, Min({Len(answer), ExplainMaxRows}), Len(answer) >= ExplainMaxRows)

\* readSQLPlan of GORM and Bun does.
ReadSQLPlan(answer) ==
    PlanOf(answer, Min({Len(answer), ExplainMaxRows}), Len(answer) > ExplainMaxRows)

\* explain: what becomes of the query for the plan.
DriverPlans ==
    {FailedPlan} \cup {ReadPlan(answer) : answer \in Plans}
        \cup UNION {BrokenPlans(answer, ExplainMaxRows - 1) : answer \in Plans}

\* GORM and Bun, and pgx, whose readPGXPlan looks ahead, too.
SQLPlans ==
    {FailedPlan} \cup {ReadSQLPlan(answer) : answer \in Plans}
        \cup UNION {BrokenPlans(answer, ExplainMaxRows) : answer \in Plans}

\* GORM explains only a statement that succeeded, and none of a ROW callback.
GormPlans(outcome) ==
    IF operation.explains /\ outcome = "ok" THEN {NoPlan} \cup SQLPlans ELSE {NoPlan}

\* pgx explains whatever came of the statement.
PgxPlans == IF operation.explains THEN SQLPlans ELSE {NoPlan}

-----------------------------------------------------------------------------
(* An operation of any integration                                         *)

Explainer(integration) == integration \in Drivers \cup {"bun"}

\* explains: the integration is to explain, and explainableSQL accepts the
\* statement.  live: there is a profiler, and the context lets it record.
Begin ==
    /\ operation = NotBegun
    /\ \E by \in Integrations, explains \in BOOLEAN, live \in BOOLEAN,
          messages \in 0 .. MaxMessages :
          /\ explains => by \in Queries
          /\ by \notin Batches => messages = 1
          /\ operation' = [by |-> by, explains |-> explains, live |-> live,
                           messages |-> messages,
                           at |-> IF explains /\ Explainer(by) THEN "explain" ELSE "run",
                           plan |-> NoPlan, sets |-> 0, retries |-> 0,
                           finished |-> FALSE, outcome |-> "none", contexts |-> <<>>]
    /\ UNCHANGED recorded

At(integrations, point) ==
    operation # NotBegun /\ operation.by \in integrations /\ operation.at = point

\* The operation is over, and the integration has not noticed.
EndsUnseen(outcome) ==
    /\ operation' = [operation EXCEPT !.at = "closed", !.outcome = outcome]
    /\ UNCHANGED recorded

\* LogXContext: nothing while recording is off.
Log(state, error, plan) ==
    recorded' = IF operation.live
                THEN recorded \o [i \in 1 .. operation.messages |->
                                    [state |-> state, error |-> error, plan |-> plan]]
                ELSE recorded

\* An entry written where the call returns.
RecordNow(state, outcome, plan) ==
    /\ Log(state, outcome \in {"error", "panic"}, plan)
    /\ operation' = [operation EXCEPT !.at = "closed", !.finished = TRUE, !.outcome = outcome]

\* Mutant: whoever ends an operation records it.
RecordAlways(state, outcome) ==
    /\ Log(state, outcome # "ok", operation.plan)
    /\ operation' = [operation EXCEPT !.finished = TRUE,
                        !.outcome = IF operation.finished THEN @ ELSE outcome]

\* An entry written by the first that ends the operation (sync.Once).
RecordOnce(state, outcome) ==
    IF operation.finished THEN UNCHANGED operationVars
    ELSE /\ Log(state, outcome # "ok", operation.plan)
         /\ operation' = [operation EXCEPT !.finished = TRUE, !.outcome = outcome]

CallEnds ==
    /\ At(DOMAIN States, "run")
    /\ \E outcome \in DOMAIN States[operation.by] :
          RecordNow(States[operation.by][outcome], outcome, NoPlan)

CallPanics ==
    /\ At(DOMAIN States, "run")
    /\ "panic" \notin DOMAIN States[operation.by] /\ operation.by \notin Loggers
    /\ EndsUnseen("panic")

-----------------------------------------------------------------------------
(* database/sql                                                            *)

\* The plan comes before the query, on the connection below the profiler.
ExplainOnDriver ==
    /\ At(Drivers, "explain")
    /\ \E plan \in DriverPlans :
          operation' = [operation EXCEPT !.plan = plan, !.at = "run"]
    /\ UNCHANGED recorded

\* A connection without the call, or one that answers ErrSkip: database/sql
\* prepares the statement and runs that, and only the statement records.
DriverSkips ==
    /\ At({"conn"}, "run")
    /\ operation' = [operation EXCEPT !.by = "stmt", !.plan = NoPlan,
                        !.at = IF operation.explains THEN "explain" ELSE "run"]
    /\ UNCHANGED recorded

\* The context has ended or the arguments are named, and the driver knows
\* neither: the query is not begun.
DriverRefuses ==
    /\ At(Drivers, "run")
    /\ EndsUnseen("refused")

\* The connection turns out to be bad.  That is recorded as any other error, and
\* database/sql (external) has the query run again on another connection.
DriverBadConn ==
    /\ At(Drivers, "run") /\ operation.retries < MaxRetries
    /\ Log("", TRUE, operation.plan)
    /\ operation' = [operation EXCEPT !.retries = @ + 1, !.plan = NoPlan,
                        !.at = IF operation.explains THEN "explain" ELSE "run"]

\* Exec records its result, Query a failure or the lack of rows.
DriverAnswers ==
    /\ At(Drivers, "run")
    /\ \E outcome \in {"ok", "error"} : RecordNow("", outcome, operation.plan)

DriverReturnsRows ==
    /\ At(Drivers, "run")
    /\ \E sets \in 0 .. MaxResultSets :
          operation' = [operation EXCEPT !.at = "rows", !.sets = sets]
    /\ UNCHANGED recorded

\* Next at the end of a result set: the query goes on if there is another.
\* Next may also fail.
RowsNext ==
    /\ At(Drivers, "rows")
    /\ \/ operation.sets = 0 /\ RecordOnce("", "ok")
       \/ RecordOnce("", "error")

RowsNextResultSet ==
    /\ At(Drivers, "rows")
    /\ \/ /\ operation.sets > 0
          /\ operation' = [operation EXCEPT !.sets = @ - 1]
          /\ UNCHANGED recorded
       \/ operation.sets = 0 /\ RecordOnce("", "ok")
       \/ RecordOnce("", "error")

\* Close may be called at any time, and again.
RowsClose ==
    /\ At(Drivers, "rows")
    /\ \E outcome \in {"ok", "error"} : RecordOnce("", outcome)

-----------------------------------------------------------------------------
(* GORM and Bun: a callback before a query and one after it                *)

\* Bun explains before the query, as profiler/sql does.
BunBeforeQuery ==
    /\ At({"bun"}, "explain")
    /\ \E plan \in SQLPlans :
          operation' = [operation EXCEPT !.plan = plan, !.at = "run"]
    /\ UNCHANGED recorded

BunAfterQuery ==
    /\ At({"bun"}, "run")
    /\ \E outcome \in {"ok", "error"} : RecordNow("", outcome, operation.plan)

\* GORM explains after it.
GormAfter ==
    /\ At({"gorm"}, "run")
    /\ \E outcome \in {"ok", "error"} : \E plan \in GormPlans(outcome) :
          RecordNow("", outcome, plan)

-----------------------------------------------------------------------------
(* pgx: a tracer that is told the start and the end of every query of a    *)
(* connection, its own EXPLAIN included.  What pgx does with the context   *)
(* that a tracer returns is external: it comes back at the end.            *)

\* TraceQueryStart: the trace is put into the context, but for an EXPLAIN.
StartedContext(context) == IF context.explain THEN context ELSE [context EXCEPT !.trace = TRUE]

\* runExplain marks the context of the traced query.
ExplainContext(context) == [context EXCEPT !.explain = TRUE]

TraceQueryStart ==
    /\ At({"pgx"}, "run")
    /\ operation' = [operation EXCEPT !.at = "running",
                        !.contexts = <<StartedContext([trace |-> FALSE, explain |-> FALSE])>>]
    /\ UNCHANGED recorded

\* TraceQueryEnd finds a trace in the context, and explains.
TraceQueryEnd ==
    /\ At({"pgx"}, "running")
    /\ operation' = IF Last(operation.contexts).trace
                       /\ operation.explains /\ Len(operation.contexts) <= MaxNesting
                    THEN [operation EXCEPT !.contexts =
                            Append(@, StartedContext(ExplainContext(Last(@))))]
                    ELSE [operation EXCEPT !.at = "record"]
    /\ UNCHANGED recorded

\* ... and records, once its EXPLAIN has ended in the same way.
TraceQueryRecords ==
    LET outermost == Len(operation.contexts) = 1
    IN  /\ At({"pgx"}, "record")
        /\ \E outcome \in {"ok", "error"} : \E plan \in PgxPlans :
              /\ IF Last(operation.contexts).trace
                 THEN Log("", outcome = "error", plan) ELSE UNCHANGED recorded
              /\ operation' = [operation EXCEPT !.contexts = Front(@), !.outcome = outcome,
                                  !.at = IF outermost THEN "closed" ELSE @,
                                  !.finished = outermost]

-----------------------------------------------------------------------------
(* gRPC streams of a client                                                *)

StreamClientInterceptor ==
    /\ At({"stream"}, "run")
    /\ \/ operation' = [operation EXCEPT !.at = "open"] /\ UNCHANGED recorded
       \/ RecordNow("", "error", NoPlan)

\* io.EOF, or a failure.
RecvMsg ==
    /\ At({"stream"}, "open")
    /\ \E outcome \in {"ok", "error"} : RecordOnce("", outcome)

\* A call whose server sends one message ends with that message, without an
\* error that the stream could record (external: the receiver of such a call).
RecvOnlyMsg ==
    /\ At({"stream"}, "open") /\ operation.outcome = "none"
    /\ EndsUnseen("ok")

\* The caller cancels the context or fails to send, and does not receive again.
StreamAbandoned ==
    /\ At({"stream"}, "open") /\ operation.outcome = "none"
    /\ EndsUnseen("abandoned")

CloseSend ==
    /\ At({"stream"}, "open")
    /\ RecordOnce("", "error")

-----------------------------------------------------------------------------
(* Spans                                                                   *)

\* Finish, FinishRows and FinishResult, by whoever holds the span, more than
\* once.
FinishQuery ==
    /\ At({"query"}, "run")
    /\ \E outcome \in {"ok", "error"} : RecordOnce("", outcome)

FinishEvent ==
    /\ At({"event"}, "run")
    /\ RecordOnce("succeeded", "ok") \/ RecordOnce("failed", "error")

FinishTask ==
    /\ At({"task"}, "run")
    /\ RecordOnce("succeeded", "ok") \/ RecordOnce("failed", "error")

\* The function that Measure, MeasureValue or MeasureTask runs has panicked.
FinishPanic ==
    /\ At({"event", "task"}, "run")
    /\ RecordOnce("panicked", "panic")

OperationInit == operation = NotBegun /\ recorded = <<>>

OperationNext ==
    \/ Begin
    \/ CallEnds \/ CallPanics
    \/ ExplainOnDriver \/ DriverSkips \/ DriverRefuses \/ DriverBadConn
    \/ DriverAnswers \/ DriverReturnsRows
    \/ RowsNext \/ RowsNextResultSet \/ RowsClose
    \/ BunBeforeQuery \/ BunAfterQuery \/ GormAfter
    \/ TraceQueryStart \/ TraceQueryEnd \/ TraceQueryRecords
    \/ StreamClientInterceptor \/ RecvMsg \/ RecvOnlyMsg \/ StreamAbandoned
    \/ CloseSend
    \/ FinishQuery \/ FinishEvent \/ FinishTask \/ FinishPanic

-----------------------------------------------------------------------------

ExplainedByPgx == operation # NotBegun /\ operation.by = "pgx" /\ operation.explains

\* What an operation that has ended still does not record: a query that its
\* driver could not begin, a panic in an integration without a state for it, and
\* a stream whose call ended where RecvMsg and CloseSend saw no error.
Unrecorded ==
    \/ operation.outcome = "refused"
    \/ operation.outcome = "panic" /\ operation.by \in DOMAIN States
           /\ "panic" \notin DOMAIN States[operation.by]
    \/ operation.by = "stream" /\ operation.at = "closed" /\ operation.outcome # "error"

\* The entries the end of an operation leaves.
Owed == IF operation.outcome = "none" \/ Unrecorded THEN 0 ELSE operation.messages

\* An operation leaves one entry where it ends, however often and by whomever it
\* is ended, a batch one for each message, a statement that is prepared on the
\* way included; one more for each attempt database/sql repeats; and none while
\* it can still go on or while recording is off.  An entry shows a failure
\* exactly if that attempt failed, as it ended first; and a plan of which
\* something is lost says so by its mark or its error (finishOnce, Finish,
\* finish, record, readPlan).  Not the queries that pgx explains:
\* PlanQueryIsNotRecorded.
RecordedOnce ==
    operation # NotBegun /\ ~ExplainedByPgx =>
        /\ Len(recorded) = IF operation.live THEN operation.retries + Owed ELSE 0
        /\ \A i \in DOMAIN recorded :
              LET entry == recorded[i]
                  failed == i <= operation.retries \/ operation.outcome \in {"error", "panic"}
              IN  /\ (entry.error \/ entry.state \in {"failed", "panicked"}) <=> failed
                  /\ entry.plan.size <= ExplainMaxBytes
                  /\ entry.plan.lost => entry.plan.cut \/ entry.plan.error

\* A query that pgx explains is recorded once, its EXPLAIN never: "Mark the
\* nested plan query so this tracer does not record it recursively"
\* (profiler/pgx/explain.go, runExplain).
PlanQueryIsNotRecorded == ExplainedByPgx => Len(recorded) <= 1
=============================================================================
