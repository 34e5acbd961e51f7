--------------------------- MODULE RequestCapture ----------------------------
(***************************************************************************)
(* A request from its arrival to the records it leaves: the early rules    *)
(* and the limited number of capture slots (capture_rules.go), the buffer  *)
(* its goroutines log into (request.go, context.go), Finish, the rule on   *)
(* the completed request, and the puts of its records, one at a time       *)
(* (profiler.go).  Queries and Logs stand for the ten kinds of related     *)
(* entities, which LogRequest records kind by kind.                        *)
(***************************************************************************)
EXTENDS Integers, Sequences, FiniteSets, SequencesExt

CONSTANTS
    Procs,          \* goroutines, those of a handler and those it leaves behind
    Requests,
    Queries, Logs,  \* related entities, each logged once
    RequestLimits,  \* the values WithNextRequests may have; negative: no limit
    DisabledKinds,  \* WithDisabledKinds
    Unencodable     \* what json.Marshal refuses: a channel in a payload, a NaN ...

Events == Queries \cup Logs

ASSUME CaptureAssumption ==
    /\ RequestLimits \subseteq Int /\ IsFiniteSet(Requests)
    /\ Queries \cap Logs = {} /\ Requests \cap Events = {}
    /\ DisabledKinds \subseteq {"request", "query", "log"}
    /\ Unencodable \subseteq Events \cup Requests

VARIABLES
    requestLimit, \* config.requestLimit
    remaining,    \* requestRemaining
    stage,        \* per request: what ShouldCaptureRequest has answered
    isFinished,
    buffer,       \* per capture: the related entities, in the order logged
    verdict,      \* per capture: the answer of the completed-request rules
    logged,       \* the entities that have been logged, with their request
    recorded,     \* the puts into the store, in order
    call          \* what each goroutine is doing

slotVars == <<requestLimit, remaining, stage>>
captureVars == <<isFinished, buffer, verdict, logged>>
vars == <<slotVars, captureVars, recorded, call>>

KindOf(id) ==
    IF id \in Queries THEN "query" ELSE IF id \in Logs THEN "log" ELSE "request"

Record(id, request) == [id |-> id, request |-> request]

Idle == [at |-> "idle"]

-----------------------------------------------------------------------------
(* ShouldCaptureRequest                                                    *)

\* Exclusions, early filters and sampling let the request through, or not.
Arrive(p, r) ==
    /\ call[p] = Idle
    /\ stage[r] = "new"
    /\ \/ /\ stage' = [stage EXCEPT ![r] = "candidate"]
          /\ call' = [call EXCEPT ![p] = [at |-> "load", request |-> r]]
       \/ stage' = [stage EXCEPT ![r] = "skipped"] /\ UNCHANGED call
    /\ UNCHANGED <<requestLimit, remaining, captureVars, recorded>>

\* takeRequestCaptureSlot, one pass of its loop: the load ...
LoadRemaining(p) ==
    /\ call[p].at = "load"
    /\ LET r == call[p].request
       IN  \/ /\ requestLimit < 0
              /\ stage' = [stage EXCEPT ![r] = "captured"]
              /\ call' = [call EXCEPT ![p] = Idle]
           \/ /\ requestLimit >= 0 /\ remaining <= 0
              /\ stage' = [stage EXCEPT ![r] = "skipped"]
              /\ call' = [call EXCEPT ![p] = Idle]
           \/ /\ requestLimit >= 0 /\ remaining > 0
              /\ call' = [call EXCEPT ![p] =
                            [at |-> "swap", request |-> r, saw |-> remaining]]
              /\ UNCHANGED stage
    /\ UNCHANGED <<requestLimit, remaining, captureVars, recorded>>

\* Mutants: the value is stored without comparing it; it is compared again
\* without being loaded.
BlindStore(p) ==
    /\ call[p].at = "swap"
    /\ remaining' = call[p].saw - 1
    /\ stage' = [stage EXCEPT ![call[p].request] = "captured"]
    /\ call' = [call EXCEPT ![p] = Idle]
    /\ UNCHANGED <<requestLimit, captureVars, recorded>>

SwapWithoutReload(p) ==
    /\ call[p].at = "swap"
    /\ remaining = call[p].saw
    /\ remaining' = call[p].saw - 1
    /\ stage' = [stage EXCEPT ![call[p].request] = "captured"]
    /\ call' = [call EXCEPT ![p] = Idle]
    /\ UNCHANGED <<requestLimit, captureVars, recorded>>

\* ... and the compare-and-swap, which fails when another request was faster.
CompareAndSwap(p) ==
    /\ call[p].at = "swap"
    /\ LET r == call[p].request
       IN  IF remaining = call[p].saw
           THEN /\ remaining' = call[p].saw - 1
                /\ stage' = [stage EXCEPT ![r] = "captured"]
                /\ call' = [call EXCEPT ![p] = Idle]
           ELSE /\ call' = [call EXCEPT ![p] = [at |-> "load", request |-> r]]
                /\ UNCHANGED <<remaining, stage>>
    /\ UNCHANGED <<requestLimit, captureVars, recorded>>

-----------------------------------------------------------------------------
(* Logging                                                                 *)

LogNew(e, r) ==
    /\ e \notin {l.id : l \in logged}
    /\ logged' = logged \cup {Record(e, r)}

\* Mutant: Finish is not noticed.
AppendAnyTime(r, e) == buffer' = [buffer EXCEPT ![r] = Append(@, e)]

\* RequestCapture.append
AppendTo(r, e) ==
    /\ ~isFinished[r]
    /\ buffer' = [buffer EXCEPT ![r] = Append(@, e)]

\* LogQueryContext and the like: what comes after Finish is recorded directly.
LogContext(p, r, e) ==
    /\ call[p] = Idle
    /\ stage[r] = "captured"
    /\ LogNew(e, r)
    /\ \/ AppendTo(r, e) /\ UNCHANGED call
       \/ /\ isFinished[r]
          /\ call' = [call EXCEPT ![p] = [at |-> "record", items |-> <<Record(e, r)>>]]
          /\ UNCHANGED buffer
    /\ UNCHANGED <<slotVars, isFinished, verdict, recorded>>

\* RequestCapture.LogQuery and the like: a call after Finish does nothing.
Log(p, r, e) ==
    /\ call[p] = Idle
    /\ stage[r] = "captured"
    /\ AppendTo(r, e)
    /\ LogNew(e, r)
    /\ UNCHANGED <<slotVars, isFinished, verdict, recorded, call>>

-----------------------------------------------------------------------------
(* Finish and LogRequest                                                   *)

\* Mutant: the request goes first.
RequestFirst(r) ==
    <<Record(r, r)>> \o [i \in 1..Len(buffer[r]) |-> Record(buffer[r][i], r)]

\* The related entities kind by kind, then the request itself.
RecordsOf(r) ==
    LET kind(ids) == FoldLeft(LAMBDA found, e :
                                IF e \in ids THEN Append(found, e) ELSE found,
                              <<>>, buffer[r])
        children  == kind(Queries) \o kind(Logs)
    IN  [i \in 1..Len(children) |-> Record(children[i], r)] \o <<Record(r, r)>>

Finish(p, r) ==
    /\ call[p] = Idle
    /\ stage[r] = "captured"
    /\ ~isFinished[r]
    /\ isFinished' = [isFinished EXCEPT ![r] = TRUE]
    /\ \/ /\ verdict' = [verdict EXCEPT ![r] = "retained"]
          /\ call' = [call EXCEPT ![p] = [at |-> "record", items |-> RecordsOf(r)]]
       \/ verdict' = [verdict EXCEPT ![r] = "rejected"] /\ UNCHANGED call
    /\ UNCHANGED <<slotVars, buffer, logged, recorded>>

\* What Profiler.record returns for without a put: its kind is disabled, or
\* marshalRedacted fails.  Nobody is told, and the next record follows.
LeftOut(id) == KindOf(id) \in DisabledKinds \/ id \in Unencodable

\* Mutant: an entity that cannot be encoded ends the call.
RecordUntilError(p) ==
    /\ call[p].at = "record"
    /\ LET item == Head(call[p].items)
           rest == Tail(call[p].items)
       IN  /\ recorded' = IF LeftOut(item.id) THEN recorded
                          ELSE Append(recorded, item)
           /\ call' = [call EXCEPT ![p] =
                         IF rest = <<>> \/ item.id \in Unencodable THEN Idle
                         ELSE [at |-> "record", items |-> rest]]
    /\ UNCHANGED <<slotVars, captureVars>>

\* Profiler.record
RecordNext(p) ==
    /\ call[p].at = "record"
    /\ LET item == Head(call[p].items)
           rest == Tail(call[p].items)
       IN  /\ recorded' = IF LeftOut(item.id) THEN recorded
                          ELSE Append(recorded, item)
           /\ call' = [call EXCEPT ![p] =
                         IF rest = <<>> THEN Idle
                         ELSE [at |-> "record", items |-> rest]]
    /\ UNCHANGED <<slotVars, captureVars>>

-----------------------------------------------------------------------------
Init ==
    /\ requestLimit \in RequestLimits
    /\ remaining = requestLimit
    /\ stage = [r \in Requests |-> "new"]
    /\ isFinished = [r \in Requests |-> FALSE]
    /\ buffer = [r \in Requests |-> <<>>]
    /\ verdict = [r \in Requests |-> "none"]
    /\ logged = {}
    /\ recorded = <<>>
    /\ call = [p \in Procs |-> Idle]

\* What a goroutine that has begun a call goes on to do.
Continue(p) == LoadRemaining(p) \/ CompareAndSwap(p) \/ RecordNext(p)

Next ==
    \E p \in Procs :
        \/ Continue(p)
        \/ \E r \in Requests :
             \/ Arrive(p, r) \/ Finish(p, r)
             \/ \E e \in Events : LogContext(p, r, e) \/ Log(p, r, e)

\* A goroutine inside a call is scheduled; nothing makes it begin one.
Spec == Init /\ [][Next]_vars /\ \A p \in Procs : WF_vars(Continue(p))

-----------------------------------------------------------------------------
\* However many requests race for the slots, as many are captured as slots
\* are gone: none is lost or given twice (WithNextRequests).
SlotsExact ==
    requestLimit >= 0 =>
        Cardinality({r \in Requests : stage[r] = "captured"}) + remaining
          = requestLimit

\* Nothing is recorded for a request that was not captured, and what a
\* captured one had logged by its Finish is recorded before the request is:
\* who sees the request in the store can see everything in its buffer that is
\* of an enabled kind and has an encoding.
ChildrenBeforeRequest ==
    \A i \in 1..Len(recorded) :
        LET r == recorded[i].request
        IN  /\ stage[r] = "captured"
            /\ recorded[i].id = r =>
                 \A j \in 1..Len(buffer[r]) :
                    ~LeftOut(buffer[r][j]) =>
                      \E k \in 1..(i - 1) : recorded[k].id = buffer[r][j]

\* Every entity logged for a request has one fate: it waits in a buffer, or
\* in the hands of one goroutine, or has been recorded once, or was discarded
\* with its request, for its kind, or because it has no encoding.  No
\* interleaving of logging and Finish loses one or records it twice; the same for
\* the requests.
Waiting(id) ==
    {r \in Requests : ~isFinished[r] /\ Contains(buffer[r], id)}
      \cup {p \in Procs : call[p].at = "record" /\
                            \E i \in 1..Len(call[p].items) : call[p].items[i].id = id}
      \cup {i \in 1..Len(recorded) : recorded[i].id = id}

Discarded(id, r) ==
    \/ LeftOut(id)
    \/ verdict[r] = "rejected" /\ (id = r \/ Contains(buffer[r], id))

OneFate ==
    /\ \A l \in logged :
         /\ Cardinality(Waiting(l.id)) <= 1
         /\ Waiting(l.id) = {} => Discarded(l.id, l.request)
    /\ \A r \in Requests :
         /\ Cardinality(Waiting(r)) <= 1
         /\ (isFinished[r] /\ Waiting(r) = {}) => Discarded(r, r)

\* A candidate gets its answer: the compare-and-swap loop ends.
SlotSearchEnds ==
    \A r \in Requests : (stage[r] = "candidate") ~> (stage[r] \in {"captured", "skipped"})

\* Of a request that passed the completed-request rules, itself and all it had
\* buffered, everything of an enabled kind that can be encoded reaches the
\* store: an entity, or the request, that cannot be takes no other one with it.
RetainedIsRecorded ==
    \A r \in Requests :
        (verdict[r] = "retained")
          ~> \A id \in {r} \cup {buffer[r][i] : i \in 1..Len(buffer[r])} :
               LeftOut(id)
                 \/ \E i \in 1..Len(recorded) : recorded[i].id = id

\* A request its rules reject leaves nothing in the store: the rules decide
\* on "a completed request and all of its related entities" (options.go).
RejectedLeavesNothing ==
    \A r \in Requests : verdict[r] = "rejected" =>
        \A i \in 1..Len(recorded) : recorded[i].request # r
=============================================================================
