# webpprof in TLA+

webpprof records what a Go service does (requests, queries, cache calls,
jobs, mail, logs, exceptions ...), keeps a bounded window of these *entries* in
memory, optionally on disk, and shows them in a browser, over HTTP and to MCP
clients.  This directory models the parts of it whose correctness depends on
order: who holds which lock when, what is written before what, what a crash
leaves, which goroutine wins, what a client that asks in pieces sees; and the
computations on intervals and timelines whose edges are easy to get wrong.
Source lines are given as `file:first-last`.

1. [Inventory of the system](#1-inventory)
2. [Modules and how they correspond to the code](#2-modules)
3. [What the runs check](#3-runs)
4. [Bounds, deadlock and fairness](#4-bounds-deadlock-and-fairness)
5. [What is proved](#5-proofs)
6. [Disagreements between the code and its documentation](#6-findings)
7. [What is not modelled](#7-not-modelled)
8. [Plan](#8-plan)

To check a module: `tlc -workers 2 -config X.cfg M`; to check the proofs of
one: `tlapm M.tla`.

## 1. Inventory

| Component | Source | State | Operations |
|---|---|---|---|
| Insertion order | `store_order.go` | `values`, `head`, `count` of a circular deque of entry ids | `at`, `front`, `pushBack` (grows when full), `popFront`, `remove` (shifts), `reset` |
| Event store | `store.go` | `entries`, `order`, `bytes`, `nextCursor`, `dropped`, `evicted`, `subscribers`, `isClosed` under `mu` | `put`, the reads (`list`, `get`, `requestEntries`, `scopeEntries`, `stats`; all purge first), `clear`, `subscribe`, unsubscribe, `close` |
| Persistence of batches | `store.go:724-772` | `storageIssued` under `mu`; `storageDone` under `storageMu` with `storageCond`; `storageError` under `mu` | `storageBatchLocked`, `persist`, `setStorageError`, second half of `close` |
| Journal | `store.go:511-676` | the file, the descriptor `storageFile` | `appendJournal`, `compactJournal`, `replayRecord`, `openJournalStorage` |
| External storage | `storage.go`, `storage/sqlite` | table of entries with unique cursors, `next_cursor` | `Load`, `Put`, `Delete`, `Clear`, `Close` |
| Request capture | `request.go`, `context.go`, `capture_rules.go`, `profiler.go:125-430` | remaining capture slots, buffer and `finished` of each request | `ShouldCaptureRequest`, `BeginRequest`, `LogX`, `LogXContext`, `Finish`, `LogRequest` |
| Event stream and HTTP API | `websocket.go`, `http.go` | a subscription with its channel and connection; the profiler's session, the failed logins of each host | snapshot, messages, periodic statistics; `listEvents` with its filters and pages, `createSession`, `authorize` |
| Clients | `ui/app.js`, `client/client.go`, `internal/mcpserver` | what the browser shows; the cookie of a Go client, the cursor of a wait | first page, stream, pause and reconnection, older pages, the entries of an execution, clearing; `WaitForRequest`, `InspectRequest`, login on 401 |
| Lifecycle | `profiler.go`, `server.go`, `integration.go` | the process-wide profiler, its server and listener | `New`, `Start`, `URL`, `Shutdown`, `Close` |
| HTTP middleware | `profiler/http` | intervals of downstream calls; response observer, bounded bodies | `timedNext`, `workSpans`, `WriteHeader`, `Write`, `Flush`, `Hijack` |
| Analysis | `analysis.go` | none (pure) | the findings of `Analyze` |
| Measures, tasks | `measure.go`, `task.go`, `query_span.go` | spans that finish once | `Start...`, `Finish` |
| SQL profiling | `profiler/sql`, `query_plan.go` | rows that finish once, guarded EXPLAIN | driver wrapper |
| ORMs and pgx | `profiler/{gorm,bun,pgx}` | the context of a traced query | callbacks, EXPLAIN beside the query |
| Queues | `profiler/{goqueue,asynq,kafka,nats}`, `queue_stats.go` | job being observed, registered sources | middlewares |
| OpenTelemetry | `profiler/otel` | the root span of each trace | `OnStart`, `OnEnd` |
| Other adapters | `profiler/*` | the observed library's | one `LogXContext` call per callback |
| Configuration, redaction, dashboard | `options.go`, `redact.go`, `dashboard.go`, `runtime.go` | configuration; registered sources | - |

**How they interact.**  Every adapter ends in `LogXContext(ctx, ...)`.  With a
request in the context the entity goes into the request's buffer; without one,
or after `Finish`, straight to `Profiler.record`, which redacts, encodes
and stamps the entry and calls `entryStore.put`, or returns without a word when
the encoding fails.  (The executions of a scheduled or callable task and
`LogTaskContext` are roots of their own and never join a request's buffer.)
`Finish` asks the rules on the completed request and then puts its records one
by one.  `put` works on memory under `mu`, tells the subscribers, takes a
number for its batch of storage records, leaves `mu`, and in `persist` waits
for its turn to write them.  `close` closes the subscriptions under `mu`, waits
under `storageMu` for the batches issued so far, and closes the storage.  A new
process replays the journal, or loads the table, and trims it to its limits.
Clients read the store page by page and follow one subscription; a restart
replaces the session they are logged in with.  `Analyze` reads the timeline of
one execution.

**What is hard, and the properties that answer it.**

* *Order.*  A wrapping, growing, shifting ring must be the plain queue it stands
  for.  -> `ImplementsFifo`, `LiveSlotsExact`.
* *Three indexes of one set* (`entries`, `order`, `bytes`), changed on paths (replace, purge, evict, clear).  -> `IndexesAgree`, `CursorsAscend`, `LimitsHold`, `RetiresOldestFirst`, `AcceptedEntryIsStored`.
* *Lagging subscribers.*  -> `StreamContiguous`.
* *Writing after unlocking.*  A batch is issued under one lock and written under
  another; memory moves on; a compaction snapshots a memory that is ahead of
  the batches still queued.  -> `OneWriterInTurn`, `EveryTurnHasAnOwner`,
  `JournalCatchesUp`, `TableCatchesUp`, `WaitersProceed`.
* *Failures and crashes between two records of a batch.*  -> `DivergenceReported`,
  `AcknowledgedSurvives`, `CursorContinues`, `CursorsUnique`.
* *Goroutines that race over a request.*  -> `SlotsExact`, `OneFate`,
  `ChildrenBeforeRequest`, `RetainedIsRecorded`, `SlotSearchEnds`.
* *A copy kept up to date* from pages, executions on demand, a stream that may
  be dropped or held back, and statistics that arrive late.
  -> `GapsHaveAReason`, `ForgetsOnlyRetired`.
* *Operations made of several calls*, between which entries are stored, evicted,
  cleared and numbered again, and sessions end.  -> `WaitReturnsNext`,
  `WaitCatchesMatch`, `ReportIsWhole`, `ReauthSucceeds`.
* *A process-wide profiler* that several goroutines create, find and close.
  -> `DefaultIsOpen`.
* *Ends that come twice, late, unseen or by panic*, and calls that are tried
  again, for every integration.  -> `RecordedOnce`, and `PlanQueryIsNotRecorded`,
  which the code breaks.
* *A response seen from the middle*: informational and final statuses, bodies
  cut short, connections taken over.  -> `ObservedAsSent`.
* *Spans of a trace in any order.*  -> `FiledWhileServing`.
* *Intervals that overlap, nest, stick out and outlast*: work of a middleware,
  share of SQL, chains of calls, trees of spans.  -> `WorkPartition`,
  `SqlShareIsCoverage`, `SerialCallsApart`, `QueriesBlamedOnce`,
  `BottleneckIsTheCause`, `FindingsStayInScope`.

`PROJECT.json` lists these and the remaining hazards at their lines.

## 2. Modules

```
EntryFifo  <== implemented by ==  EntryOrder ---- EntryOrderProofs
                                      |
                                      +-- (one part of) Profiling

EntryStore ---- EXTENDS ---- Persist --+-- JournalStore    MCJournalStore
   |                            |      +-- ExternalStore   MCExternalStore
   |                            +-- PersistProofs --+-- JournalStoreProofs
   |                                                +-- ExternalStoreProofs
   +-- MCEntryStore
   +-- EntryStoreProofs

RequestCapture --- MCRequestCapture
   +-- RequestCaptureProofs

EventServer --+-- EventBrowser --+-- Clients --- MCClients
              +-- ApiClient -----+      +-- ClientsProofs

EntryOrder, Analysis, Operations, HandlerTiming, Lifecycle, OtelSpans
   +-- Profiling --- MCProfiling
          +-- ProfilingProofs
```

**EntryFifo** is what the insertion order promises: a sequence of ids, appended
at the back, popped from the front, searched and shortened in the middle.
**EntryOrder** is `entryOrder` itself, the record `deque` of `values`, `head` and `count`, with `Slot`
the index computation modulo the capacity.  `Grown` is `grow`, `Placed` the
assignment of `pushBack`, `Popped` and `ShiftedOver`/`RemovedAt` are the loops of
`popFront` and `remove` written as functions of the slot's distance from the
head.  Each action (`PushBack`, `PopFront`, `LookAtFront`, `RemoveId`,
`Reset`) also sets `result`, what the call returns.  The refinement
mapping reads the window from `head` on.  A capacity of 64 in the code is the
constant `InitialCapacity`.

**EntryStore** is the store in memory.  `memory` is a record `[entries, order,
bytes]`; that its `order` may be a plain sequence is what EntryOrder's
refinement shows.  The correspondence:

| Action | Code |
|---|---|
| `BeginRecord(p, id, size)` | `Profiler.record` builds and stamps the entry, before any lock (`profiler.go:399-417`) |
| `Put(p)`, `PutTooLarge(p)`, `PutAfterClose(p)` | the three ways through `put` (`store.go:96-133`): purge, then refuse, or replace + evict; broadcast; issue |
| `Read(p)` | the purge that every read begins with, when it removes something |
| `Clear(p)` | `clear` (`store.go:359-369`), which does not look at `isClosed` |
| `Close(p)`, `FinishClose(p)` | the two halves of `close` (`store.go:407-443`) |
| `Persist(p)` | `persist` as one step; refined in Persist |
| `Subscribe`, `Unsubscribe(s)`, `Receive(s)` | `subscribe`, the function it returns, and a reader such as `serveWebSocket` |
| `Tick` | time passes |

What a goroutine is doing is `call[p]`: `idle`, `put` with the stamped entry,
`persist` with the number and the records of its batch, `closing` with the
number of batches issued when it closed.  `DropOldest(m, k)` is `k` times
`removeOldestLocked`; `PurgeCount` and `EvictCount` say for which `k` the loops
of `purgeExpiredLocked` and `evictLocked` stop, instead of repeating them.
`HandleSeen` is the data race of `storageBatchLocked`, which reads `storageFile`
and `storage` under `mu` while `close` writes them under `storageMu`: after the
close a goroutine may see either value.

**Persist** extends it by what happens inside `persist`: taking `storageMu`
(`MayWrite`), one record after the other with errors joined (`Continue`),
passing the turn on (`FinishPersist`), `setStorageError` under `mu`
(`ReportError`), the second half of `close` (`CloseStorage`), and a fresh
process (`FreshProcess`).  It has no specification of its own; it is completed by

* **JournalStore**, where a record is appended to `disk` (`AppendRecord`), may
  be left out, cut short (`Garbage`) or complete but for its newline
  (`AppendFails`), or is dropped because there is no file (`AppendNowhere`);
  where a compaction copies memory under the read lock (`TakeSnapshot`) and
  later renames the copy over the journal (`InstallSnapshot`), or fails with the
  old file, with a closed descriptor or with no descriptor (`CompactionFails`);
  and where `Restart` replays up to the first undecodable record;
* **ExternalStore**, where a record is one transaction on `rows` and
  `savedCursor` that happens (`CallSucceeds`) or not (`CallFails`; certainly so
  when the UNIQUE cursor is taken), and where `Restart` loads the rows in cursor
  order, trims them and deletes what it trimmed, or fails to load and goes on
  with an empty memory.

**RequestCapture** follows a request: `Arrive` (exclusions, early filters,
sampling), `LoadRemaining` and `CompareAndSwap` (the loop of
`takeRequestCaptureSlot`), `LogContext` and `Log` (the two ways to add a related
entity, which differ after `Finish`), `Finish` with the verdict of the
completed-request rules, and `RecordNext`, one put at a time.  An entity of
`Unencodable` (a value `json.Marshal` refuses in its payload) is left out there, as
one of a disabled kind is, and the next record follows (`profiler.go:399-417`;
what the request still holds of its entities is emptied before the request itself is
encoded, `profiler.go:199-211`).  `Queries` and
`Logs` stand for the ten kinds of related entities that `LogRequest` records kind
by kind; `RecordsOf` selects each kind with a fold, in the order of the buffer.

**EventServer** is a profiler as its HTTP clients see it.  Storing, evicting and
broadcasting are one step (`Put`), because EntryStore has them apart; what is
opened up is what lies between the store and a client: the filter, the two
clamps of a limit and the look-ahead of a page (`ListEvents` over
`ListBefore`, a fold from the newest entry on, like the loop of
`listBeforeFiltered`), the order of `serveWebSocket` (subscribe, snapshot, then whatever
is ready), the hanging up on a subscriber that lags, the session that every
process chooses anew, and the block after failed logins.  An entry's `class` says how it
fares with the filter of a client that waits: matched by server and client,
matched only by the server (which folds the case of a path), or by neither.  Its
`of` names the requests that the filter `request_id` finds it by: a request by its
own ID, any entry by its RequestID or OriginRequestID (`store.go:225`), whether it
was stored before the request, as what `LogRequest` records, or after it, as a
job that it dispatched.  `Restart` keeps the entries in the order of their
cursors, or loses them; JournalStore shows in which case a replay changes the
order (finding 1), which the properties of the clients exclude.

**EventBrowser** is the browser's copy.  What it asks for is answered in one step
and applied in a later one: the first page (`AnswerLoad`, `ApplyLoad`), older
entries (`AskOlder` to `ApplyOlder`, `loadMoreEvents`), the entries of an execution
(`AskScope` to `ApplyScope`, `loadExecutionScope`), a DELETE (`ClearHere`,
`ApplyClear`).  Messages are on the `wire` until they are received; a connection may
break with all that is on it, and `Reconnect` only connects again.  A pause holds
new entries back in `pending`, which neither a clear nor a new first page empties
(`ReceiveEntry`, `TogglePause`).  `BrowserRestart` replaces the process: with
authentication the next call is answered 401 and the browser loads again after the
login; without, it goes on with what it shows (`app.js:405-416`), although the
server may have begun to number again.  So what is shown are pairs of a cursor and
a `numbering`, which stand for the identifiers: the browser compares cursors only,
and cannot tell the numberings apart.  `gaps` is a history variable: the stored
entries that the browser may lack and why (`away`: stored while there was no
subscription; `forgotten`: removed by statistics or by the answer to a DELETE;
`passed`: below the list when something still lower was added to it).  **ApiClient** has one record per goroutine that uses a Go client.
Every HTTP call is sent (`Ask`, with the cookie of that moment) and answered
(`Answer`, `Unauthorized`) in different steps; `Authenticate` takes `authMu`,
`LoginAccepts` and `LoginBlocks` are the two answers to a login.  `skipped`,
`listed` and `began` are history variables.  **Clients** puts a browser, or the goroutines of
a client, beside the server.

**Analysis** writes each finding of `Analyze` as an operator over a sequence of
entries: what it is about and which entries it names.  Loops with an
accumulator (`Cover`, `SerialChain`, `Bursts`) are folds, and trees
(`Hierarchy`) recursive functions.  A tick is 50 ms, the largest unit that
divides every threshold of the file.  The only action stores the next entry,
so that every prefix of a timeline is analysed too.

**Operations** follows one operation through an integration.  `States` lists,
for the integrations that record when a call returns, what they record for each
outcome; connections, statements and rows of `profiler/sql`, GORM, Bun, pgx,
client streams of gRPC and the spans that an application finishes itself have actions of their own,
because they keep something between the calls of their library.  An operation
has an `outcome` when it has ended, recorded or not: `EndsUnseen` is the end that an
integration does not notice (a panic it has no state for, a query its driver cannot
begin, `RecvOnlyMsg`, `StreamAbandoned`).  `DriverBadConn` is an attempt that
`database/sql` repeats on another connection: the profiler sees each, explains
each and records each (`profiler_sql.go:284`, `365-367`).  `ReadPlan` and
`ReadSQLPlan` are the two readers of an EXPLAIN with their limits on rows and
bytes; `FailedPlan` and `BrokenPlan` are a plan that was not begun and one whose
rows failed after some lines, which are kept beside the error.

**HandlerTiming** has the timed `next` handler (`CallNext`, `ReturnFromNext`,
from the middleware's own goroutine or another), the merge into work spans
(`Merged`, `WorkSpans`), and the observer of a captured response against what
net/http has been told (`wire`): of the statuses below 200 net/http sends 101 as a
final one and goes on after the others, and nothing after a `Hijack`.  `bodyLimit`
is any of `BodyLimits`, with 0 for a recorder that keeps nothing
(`body.go:32-34`).

**Lifecycle** is `New`, `Start`, `URL`, `Close` and `Shutdown` over all profilers
a process has created.  What runs under `defaultProfilerMu` and cannot be seen
without it is one step; stopping the server, closing the store and clearing the
default are three, since `Shutdown` of the package and the goroutine that serves
do not take the lock.  **OtelSpans** is the span processor: `OnEnd` reads the
root of the trace at its beginning and removes it at its end; whether it records
the span depends on the attributes of that moment, not on those of the start.

**Profiling** puts these five and EntryOrder side by side.  They share no state,
so an execution is one of one of them: interleaving would multiply states and show
nothing.

The modules ending in **Proofs** hold the theorems of [section 5](#5-proofs).

A comment starting with "Mutant" marks a definition that is not the code: it is
the code with a plausible mistake, kept to show that a property would notice it.

## 3. Runs

| Run | Instance | Distinct states | Shows |
|---|---|---|---|
| `store` | 2 goroutines, 3 ids, entries of size 1, 2, 4 against 2 entries and 3 bytes, retention 0, one subscription of capacity 2 | 1.0 M | the indexes agree, limits hold, entries retire oldest first, the stream has no gap |
| `journal` | 3 goroutines, 3 ids, 2 entries, retention 0, compaction above 2 records, one I/O failure, one crash | 2.3 M | disk plus what is still queued is memory; divergence is reported; acknowledged entries survive |
| `journal_liveness` | 3 goroutines, 2 ids, compaction above 2 records, one failure | 0.15 M | nobody waits for ever in `persist` or `close` |
| `external` | 3 goroutines, 3 ids, 2 entries, retention 0, one failure, one crash | 0.5 M | table plus what is still queued is memory; cursors are unique and go on |
| `capture` | 3 goroutines, 2 requests, 2 queries of which one cannot be encoded, 1 log of a disabled kind, without a limit and with one slot | 58 k | slots are exact, every entity has one fate, the request comes last |
| `clients` | 3 entries, pages of 2, 4 puts or clears, 1 restart that keeps or loses the entries, 1 failed login that blocks; either a goroutine that waits, or one that inspects beside one that asks for statistics, with entries of the second request among others | 0.55 M | a wait returns the next match and does not miss it; a report is whole; one restart costs one login |
| `browser` | 2 entries, subscription of capacity 2, pages and executions of 1, 3 puts or clears, 1 restart with a login or without, 1 broken connection, 1 execution opened | 3.4 M | the browser lacks an entry only for one of three reasons; which statistics take what it should keep |
| `profiling` | insertion order: 3 ids, capacity 2 that doubles, up to 6 live; five families of timelines of up to 8 entries; every integration with 2 messages, 2 result sets, 2 retries, plans around a limit of 2 rows and 6 bytes, whole or broken off; 3 downstream calls in 5 ticks; 3 calls of a response with statuses 101, 103, 200, 404 against body limits of 0 and 3; 2 goroutines, 3 profilers; 3 spans | 1.7 M | a ring that wraps, grows and shifts behaves as a queue and no slot keeps an id after it left, findings agree with what they claim, every operation is recorded once, work spans partition the time, a response is observed as it was sent, one profiler is active, spans are filed under live requests |
| `journal_order`, `clear_during_close`, `late_entity`, `plan_query` | as above | until violated | see [Findings](#6-findings) |

*`StreamContiguous`* says more than "no message is lost": the cursors buffered in
a channel continue without a gap what its reader has received, and end at
`nextCursor` for as long as the subscription has not been dropped for lagging.

*`JournalCatchesUp`* and *`TableCatchesUp`* are the heart of the persistence: at
every moment, between any two steps, replaying what is on disk followed by all
the records that issued batches still hold yields memory.  The journal needs it
to hold for a snapshot that is *ahead* of queued batches: these are written again
after it, and replaying them over it must change nothing but the order.

*`DivergenceReported`* is the other half: when every call has returned and disk
differs from memory, `storageError` is set.

*`CursorsAscend`* in the `store` run is about updates, purges and evictions in one
process; what a replay makes of the order is the question of `journal_order` alone.

*`GapsHaveAReason`* is stated for the moments at which everything under way has
been delivered; until then a copy may be behind.  Its three reasons are what the
code does and a reader of it may object to ([Findings](#6-findings)); that there is
no fourth is the point: the order of subscription and snapshot in
`serveWebSocket`, the pause, `before` and `has_more` leave no other gap.
*`ForgetsOnlyRetired`* names the only two ways in which statistics remove an entry that
the server still has: something as new or newer counts against it that the statistics
could not have counted (the entries of an execution, which need not come in order), or
something that another numbering left.  *`ReportIsWhole`* is about the whole family of a
request that was stored when the report listed it, on either side of the request.
*`WaitReturnsNext`* and
*`WaitCatchesMatch`* except, and only except, the waits that met more than a page
between two polls or a server that began to number again.  *`ReauthSucceeds`*
allows a client with the right token to be refused only when the restart
happened during that very call.

The properties of the analysis are not the definitions over again: the share of
SQL is compared with a count of covered ticks, a chain of calls with the
definition of overlap and with every run of neighbours that qualifies, the
bottleneck with all of its descendants, a finding's entries with the transitive
closure of parents.  *`WorkPartition`* compares work spans with the set of
instants outside the downstream calls.

*`RecordedOnce`* says of every state how many entries an operation has left: none
before it ends, one (or one for each message) after, one more for each repeated attempt; and
it names, in `Unrecorded`, the ends that leave none.  *`ObservedAsSent`* excepts two
responses whose status the observer cannot know or mistakes: a connection taken over
before a status was sent, and 101 ([Findings](#6-findings)).

*`CursorContinues`* is what `storage.go` demands of a storage ("preserve the
supplied monotonic cursor across restarts"), up to the batches that the crash
took with it.

## 4. Bounds, deadlock and fairness

*Limits of the program* are constants of the modules: `MaxEvents`, `MaxBytes`,
`Retention`, `StreamBuffer`, `RequestLimits`, `DisabledKinds`.  They are chosen so that
each limit bites: more ids than `MaxEvents`, an entry that alone exceeds
`MaxBytes`, one that fits only when everything else leaves, a subscription that
overflows after two messages, a slot that two requests want.

*`CompactAbove`* counts records; the code compacts above
`max(2*maxBytes, 1 MiB)` (`store.go:610-629`).  Only when a compaction happens
matters to the properties, and both orders (before and after a batch's last
record) occur with 2.

*Bounds of the model* are guards: `MaxCursor` (puts and clears), `MaxTime`,
`MaxDropped`, `MaxSubscribers`, `MaxFaults`, `MaxRestarts`, `MaxCount`,
`MaxDrops`, `MaxScopes`, `MaxWrites`, `MaxNesting`, `MaxResultSets`, `MaxMessages`.  With two
live entries, the third put is the first that evicts, and clears, expiry and
reads issue their batches beside it, so `MaxCursor` is 3.  One
failure and one restart suffice for every property here: after a restart the
state differs from an initial one only in `memory`, `nextCursor` and the disk.

*Clients.*  With pages of 2 and three stored entries there are more matches than a
page, and the fourth put evicts.  A second waiting goroutine would only share the
cookie, which the goroutine that asks for statistics does too, beside the one that
inspects.  `Inspected` says what is stored beside a report: a match of no
request, or something of the second request, which puts members of its family on both
sides of it.  `LoginLimit` of 1 makes a
single failed login block.  For the browser two stored entries and a page of 1
leave an older page; a subscription of 2 overflows; the periodic statistics are sent
only while the wire is idle, since two that follow each other on it say the same or are
told apart by what is between them.  One broken connection and one restart occur in every
order with a pause, a clear, an execution and an older page; random behaviours of 60
steps with three entries, five puts and two of everything else (170 million states)
showed no violation either.

*Operations and responses.*  `MaxRetries` is 2, which is how often `database/sql`
tries again with a pooled connection.  `BodyLimits` has zero and a limit between the
sizes that are written; `Statuses` has an informational one, 101 and two final ones.

*Timelines.*  TLC's families are products of a few choices for each entry, one
family per kind of finding, chosen around its threshold (`MaxGap` of 2 ticks,
3 calls or queries, half of the duration).  Query bursts and N+1 groups, which
compete for the same queries, share a family.

*Symmetry* is used over goroutines and ids, which the modules only compare for
equality, and never in runs with a temporal property.

*Deadlock* is not checked where the modelled system may rest: all calls have
returned and a bound forbids another, every operation has been recorded, or the
connection of a browser is idle.  That a goroutine inside a call never gets
stuck is `WaitersProceed` for the store and `WaitCatchesMatch` for a waiting
client.

*Fairness.*  `JournalFairSpec` assumes weak fairness of `JournalStep(p)` for each
goroutine: one inside `persist` or `close` is scheduled, its I/O returns, a
waiter on `storageCond` is woken (every change of `storageDone` broadcasts,
`store.go:757-760`).  Nothing is assumed of `MemoryStep`: no goroutine need ever
begin a call.  `RequestCapture`'s `Continue(p)` is fair in the same sense.  The
compare-and-swap loop ends under weak fairness because a swap fails only when
another one has taken a slot.  `Lock` of a Go mutex is starvation-free, which
weak fairness of each goroutine's step relies on.  `Clients!Spec` assumes weak
fairness of `Proceed(c)`: a goroutine inside a call of the Go client sends,
and the server answers.  Nobody has to start a call, put an entry, cancel, or
restart.  `Profiling` has only safety properties and assumes nothing.

## 5. Proofs

All theorems hold for every value of the constants that satisfies the module's
`ASSUME`.

**EntryOrderProofs** (assumptions: `InitialCapacity` is a number, zero included,
`NoId` is no id, `MaxCount` a number) is about `OrderSpec`, the part "order" of
`Profiling`.

* `TypeCorrect`: `OrderSpec => []TypeOK`; `SlotsStayExact`: `OrderSpec =>
  []LiveSlotsExact`.
  The inductive invariant is their conjunction.  `LiveSlotsExact` cannot be
  proved alone: `Slot` is injective on the window only when the window fits the
  slots (`TypeOK`), and that is what makes a write at one distance leave the
  slots at the others alone.  Conversely the ids that a growth copies are ids
  because a slot in the window is not `NoId` (`LiveSlotsExact`).
* `DequeIsFifo`: `OrderSpec => ImplementsFifo`.  The initial state maps to the initial
  queue; for each action a lemma says what it does to the window (`grow` keeps
  it, a push appends to it, a pop is its tail, a removal skips one position) and
  the step maps to the step of the same name.  The lemmas rest on the arithmetic
  of `% Capacity`, stated once.

**EntryStoreProofs** (assumption: `StoreAssumption`, which is what `options.go`
leaves of the limits it clamps).

* `IndexesAlwaysAgree`: `Spec => []IndexesAgree`, whose halves are `OrderIsExact` and
  `BytesStayExact`, and `OrderIsByCursor`: `Spec => []CursorsAscend`.  Neither is inductive: that a new entry is the
  highest needs `cursor <= nextCursor` for all stored entries; that replacing
  keeps the order needs the order to be exact, to find the entry's one
  position.  The inductive invariant joins both with the part of the type
  invariant that gives order and cursors their ranges (`IInv`, shown by `StoreInOrder`).
  The lemmas follow the operators: dropping from the front, forgetting one
  position, and inserting at the back keep a memory *well ordered*; every action
  is a composition of these.
* `FirstInFirstOut`: `Spec => RetiresOldestFirst`, from the same invariant: a
  dropped prefix of a sequence sorted by cursor contains everything older.
* `LimitsAlwaysHold`: `Spec => []LimitsHold`, and `AcceptedIsStored`: `Spec =>
  AcceptedEntryIsStored`, which rest with `BytesStayExact` on one account.  The
  size of what is stored is a fold over the stored ids.  Its first fact is that
  one id more adds one size and one id less takes it away, in whatever order the
  fold goes; then every way to change a memory (drop from the front, forget, insert)
  keeps the byte count *balanced*.  `Accounted` joins this with the limits: that
  eviction ends within them, and before it reaches the entry just put, needs
  the count to be exact and every limit to be positive.
* `StreamsStayContiguous`: `Spec => []StreamContiguous`.  Whoever subscribes has
  seen the cursor of that moment; `StreamInv` says that a channel announces
  every cursor from there to the current one, in order, as long as
  it is subscribed, and to some cursor afterwards: a dropped subscriber's channel
  ends early and has no gap.

**PersistProofs** (assumption: `PersistAssumption`) holds the lemmas about the
turns of `persist`, for whatever storage: a step stays outside, takes a number,
writes in turn or passes the turn on, and each keeps `TurnsInv`: every batch
issued and not written has exactly one owner, and who is inside the storage has
the first open number.  `OneWriterInTurn` alone is not inductive: that nobody
else is inside rests on turns being distinct, and a new number's being new on all
the others lying at or below `storageIssued`.  It also says, once for both
storages, what a step does to three other things: to *memory* (what
is issued is what the change needs: `Changes`, `Told`), to the *records
still to be written* (`Unwritten` grows at its end by a batch that takes a
number, loses its first record when one is handled, and is the same otherwise),
and to the *errors*: `Clean` says that none is known or on its way to
`storageError`, and `OpenInv` that until a close the storage is there unless an
error is.

**JournalStoreProofs** (`JournalAssumption`): `JournalHasOneWriter` is
`JournalSpec => []OneWriterInTurn`, and `JournalTurnsAreOwned` is
`JournalSpec => []EveryTurnHasAnOwner`, with failing appends and compactions, a
clear that overtakes a close, and crashes at any step.

* `JournalFollowsMemory`: `JournalSpec => []JournalCatchesUp`, and
  `JournalDivergenceIsReported`: `JournalSpec => []DivergenceReported`, both from
  `JournalInv`.  What is true while nothing has failed is not enough for the
  second: `JournalInv` states the same for as long as all is `Clean`, which a
  failing write ends before it spoils anything.  And it states it for each snapshot
  that a compaction is about to install (`Follows`).
* Why a snapshot may be ahead: it holds the effect of batches that are appended
  after it and will be replayed again.  Two memories are *alike* but for some ids
  (`Alike`) when they agree on all the others and on their order.  Replaying a record
  leaves them alike but for the ids it does not touch (`RecordBringsCloser`,
  `ReplayingBringsCloser`), so after records that touch all ids in which the
  snapshot differs nothing is left of the difference (`ReplayedAgain`).  Order is stated as the
  relation `Before`: with the same entries it determines the sequence (`SameOrder`).
* A start makes a memory of what it reads back; one that drops nothing has
  the same memory, and one that does leaves `trimmed`, which the two properties exclude.

**ExternalStoreProofs**: `CursorsStayUnique`: `ExternalSpec => []CursorsUnique`,
and `ExternalHasOneWriter`.  That two rows never share a cursor follows from the
UNIQUE column.  That until something fails no row lies above the saved cursor
needs to know what is still queued: `InCursorOrder` says that the cursors in
a batch lie above the saved one and that those of an earlier turn lie below
those of a later one.  It holds because number and cursor are taken under the
same lock; turns are written in order by `TurnsInv`.

`TableFollowsMemory`: `ExternalSpec => []TableCatchesUp`, and
`TableDivergenceIsReported`: `ExternalSpec => []DivergenceReported`.  `TableInv`
states the first for as long as all is `Clean`.  A change writes to the table what
it does to memory (`ChangeWritten`), so what is written last and what is changed
now compose; that a record is never refused until something fails is `InCursorOrder` once
more.  A load that trims needs the table to be listed: rows with distinct cursors
have one ascending listing that names each of them once (`LoadOrderLists`), and
replacing one entry after the other makes the table of them (`LoadedIsTable`).
`LoadOrder` is written as the choice of that listing, and not with `SortSeq`,
whose definition the provers cannot open.

`CursorGoesOn`: `ExternalSpec => CursorContinues`.  The property compares the
cursors before and after a crash; `CountInv` says of every state that the cursor
is at most the saved one plus the number of records still to be written that carry
one.  Whoever counts the cursor on also issues such a record under the same lock
(`CountingIssues`), and the transaction that takes it from the queue saves a cursor
above the saved one (`InCursorOrder`).

**RequestCaptureProofs** (`CaptureAssumption`; requests are a finite set):
`SlotsAreExact`: `Spec => []SlotsExact`.  A successful swap must capture a
request that was not captured before, so `SlotsInv` adds that a goroutine in the
loop looks for a slot for a request of its own that is still a candidate.
`ChildrenComeFirst`: `Spec => []ChildrenBeforeRequest`, and `FateIsUnique`:
`Spec => []OneFate`.  Both are about the store and rest on where an entity is
before: in one buffer, in the hands of one goroutine, or recorded, and never in two
of these (`OnePlace`), with none lost on the way but what is left out (`NoneLost`) and a request behind
all that its buffer held (`RequestLast`).  `FatesInv` is their conjunction with
the types.  That a goroutine takes over the buffer completely is a fact about the
folds of `RecordsOf`: selecting kind by kind keeps every entity once, whatever
their order.

**ProfilingProofs** (`LifecycleAssumption`, `SpansAssumption`, and those of the
limits on bodies and plans) is about all executions of `Profiling`:

* `OneActiveDefault`: `Spec => []DefaultIsOpen`.  The invariant adds who holds the
  lock in which step of a release (`Locked`), that of the profilers handed out only
  the default one is open, but for the step between closing it and clearing the
  default (`OnlyDefaultOpen`), and that servers stop before their store closes
  (`ServersGoFirst`).
* `SpansFiledWhileServing`: `Spec => FiledWhileServing`, for any set of spans.
  The invariant (`RootServes`) is that the root of a trace is an HTTP request
  that has not ended, and is missing only before the first one or after some
  server of the trace has ended.
* `ResponseObservedAsSent`: `Spec => []ObservedAsSent`, for every limit on bodies,
  zero included, every set of statuses and every sequence of `WriteHeader`, `Write`,
  `Flush` and `Hijack` that ends in a return or a panic.  While the handler runs, the
  observer and net/http must agree on whether a final status has been sent and on which
  (`Agree`), unless it was 101 or the connection is gone, and on every byte
  offered (`BodyAsSent`): `ObservedInv`.
* `RecordedJustOnce`: `Spec => []RecordedOnce`.  `OperationInv` says for each point
  at which an operation can stand whether it can still record, what it has
  recorded for the attempts before this one, and what it has recorded if it has
  ended, seen or unseen.  That a plan marks what it lost or carries its error is about
  the readers, which sum bytes over a sequence of lines.

**ClientsProofs** (`ServerAssumption`, `ClientAssumption`, `BrowserAssumption`: the
limits are numbers, the kinds of callers disjoint; and `ClientsAssumption`: what
is stored has a class, and requests are named by numbers):

* Everything rests on what a page is (`PageIsNewest`): the newest of the wanted
  entries, in their order, and with `hasMore` exactly what is left out is older.
  `ListBefore` is a fold; that it finds this for every store is shown for its
  first k steps, for the smallest k for which it could fail.
* `RefusedOnlyByARestart`: `Spec => []ReauthSucceeds`; `WaitsReturnTheNext`: `Spec
  => WaitReturnsNext`; `ReportsAreWhole`: `Spec => ReportIsWhole`.  `ClientInv`
  says of every call under way what it knows.  Of the session: a call that
  has logged in once carries a cookie at least as new as the session at its
  beginning (`KnowsSession`), so that a second 401 proves a restart.  Of a wait:
  no match lies between where it began and where it goes on, unless it skipped
  some (`WaitsOn`).  Of a report: as long as the store has the request, the list
  holds what the store still has of the family it had when it was listed, or says that
  there is more, and then nothing it lists is older than what it leaves out
  (`HoldsFamily`).  The last two
  survive the steps of the server because entries only come with new
  cursors and leave from the oldest on (`Onward`).
* `StatsForgetNothing`: `Spec => ForgetsOnlyRetired`.  `BrowserInv` says that of
  every pair of numbers on its way, n entries and cursor u, u − n lies below
  all that is stored (`Base`), because only the oldest entries leave, and
  that what the browser shows is finite.  If statistics remove a stored
  entry c, the n that stay are above it; had they all counted, they would be among
  the cursors from c + 1 to u, of which there are u − c < n
  (`NotMoreThanCursors`, `CountedAgainst`).

**Induction.**  The induction theorems of the library take an operator as
parameter and cannot be used.  What the proofs need of the folds (sizes,
selections, pages, lines of a plan) is proved by the least number of steps for
which it fails, which exists because the natural numbers are well founded (`WFMin`).

**Only model-checked**: what a crash and a start leave of what was acknowledged
(`AcknowledgedSurvives`: what is trimmed at the start is counted in a memory that
is not the one before); which entries a browser lacks (`GapsHaveAReason`);
`SlotSearchEnds`, `RetainedIsRecorded` and `WaitCatchesMatch`, which are or contain liveness;
the analysis (recursive functions over trees of entries,
`SelectSeq`, `SortSeq`); the times of a handler (`WorkPartition`, a statement on unions of intervals).  Liveness under fairness stays with TLC: it is
out of the prover's reach, as is ENABLED.

## 6. Findings

1. **Replay after a crash may not be in cursor order** (`journal_order`).  A
   compaction snapshots the whole memory while later batches are still queued;
   these then append their puts again.  A crash between two of them leaves, say,
   a snapshot with entries of cursors 2 and 3 followed by the put of 2 alone:
   the replay moves it behind 3.  Listings walk the order backwards as "newest
   first".  No entry is lost (`JournalCatchesUp`, `AcknowledgedSurvives`).
2. **A clear that overtakes the second half of close** (`clear_during_close`) is
   issued a batch that finds the storage gone, returns as if it had been
   written, and the rows are back at the next start, although
   `docs/configuration.md` promises that "Clear and eviction also delete persisted
   rows".
3. **An entity logged after `Finish` of a rejected request** (`late_entity`) is
   recorded, although the retention rules are documented as deciding about a
   request "and all of its related entities" (`options.go:34-35`).
4. **The EXPLAIN of the pgx tracer is traced as the query again** (`plan_query`).
   `runExplain` derives the context of the EXPLAIN from that of the query, and
   `TraceQueryStart` returns it unchanged, still holding the query's trace;
   `TraceQueryEnd` (`profiler_pgx.go:92`) finds it, records the EXPLAIN as the
   query and explains it in its turn.  `profiler/pgx/explain.go:70` says "Mark
   the nested plan query so this tracer does not record it recursively."

Three more disagreements are excepted by name in properties that hold otherwise;
no run is spent on each alone:

* **Load older events may skip entries** (`gaps.passed`, an exception of
  `GapsHaveAReason`).  `loadMoreEvents` asks for
  what is older than the smallest cursor of all that is shown (`app.js:548`).
  `loadExecutionScope` adds the entries of an execution however old they are, and
  `togglePause` those held back since before a new login; if one of them lies below
  the list, the next page lies below it, and no further page has the entries
  between.  `docs/configuration.md:230` says "**Load older events** requests the next
  server page".
* **A response that switches protocols is captured as 200** (`SwitchingProtocols`, an
  exception of `ObservedAsSent`).
  The observer passes every status from 100 to 199 on as informational
  (`middleware.go:225`), but net/http sends 101 as a final one.
  `docs/event-reference.md:12` lists the status among what a request records, and
  `docs/configuration.md:198` offers to filter by an "Exact HTTP status from 100 through
  599".
* **A client-streaming call that succeeds is not recorded** (`Unrecorded`, an exception
  of `RecordedOnce`).  It ends
  with its only message and no error, and `RecvMsg` records at an error only,
  although `profiler/grpc/profiler_grpc.go:106` says that the interceptor
  "profiles a streaming client call when the stream finishes".

Met while modelling, without a document, comment or test that says otherwise:

* The browser asks for its first page before it connects, and does not ask again
  after a reconnection: what was stored in between stays missing until an older
  page or a new login brings it (`gaps.away`).
* With authentication off and a store in memory, a restart leaves entries with
  high cursors on display, and statistics make the browser drop the
  new ones, whose cursors are lower (`ForgetsOnlyRetired`'s `numbering`).  Statistics that
  arrive late can take a stored entry in favour of one that an execution brought.
* The answer to the browser's own DELETE empties the view again, and of entries stored
  since; they come back with a new login only (`gaps.forgotten`).
* A clear leaves what a pause holds back, and resuming shows it again.
* A query that `database/sql` repeats after `ErrBadConn` is recorded once for each attempt.
* An answer with older entries that is under way across a clear adds cleared
  entries until the next statistics.
* `WaitForRequestOptions.matches` compares paths case by case (`client/types.go:103`)
  while the server's filter does not: the class "folded" of EventServer.  A
  wait with more than a page of matches between two polls, and one whose cursor
  lies beyond a restarted server's, are the exceptions of `WaitReturnsNext` and `WaitCatchesMatch`.
* `Start` may report that the profiler is initialized without a server when the
  profiler shuts down between the unlock and `URL`; the port may stay bound for a
  moment after `Close` if serving had not begun; `New` on a router that already has the handlers
  panics after the store has been opened.
* The plan reader of `profiler/sql` marks a plan of exactly the maximal number of
  rows as cut; those of GORM, Bun and pgx look one row ahead.
* A gRPC stream whose caller goes away (`StreamAbandoned`) is not recorded, nor are
  rows that are never closed, nor an entity that cannot be encoded.  The Kafka writer records a failure with
  the state "dispatched".  A panic of a handler is recorded as 500 whatever was
  sent.  An end of a nested server span removes the root of the outer one.

## 7. Not modelled

* Failures to *open* the journal: the store then runs without one and says so.
  Rows that cannot be decoded, and clock adjustments.
* Redaction (a rewriting of values by patterns of names), the normal form of SQL
  statements and call sites, formatting and wording, severities of
  findings: conversions that no property here depends on.  Of the encoding only that it
  may fail (`Unencodable`).
* The order in which a replay leaves the entries is JournalStore's; the clients are
  checked and proved about with a server whose entries are in the order of their cursors, the
  order that finding 1 shows a crash can disturb.
* Imported sessions in the browser, which are not live.
* The dashboard, runtime samples and queue statistics: sampled on demand, without
  state beyond the registered sources.
* Configuration: options are constants, their clamps the assumptions on these.
* Most filters of a listing (kinds, text, status): they select, like the two that
  are modelled.  Rendering and grouping in the browser.  The comparisons of the
  MCP service, which keeps no state.
* Trace identifiers that travel with a job, and the job that goqueue's
  `OnQueue` and `OnConnection` change in place.
* chi's adapter, which adds a route pattern and nothing else; examples and
  scripts.

## 8. Plan

Done, in this order: EntryFifo/EntryOrder, EntryStore, Persist, JournalStore,
ExternalStore, RequestCapture, EntryOrderProofs, EntryStoreProofs; EventServer,
EventBrowser, ApiClient, Clients; Analysis, Operations, HandlerTiming,
Lifecycle, OtelSpans, Profiling; the proofs of these and of Persist's turns.
What could follow:

1. That EventServer's `Put` and `Broadcast` are what EntryStore does in several steps, as a
   refinement.
2. Trace identifiers of queues, from dispatch to the job's own entries.
