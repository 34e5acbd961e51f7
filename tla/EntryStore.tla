----------------------------- MODULE EntryStore ------------------------------
(***************************************************************************)
(* The in-memory event store (store.go).  Every exported operation is one  *)
(* critical section under entryStore.mu followed, outside the lock, by     *)
(* persist: the batch of storage records issued inside the section waits   *)
(* for its turn and is handed to the storage in the order of issue.  Here  *)
(* handing a batch over is one step; JournalStore and ExternalStore open   *)
(* it up.                                                                  *)
(***************************************************************************)
EXTENDS Naturals, Sequences, FiniteSets, FiniteSetsExt

CONSTANTS
    Procs,             \* goroutines calling the store
    Ids,               \* entry identifiers
    Sizes,             \* entrySize of the recorded entries
    Durable,           \* TRUE when a storage is configured
    MaxEvents,         \* config.maxEvents
    MaxBytes,          \* config.maxBytes
    Retention,         \* config.retention
    StreamBuffer,      \* config.streamBuffer, capacity of a subscription
    MaxCursor,         \* bound on nextCursor
    MaxTime,           \* bound on the clock
    MaxDropped,        \* bound on the entries refused for their size
    MaxSubscribers     \* bound on nextSubscriber

\* options.go replaces every limit that is not positive by its default.
ASSUME StoreAssumption ==
    /\ Durable \in BOOLEAN
    /\ MaxEvents \in Nat \ {0}
    /\ MaxBytes \in Nat \ {0}
    /\ StreamBuffer \in Nat \ {0}
    /\ Retention \in Nat
    /\ Sizes \subseteq Nat
    /\ {MaxCursor, MaxTime, MaxDropped, MaxSubscribers} \subseteq Nat

VARIABLES
    memory,          \* entries, order and bytes
    nextCursor,
    dropped,
    evicted,
    subscribers,     \* the subscriptions in entryStore.subscribers
    channel,         \* per subscription made so far, the buffered messages
    seen,            \* per subscription, the last cursor its reader received
    nextSubscriber,
    isClosed,
    handle,          \* storageFile (or storage) is not nil
    storageIssued,
    storageDone,
    call,            \* what each goroutine is doing
    now              \* the clock

memoryVars == <<memory, nextCursor, dropped, evicted>>
streamVars == <<subscribers, channel, seen, nextSubscriber>>
storageVars == <<handle, storageIssued, storageDone>>
vars == <<memoryVars, streamVars, isClosed, storageVars, call, now>>

-----------------------------------------------------------------------------
(* The indexed entries: a memory m is [entries, order, bytes].             *)

EmptyMemory == [entries |-> [id \in {} |-> 0], order |-> <<>>, bytes |-> 0]

Stored(m) == DOMAIN m.entries

SizeOf(m, ids) == MapThenSumSet(LAMBDA id : m.entries[id].size, ids)

\* Mutant: entries leave at the wrong end.
DropNewest(m, k) ==
    LET n    == Len(m.order) - k
        gone == {m.order[i] : i \in (n + 1)..Len(m.order)}
    IN  [entries |-> [id \in Stored(m) \ gone |-> m.entries[id]],
         order   |-> SubSeq(m.order, 1, n),
         bytes   |-> m.bytes - SizeOf(m, gone)]

\* removeOldestLocked, k times.
DropOldest(m, k) ==
    LET gone == {m.order[i] : i \in 1..k}
    IN  [entries |-> [id \in Stored(m) \ gone |-> m.entries[id]],
         order   |-> SubSeq(m.order, k + 1, Len(m.order)),
         bytes   |-> m.bytes - SizeOf(m, gone)]

\* Mutant: the order is not told.
ForgetKeepingPlace(m, id) ==
    IF id \notin Stored(m) THEN m
    ELSE [entries |-> [x \in Stored(m) \ {id} |-> m.entries[x]],
          order   |-> m.order,
          bytes   |-> m.bytes - m.entries[id].size]

\* removeMemoryLocked, and the first half of replacing an entry.
Forget(m, id) ==
    IF id \notin Stored(m) THEN m
    ELSE LET k == CHOOSE i \in 1..Len(m.order) : m.order[i] = id
         IN  [entries |-> [x \in Stored(m) \ {id} |-> m.entries[x]],
              order   |-> [i \in 1..(Len(m.order) - 1) |->
                             IF i < k THEN m.order[i] ELSE m.order[i + 1]],
              bytes   |-> m.bytes - m.entries[id].size]

\* The other half: the entry becomes the newest.
Insert(m, entry) ==
    [entries |-> [x \in Stored(m) \cup {entry.id} |->
                    IF x = entry.id THEN entry ELSE m.entries[x]],
     order   |-> Append(m.order, entry.id),
     bytes   |-> m.bytes + entry.size]

\* Mutant: an updated entry keeps its place.
ReplaceInPlace(m, entry) ==
    IF entry.id \notin Stored(m) THEN Insert(m, entry)
    ELSE [entries |-> [m.entries EXCEPT ![entry.id] = entry],
          order   |-> m.order,
          bytes   |-> m.bytes - m.entries[entry.id].size + entry.size]

Replace(m, entry) == Insert(Forget(m, entry.id), entry)

Expired(m, i) == m.entries[m.order[i]].recordedAt + Retention < now

\* purgeExpiredLocked stops at the first entry that has not expired.
PurgeCount(m, k) ==
    /\ k \in 0..Len(m.order)
    /\ \A i \in 1..k : Expired(m, i)
    /\ k < Len(m.order) => ~Expired(m, k + 1)

WithinLimits(m) == Len(m.order) <= MaxEvents /\ m.bytes <= MaxBytes

\* Mutant: only the number of entries is limited.
EvictCountOnly(m, k) ==
    /\ k \in 0..Len(m.order)
    /\ Len(m.order) - k <= MaxEvents
    /\ \A i \in 0..(k - 1) : Len(m.order) - i > MaxEvents

\* evictLocked removes from the front until the limits hold.
EvictCount(m, k) ==
    /\ k \in 0..Len(m.order)
    /\ WithinLimits(DropOldest(m, k))
    /\ \A i \in 0..(k - 1) : ~WithinLimits(DropOldest(m, i))

-----------------------------------------------------------------------------
(* Storage records and batches                                             *)

\* Mutant: the entry removed last is not recorded.
DeleteRecordsButLast(m, k) ==
    [i \in 1..(k - 1) |-> [op |-> "delete", id |-> m.order[i]]]

DeleteRecords(m, k) ==
    [i \in 1..k |-> [op |-> "delete", id |-> m.order[i]]]

PutRecord(entry) == [op |-> "put", entry |-> entry]

ClearRecord(cursor) == [op |-> "clear", cursor |-> cursor]

Idle == [at |-> "idle"]

\* storageBatchLocked, read without storageMu: once the storage is closed a
\* goroutine may still see the handle it had before (a data race).
HandleSeen == {handle, Durable}

\* Mutant: the batch takes the number of the one before it.
IssueBatchUnnumbered(p, records) ==
    IF records # <<>> /\ handle
    THEN /\ storageIssued' = storageIssued + 1
         /\ call' = [call EXCEPT ![p] =
               [at |-> "persist", sequence |-> storageIssued, records |-> records]]
    ELSE /\ call' = [call EXCEPT ![p] = Idle]
         /\ UNCHANGED storageIssued

IssueBatch(p, records) ==
    \E seesHandle \in HandleSeen :
        IF records # <<>> /\ seesHandle
        THEN /\ storageIssued' = storageIssued + 1
             /\ call' = [call EXCEPT ![p] =
                   [at |-> "persist", sequence |-> storageIssued + 1,
                    records |-> records]]
        ELSE /\ call' = [call EXCEPT ![p] = Idle]
             /\ UNCHANGED storageIssued

-----------------------------------------------------------------------------
(* Subscriptions                                                           *)

\* Mutant: a full subscription misses the message and stays.
BroadcastLossy(message) ==
    /\ channel' = [s \in DOMAIN channel |->
                     IF s \in subscribers /\ Len(channel[s]) < StreamBuffer
                     THEN Append(channel[s], message) ELSE channel[s]]
    /\ UNCHANGED <<subscribers, seen, nextSubscriber>>

\* broadcastLocked: a full subscription is removed and its channel closed.
Broadcast(message) ==
    LET full == {s \in subscribers : Len(channel[s]) >= StreamBuffer}
    IN  /\ subscribers' = subscribers \ full
        /\ channel' = [s \in DOMAIN channel |->
                         IF s \in subscribers \ full
                         THEN Append(channel[s], message) ELSE channel[s]]
        /\ UNCHANGED <<seen, nextSubscriber>>

\* Messages that announce a dropped entry carry no cursor.
Message(type, cursor) == [type |-> type, cursor |-> cursor]

Subscribe ==
    /\ ~isClosed
    /\ nextSubscriber < MaxSubscribers
    /\ nextSubscriber' = nextSubscriber + 1
    /\ subscribers' = subscribers \cup {nextSubscriber'}
    /\ channel' = [s \in DOMAIN channel \cup {nextSubscriber'} |->
                     IF s = nextSubscriber' THEN <<>> ELSE channel[s]]
    /\ seen' = [s \in DOMAIN seen \cup {nextSubscriber'} |->
                  IF s = nextSubscriber' THEN nextCursor ELSE seen[s]]
    /\ UNCHANGED <<memoryVars, isClosed, storageVars, call, now>>

Unsubscribe(s) ==
    /\ s \in subscribers
    /\ subscribers' = subscribers \ {s}
    /\ UNCHANGED <<memoryVars, channel, seen, nextSubscriber, isClosed,
                   storageVars, call, now>>

\* The reader of a subscription takes a message; a closed channel still
\* hands out what was buffered.
Receive(s) ==
    /\ s \in DOMAIN channel
    /\ channel[s] # <<>>
    /\ channel' = [channel EXCEPT ![s] = Tail(@)]
    /\ seen' = [seen EXCEPT ![s] =
                  IF Head(channel[s]).cursor = 0 THEN @
                  ELSE Head(channel[s]).cursor]
    /\ UNCHANGED <<memoryVars, subscribers, nextSubscriber, isClosed,
                   storageVars, call, now>>

-----------------------------------------------------------------------------
(* Operations                                                              *)

\* Profiler.record stamps the entry before the store is locked.
BeginRecord(p, id, size) ==
    /\ call[p] = Idle
    /\ call' = [call EXCEPT ![p] =
          [at |-> "put", id |-> id, size |-> size, recordedAt |-> now]]
    /\ UNCHANGED <<memoryVars, streamVars, isClosed, storageVars, now>>

PutAfterClose(p) ==
    /\ call[p].at = "put"
    /\ isClosed
    /\ call' = [call EXCEPT ![p] = Idle]
    /\ UNCHANGED <<memoryVars, streamVars, isClosed, storageVars, now>>

\* Mutant: no entry is refused for its size.
FitsAlways(size) == TRUE

Fits(size) == size <= MaxBytes

\* An entry that exceeds maxBytes by itself is refused after the purge.
PutTooLarge(p) ==
    /\ call[p].at = "put"
    /\ ~isClosed
    /\ ~Fits(call[p].size)
    /\ dropped < MaxDropped
    /\ \E k \in 0..Len(memory.order) :
         /\ PurgeCount(memory, k)
         /\ memory' = DropOldest(memory, k)
         /\ evicted' = evicted + k
         /\ IssueBatch(p, DeleteRecords(memory, k))
    /\ dropped' = dropped + 1
    /\ Broadcast(Message("events.dropped", 0))
    /\ UNCHANGED <<nextCursor, isClosed, handle, storageDone, now>>

Put(p) ==
    /\ call[p].at = "put"
    /\ ~isClosed
    /\ Fits(call[p].size)
    /\ nextCursor < MaxCursor
    /\ LET entry == [id |-> call[p].id, size |-> call[p].size,
                     recordedAt |-> call[p].recordedAt,
                     cursor |-> nextCursor + 1]
       IN  \E k \in 0..Len(memory.order) :
             /\ PurgeCount(memory, k)
             /\ LET purged   == DropOldest(memory, k)
                    replaced == Replace(purged, entry)
                    known    == entry.id \in Stored(purged)
                IN  \E e \in 0..Len(replaced.order) :
                      /\ EvictCount(replaced, e)
                      /\ memory' = DropOldest(replaced, e)
                      /\ evicted' = evicted + k + e
                      /\ IssueBatch(p, DeleteRecords(memory, k)
                                       \o DeleteRecords(replaced, e)
                                       \o <<PutRecord(entry)>>)
                      /\ Broadcast(Message(IF known THEN "event.updated"
                                           ELSE "event.created", entry.cursor))
             /\ nextCursor' = entry.cursor
    /\ UNCHANGED <<dropped, isClosed, handle, storageDone, now>>

\* list, get, requestEntries, scopeEntries and stats purge before they read.
Read(p) ==
    /\ call[p] = Idle
    /\ \E k \in 1..Len(memory.order) :
         /\ PurgeCount(memory, k)
         /\ memory' = DropOldest(memory, k)
         /\ evicted' = evicted + k
         /\ IssueBatch(p, DeleteRecords(memory, k))
    /\ UNCHANGED <<nextCursor, dropped, streamVars, isClosed, handle,
                   storageDone, now>>

\* clear does not look at isClosed.
Clear(p) ==
    /\ call[p] = Idle
    /\ nextCursor < MaxCursor
    /\ memory' = EmptyMemory
    /\ nextCursor' = nextCursor + 1
    /\ IssueBatch(p, <<ClearRecord(nextCursor')>>)
    /\ Broadcast(Message("events.cleared", nextCursor'))
    /\ UNCHANGED <<dropped, evicted, isClosed, handle, storageDone, now>>

\* close, first half: under mu it closes every subscription and notes which
\* batches have been issued.
Close(p) ==
    /\ call[p] = Idle
    /\ ~isClosed
    /\ isClosed' = TRUE
    /\ subscribers' = {}
    /\ call' = [call EXCEPT ![p] = [at |-> "closing", issued |-> storageIssued]]
    /\ UNCHANGED <<memoryVars, channel, seen, nextSubscriber, storageVars, now>>

\* Mutant: off by one.
LaterBatchesDone(p) == storageDone > call[p].issued

\* close, second half: once those batches are done the storage goes away.
IssuedBatchesDone(p) == storageDone >= call[p].issued

FinishClose(p) ==
    /\ call[p].at = "closing"
    /\ IssuedBatchesDone(p)
    /\ handle' = FALSE
    /\ call' = [call EXCEPT ![p] = Idle]
    /\ UNCHANGED <<memoryVars, streamVars, isClosed, storageIssued,
                   storageDone, now>>

\* Mutant: nobody waits.
HasAnyTurn(p) == call[p].at = "persist"

\* persist waits on storageCond until every earlier batch is done.
HasTurn(p) ==
    /\ call[p].at = "persist"
    /\ call[p].sequence = storageDone + 1

Persist(p) ==
    /\ HasTurn(p)
    /\ storageDone' = call[p].sequence
    /\ call' = [call EXCEPT ![p] = Idle]
    /\ UNCHANGED <<memoryVars, streamVars, isClosed, handle, storageIssued, now>>

Tick ==
    /\ now < MaxTime
    /\ now' = now + 1
    /\ UNCHANGED <<memoryVars, streamVars, isClosed, storageVars, call>>

-----------------------------------------------------------------------------
Init ==
    /\ memory = EmptyMemory
    /\ nextCursor = 0 /\ dropped = 0 /\ evicted = 0
    /\ subscribers = {} /\ nextSubscriber = 0
    /\ channel = [s \in {} |-> <<>>] /\ seen = [s \in {} |-> 0]
    /\ isClosed = FALSE
    /\ handle = Durable /\ storageIssued = 0 /\ storageDone = 0
    /\ call = [p \in Procs |-> Idle]
    /\ now = 0

\* What happens under mu, whatever the storage does.
MemoryStep(p) ==
    \/ \E id \in Ids, size \in Sizes : BeginRecord(p, id, size)
    \/ PutAfterClose(p) \/ PutTooLarge(p) \/ Put(p)
    \/ Read(p) \/ Clear(p) \/ Close(p)

StreamStep ==
    \/ Subscribe
    \/ \E s \in 1..MaxSubscribers : Unsubscribe(s) \/ Receive(s)

Next ==
    \/ \E p \in Procs : MemoryStep(p) \/ Persist(p) \/ FinishClose(p)
    \/ StreamStep
    \/ Tick

Spec == Init /\ [][Next]_vars

-----------------------------------------------------------------------------
\* The insertion order lists every stored entry once and nothing else, so
\* that eviction, listing and compaction, which all walk the order, reach
\* every entry (store.go: entries and order change together in put,
\* removeOldestLocked, removeMemoryLocked, clear).
OrderExact ==
    /\ {memory.order[i] : i \in 1..Len(memory.order)} = Stored(memory)
    /\ \A i, j \in 1..Len(memory.order) :
         memory.order[i] = memory.order[j] => i = j

\* The order is the cursor order, whatever was replaced, purged or evicted:
\* listBeforeFiltered walks it backwards as "newest first".
CursorsAscend ==
    /\ \A i, j \in 1..Len(memory.order) : i < j =>
         memory.entries[memory.order[i]].cursor
           < memory.entries[memory.order[j]].cursor
    /\ \A id \in Stored(memory) : memory.entries[id].cursor <= nextCursor

\* The running byte count is the size of what is stored: the subtraction and
\* addition on every path (replace, purge, evict, clear) balance.
BytesExact == memory.bytes = SizeOf(memory, Stored(memory))

\* The entries, their order and their byte count say the same on every path.
IndexesAgree == OrderExact /\ BytesExact

\* Whoever takes the lock next finds the store within its limits.
LimitsHold == WithinLimits(memory)

\* A subscription misses nothing: what is buffered continues, without a gap
\* or a repetition, from what its reader has received, and reaches the
\* current cursor as long as the subscription has not been dropped.
Announced(s) ==
    LET withCursor == {i \in 1..Len(channel[s]) : channel[s][i].cursor # 0}
    IN  {channel[s][i].cursor : i \in withCursor}

StreamContiguous ==
    \A s \in DOMAIN channel :
        /\ \A i, j \in 1..Len(channel[s]) :
             i < j /\ channel[s][i].cursor # 0 /\ channel[s][j].cursor # 0
               => channel[s][i].cursor < channel[s][j].cursor
        /\ Announced(s) = (seen[s] + 1)..(seen[s] + Cardinality(Announced(s)))
        /\ s \in subscribers => seen[s] + Cardinality(Announced(s)) = nextCursor

\* Entries leave oldest first: when an entry is purged or evicted, every
\* entry with a smaller cursor leaves too, unless it is the one replaced.
RetiresOldestFirst ==
    [][\A a, b \in Stored(memory) :
        /\ a \notin Stored(memory')
        /\ memory.entries[b].cursor < memory.entries[a].cursor
        => \/ b \notin Stored(memory')
           \/ memory'.entries[b].cursor # memory.entries[b].cursor]_vars

\* An accepted entry is in the store when put unlocks: making room for it
\* never evicts the entry itself (evictLocked pops from the other end).
AcceptedEntryIsStored ==
    [][\A p \in Procs :
        call[p].at = "put" /\ nextCursor' > nextCursor /\ call'[p] # call[p]
          => \E id \in Stored(memory') :
               /\ memory'.entries[id].cursor = nextCursor'
               /\ memory'.entries[id].recordedAt = call[p].recordedAt]_vars
=============================================================================
