---------------------------- MODULE ExternalStore ----------------------------
(***************************************************************************)
(* The event store over an EntryStorage (WithStorage, storage.go), with    *)
(* the SQLite backend: a table of entries with unique cursors and the last *)
(* cursor, each call one transaction that happens or fails, a crash at any *)
(* moment, and the load at the next start.                                 *)
(***************************************************************************)
EXTENDS Persist

VARIABLES
    rows,          \* the table webpprof_entries, by entry id
    savedCursor    \* next_cursor in webpprof_meta

externalVars == <<rows, savedCursor>>
allVars == <<vars, faultVars, externalVars>>

NoRows == [id \in {} |-> 0]

-----------------------------------------------------------------------------
(* What the backend does with one record                                   *)

\* Mutant: the column is not UNIQUE.
CursorNeverTaken(table, entry) == FALSE

\* cursor is UNIQUE: another row that has it makes the transaction fail.
CursorTaken(table, entry) ==
    \E id \in DOMAIN table \ {entry.id} : table[id].cursor = entry.cursor

Upserted(table, entry) ==
    [id \in DOMAIN table \cup {entry.id} |->
       IF id = entry.id THEN entry ELSE table[id]]

Deleted(table, id) == [x \in DOMAIN table \ {id} |-> table[x]]

AfterRecord(table, record) ==
    CASE record.op = "put"    -> Upserted(table, record.entry)
      [] record.op = "delete" -> Deleted(table, record.id)
      [] record.op = "clear"  -> NoRows

\* Mutant: a clear does not save its cursor.
CursorAfterPut(cursor, record) ==
    IF record.op = "put" THEN record.entry.cursor ELSE cursor

\* The cursor saved with a put is that of the entry.
CursorAfter(cursor, record) ==
    CASE record.op = "put"    -> record.entry.cursor
      [] record.op = "delete" -> cursor
      [] record.op = "clear"  -> record.cursor

Refused(table, record) == record.op = "put" /\ CursorTaken(table, record.entry)

CallSucceeds(p) ==
    /\ MayWrite(p)
    /\ handle
    /\ LET record == Head(call[p].records)
       IN  /\ ~Refused(rows, record)
           /\ rows' = AfterRecord(rows, record)
           /\ savedCursor' = CursorAfter(savedCursor, record)
    /\ Continue(p, Tail(call[p].records), FALSE)
    /\ UNCHANGED <<outsideVars, handle, storageDone, faultVars>>

\* The transaction is rolled back; the batch goes on with its next record.
CallFails(p) ==
    /\ MayWrite(p)
    /\ handle
    /\ IF Refused(rows, Head(call[p].records)) THEN UNCHANGED faults ELSE Fault
    /\ Continue(p, Tail(call[p].records), TRUE)
    /\ UNCHANGED <<outsideVars, handle, storageDone, storageError, restarts,
                   externalVars>>

\* persistRecord after close has set storage to nil.
CallNowhere(p) ==
    /\ MayWrite(p)
    /\ ~handle
    /\ Continue(p, Tail(call[p].records), FALSE)
    /\ UNCHANGED <<outsideVars, handle, storageDone, faultVars, externalVars>>

-----------------------------------------------------------------------------
(* openExternalStorage                                                     *)

\* Load returns the rows in ascending cursor order.
LoadOrder(table) ==
    CHOOSE s \in [1..Cardinality(DOMAIN table) -> DOMAIN table] :
        \A i, j \in DOMAIN s : i < j => table[s[i]].cursor < table[s[j]].cursor

Loaded(table) ==
    FoldLeft(LAMBDA m, id : Replace(m, table[id]), EmptyMemory, LoadOrder(table))

\* The highest cursor of the entries, or the saved one if it is higher.
LoadedCursor(table, cursor) ==
    Max({cursor} \cup {table[id].cursor : id \in DOMAIN table})

\* Mutant: the rows dropped at the start stay in the table.
RowsKept(gone) == rows

RowsWithout(gone) == [id \in DOMAIN rows \ gone |-> rows[id]]

\* The entries loaded are trimmed, and the deletions persisted on the spot;
\* one of them may fail, and its row stays.
Open(table, cursor) ==
    /\ nextCursor' = LoadedCursor(table, cursor)
    /\ \E k, e \in 0..Cardinality(DOMAIN table) :
         LET loaded == Loaded(table)
             gone   == {loaded.order[i] : i \in 1..(k + e)}
         IN  /\ Trimmed(loaded, k, e)
             /\ memory' = DropOldest(DropOldest(loaded, k), e)
             /\ evicted' = k + e
             /\ \/ /\ rows' = RowsWithout(gone)
                   /\ storageError' = FALSE
                   /\ UNCHANGED faults
                \/ \E kept \in gone :
                     /\ rows' = RowsWithout(gone \ {kept})
                     /\ storageError' = TRUE
                     /\ Fault
    /\ UNCHANGED savedCursor

\* Load succeeds, or fails and leaves memory empty at cursor 0; the storage
\* is used all the same.
Restart ==
    /\ FreshProcess
    /\ \/ Open(rows, savedCursor)
       \/ /\ Fault
          /\ memory' = EmptyMemory /\ nextCursor' = 0 /\ evicted' = 0
          /\ storageError' = TRUE
          /\ UNCHANGED externalVars

-----------------------------------------------------------------------------
ExternalInit == PersistInit /\ rows = NoRows /\ savedCursor = 0

ExternalStep(p) ==
    \/ CallSucceeds(p) \/ CallFails(p) \/ CallNowhere(p)
    \/ (FinishPersist(p) \/ ReportError(p) \/ CloseStorage(p, FALSE))
         /\ UNCHANGED externalVars

ExternalNext ==
    \/ \E p \in Procs : MemoryStep(p) /\ UNCHANGED <<faultVars, externalVars>>
    \/ \E p \in Procs : ExternalStep(p)
    \/ (StreamStep \/ Tick) /\ UNCHANGED <<faultVars, externalVars>>
    \/ Restart

ExternalSpec == ExternalInit /\ [][ExternalNext]_allVars

-----------------------------------------------------------------------------
\* The table with the records still to be written is memory, at every moment:
\* between two transactions of a batch, after a crash and a load that trims.
TableCatchesUp ==
    (handle /\ faults = 0) =>
        FoldLeft(AfterRecord, rows, Unwritten) = memory.entries

\* Once every call has returned, a table that is not memory has been reported
\* in storageError.
DivergenceReported ==
    (~isClosed /\ CallsReturned) => storageError \/ rows = memory.entries

\* How many of the records carry a cursor: an entry's, or a clear's.
CursorsIn(records) ==
    Cardinality({i \in DOMAIN records : records[i].op # "delete"})

\* A restart goes on from the cursor of the last entry or clear whose call
\* has returned: "preserve the supplied monotonic cursor across restarts"
\* (storage.go).  Only what was still to be written may be counted again.
CursorContinues ==
    [][restarts' > restarts /\ faults' = 0 /\ handle =>
        nextCursor' + CursorsIn(Unwritten) >= nextCursor]_allVars

\* Cursors are unique in the table whatever fails, and none is above the
\* saved one as long as nothing has failed.
CursorsUnique ==
    \A a, b \in DOMAIN rows :
        /\ rows[a].cursor = rows[b].cursor => a = b
        /\ faults = 0 => rows[a].cursor <= savedCursor

\* A clear that is handled without an error leaves no row: "Clear and eviction
\* also delete persisted rows" (docs/configuration.md).
HandlesClear(p) ==
    /\ InPersist(p) /\ call[p].records # <<>>
    /\ Head(call[p].records).op = "clear"
    /\ call'[p].at = "io" /\ call'[p].records = Tail(call[p].records)

ClearDeletesRows ==
    [][\A p \in Procs :
        HandlesClear(p) /\ ~call'[p].failed => DOMAIN rows' = {}]_allVars
=============================================================================
