---------------------------- MODULE JournalStore -----------------------------
(***************************************************************************)
(* The event store over the append-only journal (WithStoragePath): the     *)
(* writes of a batch, the compaction that replaces the file by a snapshot  *)
(* of memory, I/O failures, a crash at any moment and the replay at the    *)
(* next start.                                                             *)
(***************************************************************************)
EXTENDS Persist

CONSTANT CompactAbove  \* journal length, in records, above which it is compacted

ASSUME JournalAssumption == CompactAbove \in Nat

VARIABLES
    disk,          \* the journal file, a sequence of records
    fileOpen,      \* the descriptor in storageFile has not been closed
    trimmed        \* the last start dropped entries it had replayed

journalVars == <<disk, fileOpen, trimmed>>
allVars == <<vars, faultVars, journalVars>>

\* What a write that fails half way leaves behind; no record decodes from it.
Garbage == [op |-> "garbage"]

\* A compaction that is due, in the list of what a batch has left to do.
Compaction == [op |-> "compact"]

-----------------------------------------------------------------------------
(* Replay                                                                  *)

ReplayRecord(m, record) ==
    CASE record.op = "clear"   -> EmptyMemory
      [] record.op = "delete"  -> Forget(m, record.id)
      [] record.op = "put"     -> Replace(m, record.entry)
      [] record.op = "compact" -> m

Replay(records) == FoldLeft(ReplayRecord, EmptyMemory, records)

\* The decoder stops at the first thing it cannot decode.
FirstBad(records) == SelectInSeq(records, LAMBDA r : r = Garbage)

Decodable(records) == FirstBad(records) = 0

LastGood(records) ==
    IF Decodable(records) THEN records ELSE SubSeq(records, 1, FirstBad(records) - 1)

\* Only entries carry the cursor back: the cursor of a clear is not replayed.
ReplayedCursor(records) ==
    Max({0} \cup {records[i].entry.cursor :
                    i \in {j \in 1..Len(records) : records[j].op = "put"}})

-----------------------------------------------------------------------------
(* persistRecord                                                           *)

NextIsRecord(p) == MayWrite(p) /\ Head(call[p].records) # Compaction

\* A clear compacts in any case, after a compaction for the length if due.
DueCompactions(record, length) ==
    (IF length > CompactAbove THEN <<Compaction>> ELSE <<>>)
      \o (IF record.op = "clear" THEN <<Compaction>> ELSE <<>>)

AppendRecord(p) ==
    /\ NextIsRecord(p)
    /\ handle /\ fileOpen
    /\ LET record == Head(call[p].records)
       IN  /\ disk' = Append(disk, record)
           /\ Continue(p, DueCompactions(record, Len(disk')) \o Tail(call[p].records),
                       FALSE)
    /\ UNCHANGED <<outsideVars, handle, storageDone, faultVars, fileOpen, trimmed>>

\* A failing write leaves nothing, a fragment, or all but the newline.
AppendFails(p) ==
    /\ NextIsRecord(p)
    /\ handle
    /\ \/ /\ fileOpen
          /\ Fault
          /\ \E part \in {<<>>, <<Garbage>>, <<Head(call[p].records)>>} :
               disk' = disk \o part
       \/ /\ ~fileOpen
          /\ UNCHANGED <<disk, faults>>
    /\ Continue(p, Tail(call[p].records), TRUE)
    /\ UNCHANGED <<outsideVars, handle, storageDone, storageError, restarts,
                   fileOpen, trimmed>>

\* Without a file appendJournal and compactJournal return no error.
AppendNowhere(p) ==
    /\ MayWrite(p)
    /\ ~handle
    /\ Continue(p, Tail(call[p].records), FALSE)
    /\ UNCHANGED <<outsideVars, handle, storageDone, faultVars, journalVars>>

\* Mutant: the newest entry is left out.
SnapshotShort(m) ==
    [i \in 1..(Len(m.order) - 1) |-> PutRecord(m.entries[m.order[i]])]

SnapshotOf(m) ==
    [i \in 1..Len(m.order) |-> PutRecord(m.entries[m.order[i]])]

\* compactJournal copies memory under the read lock ...
TakeSnapshot(p) ==
    /\ call[p].at = "io"
    /\ call[p].records # <<>> /\ Head(call[p].records) = Compaction
    /\ handle
    /\ call' = [call EXCEPT ![p] =
         [at |-> "compact", sequence |-> call[p].sequence,
          records |-> Tail(call[p].records), failed |-> call[p].failed,
          snapshot |-> SnapshotOf(memory)]]
    /\ UNCHANGED <<outsideVars, handle, storageDone, faultVars, journalVars>>

\* ... writes it beside the journal, renames it over and reopens it.
InstallSnapshot(p) ==
    /\ call[p].at = "compact"
    /\ disk' = call[p].snapshot
    /\ Continue(p, call[p].records, FALSE)
    /\ UNCHANGED <<outsideVars, handle, storageDone, faultVars, fileOpen, trimmed>>

\* The copy, the rename or the reopening fails; the error ends the record,
\* with the second compaction it may have had coming.
CompactionFails(p) ==
    /\ call[p].at = "compact"
    /\ Fault
    /\ \/ UNCHANGED <<disk, fileOpen, handle>>
       \/ fileOpen' = FALSE /\ UNCHANGED <<disk, handle>>
       \/ disk' = call[p].snapshot /\ handle' = FALSE /\ UNCHANGED fileOpen
    /\ LET left == call[p].records
       IN  Continue(p, IF left # <<>> /\ Head(left) = Compaction THEN Tail(left)
                       ELSE left, TRUE)
    /\ UNCHANGED <<outsideVars, storageDone, storageError, restarts, trimmed>>

CloseJournal(p) ==
    /\ CloseStorage(p, ~fileOpen)
    /\ fileOpen' = FALSE
    /\ UNCHANGED <<disk, trimmed>>

\* openJournalStorage: replay, repair, purge, evict.  What the last two drop
\* is not written back.
Restart ==
    /\ FreshProcess
    /\ disk' = LastGood(disk)
    /\ storageError' = ~Decodable(disk)
    /\ LET replayed == Replay(LastGood(disk))
       IN  \E k, e \in 0..Len(replayed.order) :
             /\ Trimmed(replayed, k, e)
             /\ memory' = DropOldest(DropOldest(replayed, k), e)
             /\ evicted' = k + e
             /\ trimmed' = (k + e > 0)
    /\ nextCursor' = ReplayedCursor(LastGood(disk))
    /\ fileOpen' = TRUE
    /\ UNCHANGED faults

-----------------------------------------------------------------------------
JournalInit ==
    PersistInit /\ disk = <<>> /\ fileOpen = TRUE /\ trimmed = FALSE

JournalStep(p) ==
    \/ AppendRecord(p) \/ AppendFails(p) \/ AppendNowhere(p)
    \/ TakeSnapshot(p) \/ InstallSnapshot(p) \/ CompactionFails(p)
    \/ (FinishPersist(p) \/ ReportError(p)) /\ UNCHANGED journalVars
    \/ CloseJournal(p)

JournalNext ==
    \/ \E p \in Procs : MemoryStep(p) /\ UNCHANGED <<faultVars, journalVars>>
    \/ \E p \in Procs : JournalStep(p)
    \/ (StreamStep \/ Tick) /\ UNCHANGED <<faultVars, journalVars>>
    \/ Restart

JournalSpec == JournalInit /\ [][JournalNext]_allVars

\* A goroutine in persist or close is woken and scheduled, and I/O returns.
JournalFairSpec == JournalSpec /\ \A p \in Procs : WF_allVars(JournalStep(p))

-----------------------------------------------------------------------------
\* What is on disk and what is still to be written add up to memory, at every
\* moment: between two writes of a batch, after a compaction whose snapshot
\* ran ahead of batches that are then written again, after a crash and a
\* replay.  (A start that trims what it replayed does not write that back.)
JournalCatchesUp ==
    (handle /\ faults = 0 /\ ~trimmed) =>
        LET m == Replay(disk \o Unwritten)
        IN  m.entries = memory.entries /\ m.order = memory.order

\* Once every call has returned, a journal from which a restart would not
\* restore memory has been reported in storageError.
DivergenceReported ==
    (~isClosed /\ ~trimmed /\ CallsReturned)
      => storageError \/ Replay(LastGood(disk)).entries = memory.entries

\* An entry whose put has returned survives a crash while memory holds it,
\* unless it has expired by the next start.
AcknowledgedSurvives ==
    [][restarts' > restarts /\ faults = 0 /\ ~trimmed =>
        \A id \in Stored(memory) :
            \/ Contains(Unwritten, PutRecord(memory.entries[id]))
            \/ memory.entries[id].recordedAt + Retention < now
            \/ id \in Stored(memory') /\ memory'.entries[id] = memory.entries[id]
      ]_allVars
=============================================================================
