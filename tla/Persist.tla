------------------------------- MODULE Persist -------------------------------
(***************************************************************************)
(* persist opened up (store.go): a batch waits for its turn, takes         *)
(* storageMu, hands its records to the storage one after the other,        *)
(* passes the turn on, and reports its errors under mu.  entryStore.mu is  *)
(* free meanwhile, so memory moves on under the writer.  What one record   *)
(* does to the storage, and how it fails, is left to JournalStore and      *)
(* ExternalStore.                                                          *)
(***************************************************************************)
EXTENDS EntryStore, SequencesExt

CONSTANTS
    MaxFaults,      \* bound on the I/O failures
    MaxRestarts     \* bound on the crashes and restarts

ASSUME PersistAssumption == Durable /\ {MaxFaults, MaxRestarts} \subseteq Nat

VARIABLES
    storageError,   \* storageError is not empty
    faults,
    restarts

faultVars == <<storageError, faults, restarts>>

\* What a goroutine inside persist leaves alone.
outsideVars == <<memoryVars, streamVars, isClosed, storageIssued, now>>

-----------------------------------------------------------------------------
HoldsStorageMu(p) == call[p].at \in {"io", "compact"}

StorageMuFree == \A p \in Procs : ~HoldsStorageMu(p)

\* A batch whose turn it is takes storageMu, or goes on with its next record.
MayWrite(p) ==
    \/ HasTurn(p) /\ StorageMuFree
    \/ call[p].at = "io" /\ call[p].records # <<>>

HasFailed(p) == call[p].at # "persist" /\ call[p].failed

\* Mutant: the error of an earlier record is forgotten.
ContinueForgetful(p, records, failed) ==
    call' = [call EXCEPT ![p] =
      [at |-> "io", sequence |-> call[p].sequence, records |-> records,
       failed |-> failed]]

\* p is left with these records to handle; errors are joined.
Continue(p, records, failed) ==
    call' = [call EXCEPT ![p] =
      [at |-> "io", sequence |-> call[p].sequence, records |-> records,
       failed |-> failed \/ HasFailed(p)]]

Fault == faults < MaxFaults /\ faults' = faults + 1

\* Mutant: the error is swallowed.
FinishPersistSilently(p) ==
    /\ call[p].at = "io" /\ call[p].records = <<>>
    /\ storageDone' = call[p].sequence
    /\ call' = [call EXCEPT ![p] = Idle]
    /\ UNCHANGED <<outsideVars, handle, faultVars>>

FinishPersist(p) ==
    /\ call[p].at = "io" /\ call[p].records = <<>>
    /\ storageDone' = call[p].sequence
    /\ call' = [call EXCEPT ![p] =
                  IF call[p].failed THEN [at |-> "report"] ELSE Idle]
    /\ UNCHANGED <<outsideVars, handle, faultVars>>

\* setStorageError
ReportError(p) ==
    /\ call[p].at = "report"
    /\ storageError' = TRUE
    /\ call' = [call EXCEPT ![p] = Idle]
    /\ UNCHANGED <<outsideVars, handle, storageDone, faults, restarts>>

\* close, second half, under storageMu; `broken`: closing is sure to fail.
CloseStorage(p, broken) ==
    /\ StorageMuFree
    /\ call[p].at = "closing"
    /\ IssuedBatchesDone(p)
    /\ handle' = FALSE
    /\ \/ /\ ~(handle /\ broken)
          /\ call' = [call EXCEPT ![p] = Idle]
          /\ UNCHANGED faults
       \/ /\ handle
          /\ call' = [call EXCEPT ![p] = [at |-> "report"]]
          /\ IF broken THEN UNCHANGED faults ELSE Fault
    /\ UNCHANGED <<outsideVars, storageDone, storageError, restarts>>

\* The process dies, or ends after a close, and a new one opens the storage.
FreshProcess ==
    /\ restarts < MaxRestarts
    /\ restarts' = restarts + 1
    /\ dropped' = 0
    /\ subscribers' = {} /\ nextSubscriber' = 0
    /\ channel' = [s \in {} |-> <<>>] /\ seen' = [s \in {} |-> 0]
    /\ isClosed' = FALSE
    /\ handle' = TRUE /\ storageIssued' = 0 /\ storageDone' = 0
    /\ call' = [p \in Procs |-> Idle]
    /\ UNCHANGED now

\* What the start keeps of the entries it has loaded, and the delete records
\* for the others.
Trimmed(loaded, k, e) ==
    /\ PurgeCount(loaded, k)
    /\ EvictCount(DropOldest(loaded, k), e)

PersistInit == Init /\ storageError = FALSE /\ faults = 0 /\ restarts = 0

-----------------------------------------------------------------------------
InPersist(p) == call[p].at \in {"persist", "io", "compact"}

\* The records of issued batches that have not been handled, oldest first.
Pending(sequence) ==
    LET at == {p \in Procs : InPersist(p) /\ call[p].sequence = sequence}
    IN  IF at = {} THEN <<>> ELSE call[CHOOSE p \in at : TRUE].records

Unwritten ==
    FlattenSeq([i \in 1..(storageIssued - storageDone) |->
                  Pending(storageDone + i)])

CallsReturned == \A p \in Procs : call[p].at \in {"idle", "put"}

\* At most one goroutine is inside the storage ("Calls are serialized",
\* storage.go), and it is the one whose turn it is.
OneWriterInTurn ==
    \A p \in Procs : HoldsStorageMu(p) =>
        /\ call[p].sequence = storageDone + 1
        /\ \A q \in Procs \ {p} : ~HoldsStorageMu(q)

\* Every issued batch waits in exactly one goroutine: no sequence number is
\* left that others would wait behind for ever.
EveryTurnHasAnOwner ==
    \A n \in (storageDone + 1)..storageIssued :
        \E p \in Procs :
            /\ InPersist(p) /\ call[p].sequence = n
            /\ \A q \in Procs \ {p} : InPersist(q) => call[q].sequence # n

\* Every goroutine that waits for its turn, or in close for the batches
\* issued before it, gets on, whatever fails on the way.
WaitersProceed ==
    \A p \in Procs :
        (InPersist(p) \/ call[p].at \in {"report", "closing"}) ~> (call[p] = Idle)
=============================================================================
