------------------------- MODULE ExternalStoreProofs -------------------------
(***************************************************************************)
(* An external storage, for every number of goroutines, entries, failures  *)
(* and crashes: no two rows share a cursor, and until something fails none *)
(* is above the saved one; the table, with the records still to be         *)
(* written, is memory, and a table that is not has been reported; a start  *)
(* goes on from the last cursor that was saved.                            *)
(***************************************************************************)
EXTENDS ExternalStore, PersistProofs, SequenceTheorems

RecordCursor(record) ==
    IF record.op = "put" THEN record.entry.cursor ELSE record.cursor

(***************************************************************************)
(* A batch of which at most the last record has a cursor, one of cursors.  *)
(***************************************************************************)
Numbered(records, cursors) ==
    /\ \E S : records \in Seq(S)
    /\ \A i \in 1..Len(records) :
         /\ records[i].op \in {"put", "delete", "clear"}
         /\ records[i].op # "delete" =>
              i = Len(records) /\ RecordCursor(records[i]) \in cursors

\* The batch that p holds has a record with this cursor.
Holds(p, cursor) ==
    \E i \in 1..Len(call[p].records) :
        /\ call[p].records[i].op # "delete"
        /\ RecordCursor(call[p].records[i]) = cursor

(***************************************************************************)
(* The inductive invariant.  That a put saves a cursor above those of the  *)
(* rows rests on the batches being written in the order of their cursors,  *)
(* that is, on turns being handed out under mu together with cursors.      *)
(***************************************************************************)
InCursorOrder ==
    /\ savedCursor \in Nat /\ nextCursor \in Nat /\ savedCursor <= nextCursor
    /\ \A id \in DOMAIN rows : rows[id].cursor \in Nat /\ rows[id].cursor <= savedCursor
    /\ \A p \in Procs : InPersist(p) =>
         Numbered(call[p].records, (savedCursor + 1)..nextCursor)
    /\ \A p, q \in Procs : \A c, d \in Nat :
         /\ InPersist(p) /\ Holds(p, c)
         /\ InPersist(q) /\ Holds(q, d)
         /\ Turn(p) < Turn(q)
         => c < d

RowsDistinct == \A a, b \in DOMAIN rows : rows[a].cursor = rows[b].cursor => a = b

BatchesWellFormed ==
    \A p \in Procs : InPersist(p) =>
        /\ \E cursors : Numbered(call[p].records, cursors)
        /\ call[p].at = "persist" => call[p].records # <<>>

CursorsInv ==
    /\ TurnsInv
    /\ BatchesWellFormed
    /\ faults \in Nat
    /\ RowsDistinct
    /\ faults = 0 => InCursorOrder

-----------------------------------------------------------------------------
(* Memory: what put, the reads and clear issue.                            *)

LEMMA DeletesAreDeletes ==
    ASSUME NEW m, NEW k \in Nat
    PROVE  /\ \E S : DeleteRecords(m, k) \in Seq(S)
           /\ Len(DeleteRecords(m, k)) = k
           /\ \A i \in 1..k : DeleteRecords(m, k)[i].op = "delete"
PROOF
<1> DEFINE S == {[op |-> "delete", id |-> m.order[i]] : i \in 1..k}
<1>1. DeleteRecords(m, k) = [i \in 1..k |-> [op |-> "delete", id |-> m.order[i]]]
  BY DEF DeleteRecords
<1>2. \A i \in 1..k : [op |-> "delete", id |-> m.order[i]] \in S
  OBVIOUS
<1> HIDE DEF S
<1>3. DeleteRecords(m, k) \in Seq(S) /\ Len(DeleteRecords(m, k)) = k
  BY <1>1, <1>2
<1> QED BY <1>1, <1>3

LEMMA DeletesAreNumbered ==
    ASSUME NEW m, NEW k \in Nat, NEW cursors
    PROVE  Numbered(DeleteRecords(m, k), cursors)
BY DeletesAreDeletes DEF Numbered

\* Records without a cursor may precede those of a batch.
LEMMA DeletesMayPrecede ==
    ASSUME NEW m, NEW k \in Nat, NEW records, NEW cursors,
           Numbered(records, cursors)
    PROVE  Numbered(DeleteRecords(m, k) \o records, cursors)
PROOF
<1> DEFINE a == DeleteRecords(m, k)
<1>1. /\ \E S : a \in Seq(S)
      /\ Len(a) = k
      /\ \A i \in 1..k : a[i].op = "delete"
  BY DeletesAreDeletes
<1> HIDE DEF a
<1>2. PICK S : a \in Seq(S)
  BY <1>1
<1>3. PICK T : records \in Seq(T)
  BY DEF Numbered
<1> DEFINE U == S \cup T
<1>4. a \in Seq(U) /\ records \in Seq(U)
  <2>1. /\ a = [i \in 1..Len(a) |-> a[i]] /\ Len(a) \in Nat
        /\ \A i \in 1..Len(a) : a[i] \in U
    BY <1>2
  <2>2. /\ records = [i \in 1..Len(records) |-> records[i]] /\ Len(records) \in Nat
        /\ \A i \in 1..Len(records) : records[i] \in U
    BY <1>3
  <2> HIDE DEF U
  <2> QED BY <2>1, <2>2
<1> HIDE DEF U
<1> DEFINE n == Len(records)
<1>5. /\ a \o records \in Seq(U)
      /\ Len(a \o records) = k + n /\ n \in Nat
      /\ \A i \in 1..k : (a \o records)[i] = a[i]
      /\ \A i \in 1..n : (a \o records)[k + i] = records[i]
  <2>1. a \o records \in Seq(U) /\ Len(a) = k /\ n \in Nat
    BY <1>1, <1>4, ConcatProperties
  <2>2. Len(a \o records) = Len(a) + Len(records)
    BY <1>4, ConcatProperties
  <2>3. \A i \in 1..(Len(a) + Len(records)) :
          (a \o records)[i] = IF i <= Len(a) THEN a[i] ELSE records[i - Len(a)]
    BY <1>4, ConcatProperties
  <2>4. ASSUME NEW i \in 1..k
        PROVE  (a \o records)[i] = a[i]
    BY <2>1, <2>3
  <2>5. ASSUME NEW i \in 1..n
        PROVE  (a \o records)[k + i] = records[i]
    <3>1. k + i \in 1..(Len(a) + Len(records)) /\ ~(k + i <= Len(a)) /\ k + i - Len(a) = i
      BY <2>1
    <3> QED BY <2>3, <3>1
  <2> QED BY <2>1, <2>2, <2>4, <2>5
<1>6. ASSUME NEW i \in 1..(k + n)
      PROVE  /\ (a \o records)[i].op \in {"put", "delete", "clear"}
             /\ (a \o records)[i].op # "delete" =>
                  i = k + n /\ RecordCursor((a \o records)[i]) \in cursors
  <2>1. CASE i <= k
    BY <2>1, <1>1, <1>5
  <2>2. CASE i > k
    <3>1. PICK j \in 1..n : i = k + j
      <4>1. i - k \in 1..n /\ i = k + (i - k)
        BY <2>2, <1>5
      <4> QED BY <4>1
    <3>2. (a \o records)[i] = records[j]
      BY <3>1, <1>5
    <3> QED BY <3>1, <3>2, <1>5 DEF Numbered
  <2> QED BY <2>1, <2>2, <1>5
<1> QED BY <1>5, <1>6 DEF Numbered, a

LEMMA OneRecordIsNumbered ==
    ASSUME NEW record, record.op \in {"put", "clear"}
    PROVE  Numbered(<<record>>, {RecordCursor(record)})
PROOF
<1>1. <<record>> \in Seq({record}) /\ Len(<<record>>) = 1 /\ <<record>>[1] = record
  OBVIOUS
<1>2. \A i \in 1..Len(<<record>>) :
        /\ <<record>>[i].op \in {"put", "delete", "clear"}
        /\ i = Len(<<record>>) /\ RecordCursor(<<record>>[i]) \in {RecordCursor(record)}
  BY <1>1
<1> QED BY <1>1, <1>2 DEF Numbered

\* put: what was purged, what was evicted, then the entry.
LEMMA PutIsNumbered ==
    ASSUME NEW m, NEW k \in Nat, NEW n, NEW e \in Nat, NEW entry
    PROVE  Numbered(DeleteRecords(m, k) \o DeleteRecords(n, e) \o <<PutRecord(entry)>>,
                    {entry.cursor})
PROOF
<1>1. PutRecord(entry).op = "put" /\ RecordCursor(PutRecord(entry)) = entry.cursor
  BY DEF PutRecord, RecordCursor
<1>2. Numbered(<<PutRecord(entry)>>, {entry.cursor})
  BY <1>1, OneRecordIsNumbered
<1>3. Numbered(DeleteRecords(m, k) \o (DeleteRecords(n, e) \o <<PutRecord(entry)>>),
               {entry.cursor})
  BY <1>2, DeletesMayPrecede
<1>4. DeleteRecords(m, k) \o (DeleteRecords(n, e) \o <<PutRecord(entry)>>)
        = DeleteRecords(m, k) \o DeleteRecords(n, e) \o <<PutRecord(entry)>>
  BY DeletesAreDeletes, ConcatAssociative
<1> QED BY <1>3, <1>4

\* What a goroutine issues in memory has cursors above all those before.
LEMMA MemoryStepMoves ==
    ASSUME TurnsInv, NEW p \in Procs, MemoryStep(p)
    PROVE  \E cursors :
             /\ \/ nextCursor' = nextCursor /\ cursors = {}
                \/ nextCursor' = nextCursor + 1 /\ cursors = {nextCursor + 1}
             /\ \/ StaysOutside(p)
                \/ /\ TakesNumber(p)
                   /\ Numbered(call'[p].records, cursors)
                   /\ call'[p].records # <<>>
PROOF
<1> DEFINE Moves(cursors) ==
             /\ \/ nextCursor' = nextCursor /\ cursors = {}
                \/ nextCursor' = nextCursor + 1 /\ cursors = {nextCursor + 1}
             /\ \/ StaysOutside(p)
                \/ /\ TakesNumber(p)
                   /\ Numbered(call'[p].records, cursors)
                   /\ call'[p].records # <<>>
           Goal == \E cursors : Moves(cursors)
<1>0. DOMAIN call = Procs
  BY DEF TurnsInv
<1>1. ASSUME NEW records, IssueBatch(p, records), ~InPersist(p),
             UNCHANGED storageDone, NEW cursors, Numbered(records, cursors),
             \/ nextCursor' = nextCursor /\ cursors = {}
             \/ nextCursor' = nextCursor + 1 /\ cursors = {nextCursor + 1}
      PROVE  Goal
  <2>1. \/ StaysOutside(p)
        \/ TakesNumber(p) /\ call'[p].records = records /\ records # <<>>
    BY <1>0, <1>1
       DEF IssueBatch, TakesNumber, StaysOutside, OnlyMoves, InPersist, Idle, Turn
  <2> QED BY <1>1, <2>1
<1>2. ASSUME NEW id \in Ids, NEW size \in Sizes, BeginRecord(p, id, size)
      PROVE  Goal
  <2>1. StaysOutside(p) /\ nextCursor' = nextCursor
    BY <1>0, <1>2
       DEF BeginRecord, StaysOutside, OnlyMoves, InPersist, Idle, storageVars, memoryVars
  <2>2. Moves({})
    BY <2>1
  <2> QED BY <2>2
<1>3. CASE PutAfterClose(p)
  BY <1>0, <1>3
     DEF PutAfterClose, StaysOutside, OnlyMoves, InPersist, Idle, storageVars, memoryVars
<1>4. CASE Close(p)
  BY <1>0, <1>4
     DEF Close, StaysOutside, OnlyMoves, InPersist, Idle, storageVars, memoryVars
<1>5. CASE PutTooLarge(p)
  <2>1. PICK k \in 0..Len(memory.order) : IssueBatch(p, DeleteRecords(memory, k))
    BY <1>5 DEF PutTooLarge
  <2>2. Numbered(DeleteRecords(memory, k), {})
    BY DeletesAreNumbered
  <2>3. ~InPersist(p) /\ UNCHANGED <<storageDone, nextCursor>>
    BY <1>5 DEF PutTooLarge, InPersist
  <2> QED BY <1>1, <2>1, <2>2, <2>3
<1>6. CASE Put(p)
  <2> DEFINE entry == [id |-> call[p].id, size |-> call[p].size,
                       recordedAt |-> call[p].recordedAt, cursor |-> nextCursor + 1]
             replaced(k) == Replace(DropOldest(memory, k), entry)
  <2>1. PICK k \in 0..Len(memory.order) : \E e \in 0..Len(replaced(k).order) :
          IssueBatch(p, DeleteRecords(memory, k) \o DeleteRecords(replaced(k), e)
                        \o <<PutRecord(entry)>>)
    BY <1>6 DEF Put
  <2>2. PICK e \in 0..Len(replaced(k).order) :
          IssueBatch(p, DeleteRecords(memory, k) \o DeleteRecords(replaced(k), e)
                        \o <<PutRecord(entry)>>)
    BY <2>1
  <2>3. entry.cursor = nextCursor + 1 /\ nextCursor' = nextCursor + 1
    BY <1>6 DEF Put
  <2> HIDE DEF entry, replaced
  <2>4. Numbered(DeleteRecords(memory, k) \o DeleteRecords(replaced(k), e)
                 \o <<PutRecord(entry)>>, {nextCursor + 1})
    BY <2>3, PutIsNumbered
  <2>5. ~InPersist(p) /\ UNCHANGED storageDone
    BY <1>6 DEF Put, InPersist
  <2> QED BY <1>1, <2>2, <2>3, <2>4, <2>5
<1>7. CASE Read(p)
  <2>1. PICK k \in 1..Len(memory.order) : IssueBatch(p, DeleteRecords(memory, k))
    BY <1>7 DEF Read
  <2>2. Numbered(DeleteRecords(memory, k), {})
    BY DeletesAreNumbered
  <2>3. ~InPersist(p) /\ UNCHANGED <<storageDone, nextCursor>>
    BY <1>7 DEF Read, InPersist, Idle
  <2> QED BY <1>1, <2>1, <2>2, <2>3
<1>8. CASE Clear(p)
  <2>1. IssueBatch(p, <<ClearRecord(nextCursor')>>) /\ nextCursor' = nextCursor + 1
    BY <1>8 DEF Clear
  <2>2. /\ RecordCursor(ClearRecord(nextCursor')) = nextCursor + 1
        /\ ClearRecord(nextCursor').op = "clear"
    BY <2>1 DEF RecordCursor, ClearRecord
  <2>3. Numbered(<<ClearRecord(nextCursor')>>, {nextCursor + 1})
    BY <2>2, OneRecordIsNumbered
  <2>4. ~InPersist(p) /\ UNCHANGED storageDone
    BY <1>8 DEF Clear, InPersist, Idle
  <2> QED BY <1>1, <2>1, <2>3, <2>4
<1> QED BY <1>2, <1>3, <1>4, <1>5, <1>6, <1>7, <1>8 DEF MemoryStep

-----------------------------------------------------------------------------
(* What a step does to the cursors of the batches that are left.           *)

LEMMA HeldCursorsAreNumbered ==
    ASSUME NEW p, NEW cursors, Numbered(call[p].records, cursors), NEW c, Holds(p, c)
    PROVE  c \in cursors
BY DEF Numbered, Holds

LEMMA NumberedWidens ==
    ASSUME NEW records, NEW small, NEW large, small \subseteq large,
           Numbered(records, small)
    PROVE  Numbered(records, large)
BY DEF Numbered

LEMMA OthersKeepTheirBatch ==
    ASSUME NEW p \in Procs, OnlyMoves(p)
    PROVE  \A q \in Procs \ {p} :
             /\ InPersist(q)' <=> InPersist(q)
             /\ Turn(q)' = Turn(q)
             /\ call'[q].records = call[q].records
             /\ call'[q].at = call[q].at
             /\ \A c : Holds(q, c)' <=> Holds(q, c)
BY DEF OnlyMoves, InPersist, Turn, Holds

LEMMA MemoryKeepsOrder ==
    ASSUME TurnsInv, InCursorOrder, NEW p \in Procs, MemoryStep(p),
           UNCHANGED <<rows, savedCursor>>
    PROVE  InCursorOrder'
PROOF
<1>1. PICK cursors :
        /\ \/ nextCursor' = nextCursor /\ cursors = {}
           \/ nextCursor' = nextCursor + 1 /\ cursors = {nextCursor + 1}
        /\ \/ StaysOutside(p)
           \/ TakesNumber(p) /\ Numbered(call'[p].records, cursors)
  BY MemoryStepMoves
<1>2. /\ savedCursor \in Nat /\ nextCursor \in Nat /\ savedCursor <= nextCursor
      /\ nextCursor' \in Nat /\ nextCursor <= nextCursor'
      /\ savedCursor' = savedCursor /\ rows' = rows
  BY <1>1 DEF InCursorOrder
<1>3. OnlyMoves(p) /\ ~InPersist(p)
  BY <1>1 DEF StaysOutside, TakesNumber
<1>4. \A q \in Procs \ {p} :
        /\ InPersist(q)' <=> InPersist(q)
        /\ Turn(q)' = Turn(q)
        /\ call'[q].records = call[q].records
        /\ \A c : Holds(q, c)' <=> Holds(q, c)
  BY <1>3, OthersKeepTheirBatch
<1>5. ASSUME NEW q \in Procs, InPersist(q)'
      PROVE  Numbered(call'[q].records, (savedCursor' + 1)..nextCursor')
  <2>1. CASE q = p
    <3>1. Numbered(call'[p].records, cursors)
      BY <1>1, <1>5, <2>1 DEF StaysOutside
    <3>2. cursors \subseteq (savedCursor' + 1)..nextCursor'
      BY <1>1, <1>2
    <3> QED BY <2>1, <3>1, <3>2, NumberedWidens
  <2>2. CASE q # p
    <3>1. Numbered(call[q].records, (savedCursor + 1)..nextCursor)
      BY <1>4, <1>5, <2>2 DEF InCursorOrder
    <3>2. (savedCursor + 1)..nextCursor \subseteq (savedCursor' + 1)..nextCursor'
      BY <1>2
    <3> QED BY <1>4, <2>2, <3>1, <3>2, NumberedWidens
  <2> QED BY <2>1, <2>2
<1>6. ASSUME NEW q \in Procs, NEW r \in Procs, NEW c \in Nat, NEW d \in Nat,
             InPersist(q)', Holds(q, c)', InPersist(r)', Holds(r, d)',
             Turn(q)' < Turn(r)'
      PROVE  c < d
  <2>1. CASE q # p /\ r # p
    BY <1>4, <1>6, <2>1 DEF InCursorOrder
  <2>2. CASE q = p
    \* The number p has taken is the highest.
    <3>1. TakesNumber(p) /\ Turn(p)' = storageIssued + 1
      BY <1>1, <1>6, <2>2 DEF StaysOutside, TakesNumber
    <3>2. ASSUME r # p
          PROVE  FALSE
      <4>1. InPersist(r) /\ Turn(r)' = Turn(r)
        BY <1>4, <1>6, <3>2
      <4>2. Turn(r) \in (storageDone + 1)..storageIssued
        BY <4>1 DEF TurnsInv
      <4> QED BY <1>6, <2>2, <3>1, <4>1, <4>2 DEF TurnsInv
    <3>3. CASE r = p
      BY <1>6, <2>2, <3>1, <3>3 DEF TurnsInv
    <3> QED BY <3>2, <3>3
  <2>3. CASE q # p /\ r = p
    <3>1. Numbered(call'[p].records, cursors)
      BY <1>1, <1>6, <2>3 DEF StaysOutside
    <3>2. d \in cursors
      BY <1>6, <2>3, <3>1 DEF Numbered, Holds
    <3>3. c \in (savedCursor + 1)..nextCursor
      BY <1>4, <1>6, <2>3, HeldCursorsAreNumbered DEF InCursorOrder
    <3> QED BY <1>1, <1>2, <3>2, <3>3
  <2> QED BY <2>1, <2>2, <2>3
<1>7. \A id \in DOMAIN rows' : rows'[id].cursor \in Nat /\ rows'[id].cursor <= savedCursor'
  BY <1>2 DEF InCursorOrder
<1> QED BY <1>2, <1>5, <1>6, <1>7 DEF InCursorOrder

-----------------------------------------------------------------------------
(* The storage: a batch handles its first record.                          *)

LEMMA FirstOfBatch ==
    ASSUME NEW records, NEW cursors, Numbered(records, cursors), records # <<>>
    PROVE  /\ Head(records).op \in {"put", "delete", "clear"}
           /\ Head(records) = records[1] /\ 1 \in 1..Len(records)
           /\ Head(records).op # "delete" =>
                Len(Tail(records)) = 0 /\ RecordCursor(Head(records)) \in cursors
           /\ Numbered(Tail(records), cursors)
           /\ \A i \in 1..Len(Tail(records)) :
                i + 1 \in 1..Len(records) /\ Tail(records)[i] = records[i + 1]
PROOF
<1> DEFINE n == Len(records)
           rest == Tail(records)
           m == Len(rest)
<1>1. PICK S : records \in Seq(S)
  BY DEF Numbered
<1>2. /\ rest \in Seq(S) /\ n \in Nat \ {0}
      /\ m = n - 1
      /\ Head(records) = records[1]
      /\ \A i \in 1..m : rest[i] = records[i + 1]
  BY <1>1
<1>3. \A i \in 1..n :
        /\ records[i].op \in {"put", "delete", "clear"}
        /\ records[i].op # "delete" => i = n /\ RecordCursor(records[i]) \in cursors
  BY DEF Numbered
<1> HIDE DEF n, m, rest
<1>4. 1 \in 1..n /\ (1 = n => m = 0) /\ \A i \in 1..m : i + 1 \in 1..n
  BY <1>2
<1>5. ASSUME NEW i \in 1..m
      PROVE  /\ rest[i].op \in {"put", "delete", "clear"}
             /\ rest[i].op # "delete" => i = m /\ RecordCursor(rest[i]) \in cursors
  <2>1. rest[i] = records[i + 1] /\ i + 1 \in 1..n
    BY <1>2, <1>4
  <2>2. i + 1 = n => i = m
    BY <1>2
  <2> QED BY <1>3, <2>1, <2>2
<1>6. Numbered(rest, cursors)
  BY <1>2, <1>5 DEF Numbered, m
<1>7. /\ Head(records).op \in {"put", "delete", "clear"}
      /\ Head(records).op # "delete" => m = 0 /\ RecordCursor(Head(records)) \in cursors
  BY <1>2, <1>3, <1>4
<1> QED BY <1>2, <1>4, <1>6, <1>7 DEF n, m, rest

\* p, whose turn it is, is done with its first record, one way or the other.
Handles(p) ==
    /\ InPersist(p) /\ Turn(p) = storageDone + 1
    /\ call[p].records # <<>>
    /\ call'[p].at = "io" /\ Turn(p)' = Turn(p)
    /\ call'[p].records = Tail(call[p].records)
    /\ OnlyMoves(p)

LEMMA RecordKeepsOrder ==
    ASSUME TurnsInv, InCursorOrder, NEW p \in Procs, Handles(p),
           UNCHANGED nextCursor,
           \/ UNCHANGED <<rows, savedCursor>>
           \/ /\ rows' = AfterRecord(rows, Head(call[p].records))
              /\ savedCursor' = CursorAfter(savedCursor, Head(call[p].records))
    PROVE  InCursorOrder'
PROOF
<1> DEFINE first == Head(call[p].records)
<1>1. \A q \in Procs \ {p} :
        /\ InPersist(q)' <=> InPersist(q)
        /\ Turn(q)' = Turn(q)
        /\ call'[q].records = call[q].records
        /\ \A c : Holds(q, c)' <=> Holds(q, c)
  BY OthersKeepTheirBatch DEF Handles
<1>2. /\ InPersist(p) /\ InPersist(p)' /\ Turn(p)' = Turn(p) /\ Turn(p) = storageDone + 1
      /\ call'[p].records = Tail(call[p].records)
      /\ call[p].records # <<>>
      /\ Numbered(call[p].records, (savedCursor + 1)..nextCursor)
      /\ savedCursor \in Nat /\ nextCursor \in Nat /\ savedCursor <= nextCursor
      /\ nextCursor' = nextCursor
  BY DEF Handles, InPersist, InCursorOrder
<1>3. /\ first.op \in {"put", "delete", "clear"}
      /\ first = call[p].records[1] /\ 1 \in 1..Len(call[p].records)
      /\ first.op # "delete" =>
           /\ Len(Tail(call[p].records)) = 0
           /\ RecordCursor(first) \in (savedCursor + 1)..nextCursor
      /\ Numbered(Tail(call[p].records), (savedCursor + 1)..nextCursor)
      /\ \A i \in 1..Len(Tail(call[p].records)) :
           /\ i + 1 \in 1..Len(call[p].records)
           /\ Tail(call[p].records)[i] = call[p].records[i + 1]
  BY <1>2, FirstOfBatch
<1>4. first.op # "delete" => Holds(p, RecordCursor(first))
  BY <1>3 DEF Holds
<1>5. \A c : Holds(p, c)' => Holds(p, c)
  <2> SUFFICES ASSUME NEW c, Holds(p, c)'
               PROVE  Holds(p, c)
    OBVIOUS
  <2>1. PICK i \in 1..Len(Tail(call[p].records)) :
          /\ Tail(call[p].records)[i].op # "delete"
          /\ RecordCursor(Tail(call[p].records)[i]) = c
    BY <1>2 DEF Holds
  <2> QED BY <1>3, <2>1 DEF Holds
<1> HIDE DEF first
<1>6. \/ savedCursor' = savedCursor
      \/ first.op # "delete" /\ savedCursor' = RecordCursor(first)
  BY <1>3 DEF CursorAfter, RecordCursor, first
<1>7. savedCursor' \in Nat /\ savedCursor <= savedCursor' /\ savedCursor' <= nextCursor
  BY <1>2, <1>3, <1>6
<1>8. ASSUME NEW id \in DOMAIN rows'
      PROVE  rows'[id].cursor \in Nat /\ rows'[id].cursor <= savedCursor'
  <2>1. CASE UNCHANGED <<rows, savedCursor>>
    BY <1>8, <2>1 DEF InCursorOrder
  <2>2. CASE /\ rows' = AfterRecord(rows, first)
             /\ savedCursor' = CursorAfter(savedCursor, first)
    <3>1. CASE first.op = "put"
      <4>1. rows' = Upserted(rows, first.entry) /\ savedCursor' = first.entry.cursor
        BY <2>2, <3>1 DEF AfterRecord, CursorAfter
      <4>2. rows'[id] = IF id = first.entry.id THEN first.entry ELSE rows[id]
        BY <1>8, <4>1 DEF Upserted
      <4>3. id = first.entry.id \/ id \in DOMAIN rows
        BY <1>8, <4>1 DEF Upserted
      <4> QED BY <1>7, <4>1, <4>2, <4>3, <1>2 DEF InCursorOrder
    <3>2. CASE first.op = "delete"
      <4>1. rows' = Deleted(rows, first.id) /\ savedCursor' = savedCursor
        BY <2>2, <3>2 DEF AfterRecord, CursorAfter
      <4>2. id \in DOMAIN rows /\ rows'[id] = rows[id]
        BY <1>8, <4>1 DEF Deleted
      <4> QED BY <4>1, <4>2 DEF InCursorOrder
    <3>3. CASE first.op = "clear"
      <4>1. rows' = NoRows
        BY <2>2, <3>3 DEF AfterRecord
      <4> QED BY <1>8, <4>1 DEF NoRows
    <3> QED BY <1>3, <3>1, <3>2, <3>3
  <2> QED BY <2>1, <2>2 DEF first
<1>9. ASSUME NEW q \in Procs, InPersist(q)'
      PROVE  Numbered(call'[q].records, (savedCursor' + 1)..nextCursor')
  <2>1. CASE q = p
    <3>1. CASE savedCursor' = savedCursor
      BY <1>2, <1>3, <2>1, <3>1
    <3>2. CASE first.op # "delete"
      <4>1. Len(Tail(call[p].records)) = 0
        BY <1>3, <3>2
      <4>2. \A i : i \notin 1..Len(Tail(call[p].records))
        <5>1. \A i : i \notin 1..0
          OBVIOUS
        <5> QED BY <4>1, <5>1
      <4> QED BY <1>2, <1>3, <2>1, <4>2 DEF Numbered
    <3> QED BY <1>6, <3>1, <3>2
  <2>2. CASE q # p
    <3>1. Numbered(call[q].records, (savedCursor + 1)..nextCursor) /\ InPersist(q)
      BY <1>1, <1>9, <2>2 DEF InCursorOrder
    <3>2. Turn(p) < Turn(q)
      <4>1. Turn(q) \in (storageDone + 1)..storageIssued /\ Turn(q) # Turn(p)
        BY <1>2, <2>2, <3>1 DEF TurnsInv
      <4> QED BY <1>2, <4>1 DEF TurnsInv
    <3>3. ASSUME NEW i \in 1..Len(call[q].records), call[q].records[i].op # "delete"
          PROVE  RecordCursor(call[q].records[i]) \in (savedCursor' + 1)..nextCursor'
      <4> DEFINE c == RecordCursor(call[q].records[i])
      <4>1. Holds(q, c)
        BY <3>3 DEF Holds
      <4>2. c \in (savedCursor + 1)..nextCursor
        BY <3>1, <3>3 DEF Numbered
      <4>3. savedCursor' < c
        <5>1. CASE savedCursor' = savedCursor
          BY <1>2, <4>2, <5>1
        <5>2. CASE first.op # "delete" /\ savedCursor' = RecordCursor(first)
          <6>1. RecordCursor(first) \in Nat /\ c \in Nat
            BY <1>2, <1>3, <4>2, <5>2
          <6> QED BY <1>2, <1>4, <3>1, <3>2, <4>1, <5>2, <6>1 DEF InCursorOrder
        <5> QED BY <1>6, <5>1, <5>2
      <4> QED BY <1>2, <1>7, <4>2, <4>3
    <3> QED BY <1>1, <2>2, <3>1, <3>3 DEF Numbered
  <2> QED BY <2>1, <2>2
<1>10. ASSUME NEW q \in Procs, NEW r \in Procs, NEW c \in Nat, NEW d \in Nat,
              InPersist(q)', Holds(q, c)', InPersist(r)', Holds(r, d)',
              Turn(q)' < Turn(r)'
       PROVE  c < d
  <2>1. /\ InPersist(q) /\ Holds(q, c) /\ Turn(q)' = Turn(q)
        /\ InPersist(r) /\ Holds(r, d) /\ Turn(r)' = Turn(r)
    BY <1>1, <1>2, <1>5, <1>10
  <2> QED BY <1>10, <2>1 DEF InCursorOrder
<1> QED BY <1>2, <1>7, <1>8, <1>9, <1>10 DEF InCursorOrder

\* A goroutine that is outside persist afterwards leaves the others theirs.
LEMMA LeavingKeepsOrder ==
    ASSUME InCursorOrder, NEW p \in Procs, OnlyMoves(p), ~InPersist(p)',
           UNCHANGED <<nextCursor, rows, savedCursor>>
    PROVE  InCursorOrder'
PROOF
<1>1. \A q \in Procs : InPersist(q)' =>
        /\ InPersist(q) /\ Turn(q)' = Turn(q)
        /\ call'[q].records = call[q].records
        /\ \A c : Holds(q, c)' <=> Holds(q, c)
  BY OthersKeepTheirBatch
<1> QED BY <1>1 DEF InCursorOrder

-----------------------------------------------------------------------------
(* The invariant, step by step.                                            *)

LEMMA MemoryKeepsCursors ==
    ASSUME CursorsInv, NEW p \in Procs, MemoryStep(p),
           UNCHANGED <<faultVars, externalVars>>
    PROVE  CursorsInv'
PROOF
<1>1. TurnsInv /\ TurnsInv'
  BY MemoryStepKeeps DEF CursorsInv
<1>2. UNCHANGED <<rows, savedCursor, faults>>
  BY DEF faultVars, externalVars
<1>3. PICK cursors :
        \/ StaysOutside(p)
        \/ /\ TakesNumber(p) /\ Numbered(call'[p].records, cursors)
           /\ call'[p].records # <<>>
  BY <1>1, MemoryStepMoves
<1>4. BatchesWellFormed'
  <2>1. OnlyMoves(p)
    BY <1>3 DEF StaysOutside, TakesNumber
  <2>2. \A q \in Procs \ {p} :
          /\ InPersist(q)' <=> InPersist(q)
          /\ call'[q].records = call[q].records
          /\ call'[q].at = call[q].at
    BY <2>1, OthersKeepTheirBatch
  <2>3. InPersist(p)' =>
          /\ \E c : Numbered(call'[p].records, c)
          /\ call'[p].records # <<>>
    BY <1>3 DEF StaysOutside
  <2> QED BY <2>2, <2>3 DEF CursorsInv, BatchesWellFormed
<1>5. faults' = 0 => InCursorOrder'
  BY <1>1, <1>2, MemoryKeepsOrder DEF CursorsInv
<1>6. RowsDistinct'
  BY <1>2 DEF CursorsInv, RowsDistinct
<1> QED BY <1>1, <1>2, <1>4, <1>5, <1>6 DEF CursorsInv

\* Whatever becomes of the record, its goroutine goes on with the next.
LEMMA WriterHandles ==
    ASSUME CursorsInv, NEW p \in Procs, MayWrite(p),
           \E failed : Continue(p, Tail(call[p].records), failed),
           UNCHANGED <<storageIssued, storageDone>>
    PROVE  /\ Handles(p) /\ TurnsInv' /\ BatchesWellFormed'
           /\ Head(call[p].records).op \in {"put", "delete", "clear"}
PROOF
<1>1. TurnsInv /\ BatchesWellFormed /\ DOMAIN call = Procs
  BY DEF CursorsInv, TurnsInv
<1>2. /\ OnlyMoves(p)
      /\ call'[p].at = "io" /\ call'[p].sequence = call[p].sequence
      /\ call'[p].records = Tail(call[p].records)
  BY <1>1 DEF Continue, OnlyMoves
<1>3. /\ InPersist(p) /\ Turn(p) = storageDone + 1
      /\ call[p].records # <<>>
  BY <1>1 DEF MayWrite, HasTurn, InPersist, HoldsStorageMu, Turn, TurnsInv,
              BatchesWellFormed
<1>4. Handles(p)
  BY <1>2, <1>3 DEF Handles, Turn
<1>5. TurnsInv'
  BY <1>1, <1>2, ContinueKeeps
<1>6. PICK cursors : Numbered(call[p].records, cursors)
  BY <1>1, <1>3 DEF BatchesWellFormed
<1>7. Numbered(Tail(call[p].records), cursors)
      /\ Head(call[p].records).op \in {"put", "delete", "clear"}
  BY <1>3, <1>6, FirstOfBatch
<1>8. \A q \in Procs \ {p} :
        /\ InPersist(q)' <=> InPersist(q)
        /\ call'[q].records = call[q].records
        /\ call'[q].at = call[q].at
  BY <1>2, OthersKeepTheirBatch
<1>9. BatchesWellFormed'
  BY <1>1, <1>2, <1>7, <1>8 DEF BatchesWellFormed
<1> QED BY <1>4, <1>5, <1>7, <1>9

\* The UNIQUE column keeps two rows from sharing a cursor, the order of the
\* batches keeps them below the saved one.
LEMMA CallSucceedsKeeps ==
    ASSUME CursorsInv, NEW p \in Procs, CallSucceeds(p)
    PROVE  CursorsInv'
PROOF
<1> DEFINE first == Head(call[p].records)
<1>1. /\ MayWrite(p) /\ ~Refused(rows, first)
      /\ rows' = AfterRecord(rows, first)
      /\ savedCursor' = CursorAfter(savedCursor, first)
      /\ Continue(p, Tail(call[p].records), FALSE)
      /\ UNCHANGED <<storageIssued, storageDone, nextCursor, faults>>
  BY DEF CallSucceeds, outsideVars, memoryVars, faultVars
<1>2. /\ Handles(p) /\ TurnsInv' /\ BatchesWellFormed'
      /\ first.op \in {"put", "delete", "clear"}
  BY <1>1, WriterHandles
<1>3. faults' = 0 => InCursorOrder'
  BY <1>1, <1>2, RecordKeepsOrder DEF CursorsInv
<1> HIDE DEF first
<1>4. RowsDistinct'
  <2>1. CASE first.op = "put"
    <3>1. rows' = Upserted(rows, first.entry) /\ ~CursorTaken(rows, first.entry)
      BY <1>1, <2>1 DEF AfterRecord, Refused
    <3> QED BY <3>1 DEF Upserted, CursorTaken, CursorsInv, RowsDistinct
  <2>2. CASE first.op = "delete"
    <3>1. rows' = Deleted(rows, first.id)
      BY <1>1, <2>2 DEF AfterRecord
    <3> QED BY <3>1 DEF Deleted, CursorsInv, RowsDistinct
  <2>3. CASE first.op = "clear"
    <3>1. rows' = NoRows
      BY <1>1, <2>3 DEF AfterRecord
    <3> QED BY <3>1 DEF NoRows, RowsDistinct
  <2> QED BY <1>2, <2>1, <2>2, <2>3
<1> QED BY <1>1, <1>2, <1>3, <1>4 DEF CursorsInv

LEMMA CallFailsKeeps ==
    ASSUME CursorsInv, NEW p \in Procs, CallFails(p) \/ CallNowhere(p)
    PROVE  CursorsInv'
PROOF
<1>1. /\ MayWrite(p)
      /\ \E failed : Continue(p, Tail(call[p].records), failed)
      /\ UNCHANGED <<storageIssued, storageDone, nextCursor, rows, savedCursor>>
      /\ faults' = faults \/ faults' = faults + 1
  BY DEF CallFails, CallNowhere, Fault, outsideVars, memoryVars, faultVars, externalVars
<1>2. Handles(p) /\ TurnsInv' /\ BatchesWellFormed'
  BY <1>1, WriterHandles
<1>3. faults' \in Nat /\ (faults' = 0 => faults = 0)
  BY <1>1 DEF CursorsInv
<1>4. faults' = 0 => InCursorOrder'
  BY <1>1, <1>2, <1>3, RecordKeepsOrder DEF CursorsInv
<1>5. RowsDistinct'
  BY <1>1 DEF CursorsInv, RowsDistinct
<1> QED BY <1>2, <1>3, <1>4, <1>5 DEF CursorsInv

\* The end of persist, and what comes after it.
LEMMA LeavingKeepsCursors ==
    ASSUME CursorsInv, NEW p \in Procs, UNCHANGED externalVars,
           FinishPersist(p) \/ ReportError(p) \/ CloseStorage(p, FALSE)
    PROVE  CursorsInv'
PROOF
<1>1. TurnsInv'
  BY FinishPersistKeeps, ReportErrorKeeps, CloseStorageKeeps DEF CursorsInv
<1>2. DOMAIN call = Procs
  BY DEF CursorsInv, TurnsInv
<1>3. /\ OnlyMoves(p) /\ ~InPersist(p)'
      /\ UNCHANGED <<nextCursor, rows, savedCursor>>
      /\ faults' = faults \/ faults' = faults + 1
  BY <1>2 DEF FinishPersist, ReportError, CloseStorage, OnlyMoves, InPersist, Idle, Fault,
              outsideVars, memoryVars, faultVars, externalVars
<1>4. BatchesWellFormed'
  BY <1>3, OthersKeepTheirBatch DEF BatchesWellFormed, CursorsInv
<1>5. faults' \in Nat /\ (faults' = 0 => faults = 0)
  BY <1>3 DEF CursorsInv
<1>6. faults' = 0 => InCursorOrder'
  BY <1>3, <1>5, LeavingKeepsOrder DEF CursorsInv
<1>7. RowsDistinct'
  BY <1>3 DEF CursorsInv, RowsDistinct
<1> QED BY <1>1, <1>4, <1>5, <1>6, <1>7 DEF CursorsInv

\* No row is above the saved cursor.
LEMMA SavedIsHighest ==
    ASSUME InCursorOrder
    PROVE  LoadedCursor(rows, savedCursor) = savedCursor
PROOF
<1> DEFINE all == {savedCursor} \cup {rows[id].cursor : id \in DOMAIN rows}
<1>1. savedCursor \in all /\ \A c \in all : c \in Nat /\ c <= savedCursor
  BY DEF InCursorOrder
<1> HIDE DEF all
<1>2. \A x \in all : (\A y \in all : x >= y) => x = savedCursor
  BY <1>1
<1>3. savedCursor >= savedCursor /\ \A y \in all : savedCursor >= y
  BY <1>1
<1>4. Max(all) = savedCursor
  BY <1>1, <1>2, <1>3 DEF Max
<1> QED BY <1>4 DEF LoadedCursor, all

\* A start goes on from the saved cursor.
LEMMA RestartKeepsCursors ==
    ASSUME CursorsInv, Restart
    PROVE  CursorsInv'
PROOF
<1>1. TurnsInv' /\ \A p \in Procs : ~InPersist(p)'
  BY FreshProcessKeeps DEF Restart, FreshProcess, InPersist, Idle
<1>2. BatchesWellFormed'
  BY <1>1 DEF BatchesWellFormed
<1>3. /\ \A id \in DOMAIN rows' : id \in DOMAIN rows /\ rows'[id] = rows[id]
      /\ savedCursor' = savedCursor
      /\ faults' = faults \/ faults' = faults + 1
  BY DEF Restart, Open, RowsWithout, Fault, externalVars
<1>4. RowsDistinct'
  BY <1>3 DEF CursorsInv, RowsDistinct
<1>5. faults' \in Nat /\ (faults' = 0 => faults = 0)
  BY <1>3 DEF CursorsInv
<1>6. ASSUME faults' = 0
      PROVE  InCursorOrder'
  <2>1. InCursorOrder
    BY <1>5, <1>6 DEF CursorsInv
  <2>2. nextCursor' = LoadedCursor(rows, savedCursor)
    BY <1>5, <1>6 DEF Restart, Open, Fault, CursorsInv
  <2>3. LoadedCursor(rows, savedCursor) = savedCursor
    BY <2>1, SavedIsHighest
  <2> QED BY <1>1, <1>3, <2>1, <2>2, <2>3 DEF InCursorOrder
<1> QED BY <1>1, <1>2, <1>4, <1>5, <1>6 DEF CursorsInv

LEMMA StutterKeepsCursors ==
    ASSUME CursorsInv,
           UNCHANGED <<storageIssued, storageDone, call, nextCursor, rows, savedCursor, faults>>
    PROVE  CursorsInv'
PROOF
<1>1. TurnsInv'
  BY UnchangedKeeps DEF CursorsInv
<1>2. BatchesWellFormed' /\ RowsDistinct'
  BY DEF CursorsInv, BatchesWellFormed, RowsDistinct, InPersist
<1>3. faults' = 0 => InCursorOrder'
  BY DEF CursorsInv, InCursorOrder, InPersist, Holds, Turn
<1> QED BY <1>1, <1>2, <1>3 DEF CursorsInv

LEMMA CursorsAlways == ExternalSpec => []CursorsInv
PROOF
<1>1. ExternalInit => CursorsInv
  <2> SUFFICES ASSUME ExternalInit PROVE CursorsInv
    OBVIOUS
  <2>1. TurnsInv
    BY InitTurns DEF ExternalInit
  <2>2. \A p \in Procs : ~InPersist(p)
    BY DEF ExternalInit, PersistInit, Init, InPersist, Idle
  <2>3. /\ rows = NoRows /\ savedCursor = 0 /\ nextCursor = 0 /\ faults = 0
    BY DEF ExternalInit, PersistInit, Init
  <2> QED BY <2>1, <2>2, <2>3
        DEF CursorsInv, BatchesWellFormed, RowsDistinct, InCursorOrder, NoRows
<1>2. CursorsInv /\ [ExternalNext]_allVars => CursorsInv'
  <2> SUFFICES ASSUME CursorsInv, [ExternalNext]_allVars PROVE CursorsInv'
    OBVIOUS
  <2>1. ASSUME NEW p \in Procs, MemoryStep(p), UNCHANGED <<faultVars, externalVars>>
        PROVE  CursorsInv'
    BY <2>1, MemoryKeepsCursors
  <2>2. ASSUME NEW p \in Procs, ExternalStep(p)
        PROVE  CursorsInv'
    BY <2>2, CallSucceedsKeeps, CallFailsKeeps, LeavingKeepsCursors DEF ExternalStep
  <2>3. CASE (StreamStep \/ Tick) /\ UNCHANGED <<faultVars, externalVars>>
    <3>1. UNCHANGED <<storageIssued, storageDone, call, nextCursor, rows, savedCursor, faults>>
      BY <2>3 DEF StreamStep, Subscribe, Unsubscribe, Receive, Tick, storageVars, memoryVars,
                  faultVars, externalVars
    <3> QED BY <3>1, StutterKeepsCursors
  <2>4. CASE Restart
    BY <2>4, RestartKeepsCursors
  <2>5. CASE UNCHANGED allVars
    <3>1. UNCHANGED <<storageIssued, storageDone, call, nextCursor, rows, savedCursor, faults>>
      BY <2>5 DEF allVars, vars, storageVars, memoryVars, faultVars, externalVars
    <3> QED BY <3>1, StutterKeepsCursors
  <2> QED BY <2>1, <2>2, <2>3, <2>4, <2>5 DEF ExternalNext
<1> QED BY <1>1, <1>2, PTL DEF ExternalSpec

\* No two rows of the table share a cursor, whatever fails, and until
\* something does none is above the saved cursor, from which the next start
\* goes on counting (put, persist and openExternalStorage, store.go; the
\* UNIQUE column of storage/sqlite).
THEOREM CursorsStayUnique == ExternalSpec => []CursorsUnique
PROOF
<1>1. CursorsInv => CursorsUnique
  BY DEF CursorsInv, CursorsUnique, RowsDistinct, InCursorOrder
<1> QED BY <1>1, CursorsAlways, PTL

\* One writer at a time inside the external storage, the one whose turn it
\* is: "Calls are serialized" (storage.go), whatever fails.
THEOREM ExternalHasOneWriter == ExternalSpec => []OneWriterInTurn
PROOF
<1>1. CursorsInv => OneWriterInTurn
  BY TurnsInvSuffices DEF CursorsInv
<1> QED BY <1>1, CursorsAlways, PTL

-----------------------------------------------------------------------------
(* The table, one record after the other.                                  *)

Written(table, records) == FoldLeft(AfterRecord, table, records)

\* The fold as a function of the positions it has gone through.
WrittenBy(g, table, s, D) ==
    g = [T \in SUBSET D |-> IF T = {} THEN table
           ELSE AfterRecord(g[T \ {Max(T)}], s[Max(T)])]

LEMMA WrittenFolds ==
    ASSUME NEW table, NEW s
    PROVE  Written(table, s) = (CHOOSE g : WrittenBy(g, table, s, DOMAIN s))[DOMAIN s]
BY DEF Written, FoldLeft, MapThenFoldSet, WrittenBy

LEMMA WrittenExists ==
    ASSUME NEW table, NEW s, NEW n \in Nat
    PROVE  \E g : WrittenBy(g, table, s, 1..n)
PROOF
<1> DEFINE P == {k \in 0..n : \E g : WrittenBy(g, table, s, 1..k)}
<1>1. 0 \in P
  <2> DEFINE z == [T \in SUBSET {} |-> table]
  <2>1. 1..0 = {}
    OBVIOUS
  <2>2. WrittenBy(z, table, s, {})
    BY DEF WrittenBy
  <2> QED BY <2>1, <2>2
<1>2. ASSUME NEW k \in 0..(n - 1), k \in P PROVE (k + 1) \in P
  <2>1. PICK g : WrittenBy(g, table, s, 1..k)
    BY <1>2
  <2> DEFINE last == k + 1
             G == [T \in SUBSET (1..last) |->
                     IF last \in T THEN AfterRecord(g[T \ {last}], s[last]) ELSE g[T]]
  <2>2. /\ 1..k \subseteq 1..last /\ last \notin 1..k
        /\ \A T \in SUBSET (1..last) : T \ {last} \in SUBSET (1..k)
        /\ \A T \in SUBSET (1..last) : last \in T => Max(T) = last
    <3>1. k \in Nat
      OBVIOUS
    <3>2. 1..k \subseteq 1..last /\ last \notin 1..k /\ (1..last) \ {last} = 1..k
      BY <3>1
    <3>3. \A T \in SUBSET (1..last) : T \ {last} \in SUBSET (1..k)
      BY <3>2
    <3> QED BY <3>1, <3>2, <3>3, LastOfPrefix
  <2> HIDE DEF last
  <2>3. ASSUME NEW T \in SUBSET (1..last)
        PROVE  G[T] = IF T = {} THEN table ELSE AfterRecord(G[T \ {Max(T)}], s[Max(T)])
    <3>1. CASE last \in T
      <4>1. Max(T) = last /\ T # {}
        BY <3>1, <2>2
      <4>2. G[T \ {last}] = g[T \ {last}]
        BY <2>2
      <4>3. G[T] = AfterRecord(g[T \ {last}], s[last])
        BY <3>1
      <4> HIDE DEF G
      <4> QED BY <4>1, <4>2, <4>3
    <3>2. CASE last \notin T
      <4>1. T \in SUBSET (1..k) /\ T \ {Max(T)} \in SUBSET (1..k)
        BY <3>2, <2>2
      <4>2. G[T] = g[T] /\ G[T \ {Max(T)}] = g[T \ {Max(T)}]
        BY <3>2, <4>1, <2>2
      <4> HIDE DEF G
      <4> QED BY <2>1, <4>1, <4>2 DEF WrittenBy
    <3> QED BY <3>1, <3>2
  <2>4. G = [T \in SUBSET (1..last) |-> G[T]]
    OBVIOUS
  <2> HIDE DEF G
  <2>5. WrittenBy(G, table, s, 1..last)
    BY <2>3, <2>4 DEF WrittenBy
  <2> QED BY <2>5 DEF last
<1>3. n \in P
  <2> HIDE DEF P
  <2> QED BY <1>1, <1>2, Upwards
<1> QED BY <1>3

\* What one more record does.
LEMMA WrittenUnfolds ==
    ASSUME NEW E, NEW table, NEW s \in Seq(E), NEW e \in E
    PROVE  /\ Written(table, <<>>) = table
           /\ Written(table, Append(s, e)) = AfterRecord(Written(table, s), e)
PROOF
<1> DEFINE n == Len(s)
           last == n + 1
           t == Append(s, e)
           g == CHOOSE f : WrittenBy(f, table, s, 1..n)
           h == CHOOSE f : WrittenBy(f, table, t, 1..last)
           z == CHOOSE f : WrittenBy(f, table, <<>>, 1..0)
<1>1. /\ n \in Nat /\ last \in Nat /\ DOMAIN s = 1..n /\ DOMAIN t = 1..last
      /\ t[last] = e /\ \A i \in 1..n : t[i] = s[i]
      /\ 1..0 = {} /\ DOMAIN <<>> = 1..0
      /\ \A i \in 0..n : 1..i \in SUBSET (1..n) /\ 1..i \in SUBSET (1..last)
      /\ last \in 1..last /\ 1..last \in SUBSET (1..last) /\ 1..last # {}
      /\ \A k \in 0..(n - 1) :
           k \in Nat /\ k + 1 \in 0..n /\ k + 1 \in 1..n /\ k + 1 \in 1..(k + 1)
  OBVIOUS
<1>2. /\ Written(table, s) = g[1..n] /\ Written(table, t) = h[1..last]
      /\ Written(table, <<>>) = z[1..0]
  <2> HIDE DEF n, last, t
  <2> QED BY <1>1, WrittenFolds
<1>3. /\ WrittenBy(g, table, s, 1..n) /\ WrittenBy(h, table, t, 1..last)
      /\ WrittenBy(z, table, <<>>, 1..0)
  <2>1. 0 \in Nat
    OBVIOUS
  <2> HIDE DEF n, last, t
  <2> QED BY <1>1, <2>1, WrittenExists
<1> HIDE DEF g, h, z, n, t
<1>4. z[1..0] = table
  BY <1>1, <1>3 DEF WrittenBy
<1>5. /\ Max(1..last) = last /\ (1..last) \ {last} = 1..n
      /\ \A k \in Nat : Max(1..(k + 1)) = k + 1 /\ (1..(k + 1)) \ {k + 1} = 1..k
  BY <1>1, LastOfPrefix
<1>6. h[1..last] = AfterRecord(h[1..n], e)
  <2>1. /\ 1..last # {} /\ 1..last \in SUBSET (1..last) /\ t[last] = e
        /\ Max(1..last) = last /\ (1..last) \ {last} = 1..n
    BY <1>1, <1>5
  <2>2. WrittenBy(h, table, t, 1..last)
    BY <1>3
  <2> HIDE DEF last
  <2> QED BY <2>1, <2>2 DEF WrittenBy
<1>7. h[1..n] = g[1..n]
  <2> DEFINE P == {k \in 0..n : h[1..k] = g[1..k]}
  <2>1. 0 \in P
    <3>1. {} \in SUBSET (1..n) /\ {} \in SUBSET (1..last)
      OBVIOUS
    <3>2. h[{}] = table /\ g[{}] = table
      <4> HIDE DEF last
      <4> QED BY <1>3, <3>1 DEF WrittenBy
    <3> QED BY <1>1, <3>2
  <2>2. ASSUME NEW k \in 0..(n - 1), k \in P PROVE (k + 1) \in P
    <3> DEFINE j == k + 1
    <3>1. k \in Nat /\ j \in 0..n /\ j \in 1..n /\ j \in 1..j
      BY <1>1
    <3>2. Max(1..j) = j /\ (1..j) \ {j} = 1..k
      BY <1>5, <3>1
    <3> HIDE DEF j, last
    <3> DEFINE upto == 1..j
    <3>3. /\ upto # {} /\ upto \in SUBSET (1..n) /\ upto \in SUBSET (1..last)
          /\ s[j] = t[j] /\ Max(upto) = j /\ upto \ {j} = 1..k
      BY <1>1, <3>1, <3>2
    <3>4. WrittenBy(g, table, s, 1..n) /\ WrittenBy(h, table, t, 1..last)
      BY <1>3
    <3> HIDE DEF upto
    <3>5. h[upto] = AfterRecord(h[1..k], t[j])
      BY <3>3, <3>4 DEF WrittenBy
    <3>6. g[upto] = AfterRecord(g[1..k], s[j])
      BY <3>3, <3>4 DEF WrittenBy
    <3>7. j \in P
      BY <2>2, <3>1, <3>3, <3>5, <3>6 DEF upto
    <3> QED BY <3>7 DEF j
  <2>3. n \in P
    <3> HIDE DEF P
    <3> QED BY <1>1, <2>1, <2>2, Upwards
  <2> QED BY <2>3
<1> QED BY <1>2, <1>4, <1>6, <1>7 DEF t

LEMMA WrittenOfNone ==
    ASSUME NEW table
    PROVE  Written(table, <<>>) = table
PROOF
<1>1. <<>> \in Seq({0}) /\ 0 \in {0}
  OBVIOUS
<1> QED BY <1>1, WrittenUnfolds

\* One part of the records after the other.
LEMMA WrittenInParts ==
    ASSUME NEW E, NEW table, NEW s \in Seq(E), NEW t \in Seq(E)
    PROVE  Written(table, s \o t) = Written(Written(table, s), t)
PROOF
<1> DEFINE P == {u \in Seq(E) : Written(table, s \o u) = Written(Written(table, s), u)}
<1>1. <<>> \in P
  <2>1. s \o <<>> = s /\ <<>> \in Seq(E)
    BY ConcatEmptySeq
  <2>2. Written(Written(table, s), <<>>) = Written(table, s)
    BY WrittenOfNone
  <2> QED BY <2>1, <2>2
<1>2. ASSUME NEW u \in Seq(E), NEW e \in E, u \in P
      PROVE  Append(u, e) \in P
  <2>1. s \o Append(u, e) = Append(s \o u, e) /\ s \o u \in Seq(E) /\ Append(u, e) \in Seq(E)
    <3>1. Append(u, e) = u \o <<e>> /\ <<e>> \in Seq(E) /\ s \o u \in Seq(E)
      BY AppendIsConcat, ConcatProperties
    <3>2. Append(s \o u, e) = (s \o u) \o <<e>>
      BY <3>1, AppendIsConcat
    <3> QED BY <3>1, <3>2, ConcatAssociative
  <2>2. Written(table, Append(s \o u, e)) = AfterRecord(Written(table, s \o u), e)
    <3> DEFINE su == s \o u
    <3>1. su \in Seq(E)
      BY <2>1
    <3> HIDE DEF su
    <3>2. Written(table, Append(su, e)) = AfterRecord(Written(table, su), e)
      BY <3>1, WrittenUnfolds
    <3> QED BY <3>2 DEF su
  <2>3. Written(Written(table, s), Append(u, e))
          = AfterRecord(Written(Written(table, s), u), e)
    BY WrittenUnfolds
  <2> QED BY <1>2, <2>1, <2>2, <2>3
<1>3. t \in P
  <2> HIDE DEF P
  <2> QED BY <1>1, <1>2, ByAppending
<1> QED BY <1>3

LEMMA WrittenOfOne ==
    ASSUME NEW table, NEW e
    PROVE  Written(table, <<e>>) = AfterRecord(table, e)
PROOF
<1> DEFINE none == <<>>
           E == {e}
<1>1. Append(none, e) = <<e>>
  OBVIOUS
<1>0. none \in Seq(E) /\ e \in E
  OBVIOUS
<1> HIDE DEF none, E
<1>2. Written(table, Append(none, e)) = AfterRecord(Written(table, none), e)
  BY <1>0, WrittenUnfolds
<1> QED BY <1>1, <1>2, WrittenOfNone DEF none

-----------------------------------------------------------------------------
(* The rows, loaded one after the other.                                   *)

WithRow(table, m, id) == Replace(m, table[id])

Loading(table, ids) == FoldLeft(LAMBDA m, id : Replace(m, table[id]), EmptyMemory, ids)

\* The fold as a function of the positions it has gone through.
LoadingBy(g, table, s, D) ==
    g = [T \in SUBSET D |-> IF T = {} THEN EmptyMemory
           ELSE WithRow(table, g[T \ {Max(T)}], s[Max(T)])]

LEMMA LoadingFolds ==
    ASSUME NEW table, NEW s
    PROVE  Loading(table, s) = (CHOOSE g : LoadingBy(g, table, s, DOMAIN s))[DOMAIN s]
BY DEF Loading, WithRow, FoldLeft, MapThenFoldSet, LoadingBy

LEMMA LoadingExists ==
    ASSUME NEW table, NEW s, NEW n \in Nat
    PROVE  \E g : LoadingBy(g, table, s, 1..n)
PROOF
<1> DEFINE P == {k \in 0..n : \E g : LoadingBy(g, table, s, 1..k)}
<1>1. 0 \in P
  <2> DEFINE z == [T \in SUBSET {} |-> EmptyMemory]
  <2>1. 1..0 = {}
    OBVIOUS
  <2>2. LoadingBy(z, table, s, {})
    BY DEF LoadingBy
  <2> QED BY <2>1, <2>2
<1>2. ASSUME NEW k \in 0..(n - 1), k \in P PROVE (k + 1) \in P
  <2>1. PICK g : LoadingBy(g, table, s, 1..k)
    BY <1>2
  <2> DEFINE last == k + 1
             G == [T \in SUBSET (1..last) |->
                     IF last \in T THEN WithRow(table, g[T \ {last}], s[last]) ELSE g[T]]
  <2>2. /\ 1..k \subseteq 1..last /\ last \notin 1..k
        /\ \A T \in SUBSET (1..last) : T \ {last} \in SUBSET (1..k)
        /\ \A T \in SUBSET (1..last) : last \in T => Max(T) = last
    <3>1. k \in Nat
      OBVIOUS
    <3>2. 1..k \subseteq 1..last /\ last \notin 1..k /\ (1..last) \ {last} = 1..k
      BY <3>1
    <3>3. \A T \in SUBSET (1..last) : T \ {last} \in SUBSET (1..k)
      BY <3>2
    <3> QED BY <3>1, <3>2, <3>3, LastOfPrefix
  <2> HIDE DEF last
  <2>3. ASSUME NEW T \in SUBSET (1..last)
        PROVE  G[T] = IF T = {} THEN EmptyMemory ELSE WithRow(table, G[T \ {Max(T)}], s[Max(T)])
    <3>1. CASE last \in T
      <4>1. Max(T) = last /\ T # {}
        BY <3>1, <2>2
      <4>2. G[T \ {last}] = g[T \ {last}]
        BY <2>2
      <4>3. G[T] = WithRow(table, g[T \ {last}], s[last])
        BY <3>1
      <4> HIDE DEF G
      <4> QED BY <4>1, <4>2, <4>3
    <3>2. CASE last \notin T
      <4>1. T \in SUBSET (1..k) /\ T \ {Max(T)} \in SUBSET (1..k)
        BY <3>2, <2>2
      <4>2. G[T] = g[T] /\ G[T \ {Max(T)}] = g[T \ {Max(T)}]
        BY <3>2, <4>1, <2>2
      <4> HIDE DEF G
      <4> QED BY <2>1, <4>1, <4>2 DEF LoadingBy
    <3> QED BY <3>1, <3>2
  <2>4. G = [T \in SUBSET (1..last) |-> G[T]]
    OBVIOUS
  <2> HIDE DEF G
  <2>5. LoadingBy(G, table, s, 1..last)
    BY <2>3, <2>4 DEF LoadingBy
  <2> QED BY <2>5 DEF last
<1>3. n \in P
  <2> HIDE DEF P
  <2> QED BY <1>1, <1>2, Upwards
<1> QED BY <1>3

\* What one more record does.
LEMMA LoadingUnfolds ==
    ASSUME NEW E, NEW table, NEW s \in Seq(E), NEW e \in E
    PROVE  /\ Loading(table, <<>>) = EmptyMemory
           /\ Loading(table, Append(s, e)) = WithRow(table, Loading(table, s), e)
PROOF
<1> DEFINE n == Len(s)
           last == n + 1
           t == Append(s, e)
           g == CHOOSE f : LoadingBy(f, table, s, 1..n)
           h == CHOOSE f : LoadingBy(f, table, t, 1..last)
           z == CHOOSE f : LoadingBy(f, table, <<>>, 1..0)
<1>1. /\ n \in Nat /\ last \in Nat /\ DOMAIN s = 1..n /\ DOMAIN t = 1..last
      /\ t[last] = e /\ \A i \in 1..n : t[i] = s[i]
      /\ 1..0 = {} /\ DOMAIN <<>> = 1..0
      /\ \A i \in 0..n : 1..i \in SUBSET (1..n) /\ 1..i \in SUBSET (1..last)
      /\ last \in 1..last /\ 1..last \in SUBSET (1..last) /\ 1..last # {}
      /\ \A k \in 0..(n - 1) :
           k \in Nat /\ k + 1 \in 0..n /\ k + 1 \in 1..n /\ k + 1 \in 1..(k + 1)
  OBVIOUS
<1>2. /\ Loading(table, s) = g[1..n] /\ Loading(table, t) = h[1..last]
      /\ Loading(table, <<>>) = z[1..0]
  <2> HIDE DEF n, last, t
  <2> QED BY <1>1, LoadingFolds
<1>3. /\ LoadingBy(g, table, s, 1..n) /\ LoadingBy(h, table, t, 1..last)
      /\ LoadingBy(z, table, <<>>, 1..0)
  <2>1. 0 \in Nat
    OBVIOUS
  <2> HIDE DEF n, last, t
  <2> QED BY <1>1, <2>1, LoadingExists
<1> HIDE DEF g, h, z, n, t
<1>4. z[1..0] = EmptyMemory
  BY <1>1, <1>3 DEF LoadingBy
<1>5. /\ Max(1..last) = last /\ (1..last) \ {last} = 1..n
      /\ \A k \in Nat : Max(1..(k + 1)) = k + 1 /\ (1..(k + 1)) \ {k + 1} = 1..k
  BY <1>1, LastOfPrefix
<1>6. h[1..last] = WithRow(table, h[1..n], e)
  <2>1. /\ 1..last # {} /\ 1..last \in SUBSET (1..last) /\ t[last] = e
        /\ Max(1..last) = last /\ (1..last) \ {last} = 1..n
    BY <1>1, <1>5
  <2>2. LoadingBy(h, table, t, 1..last)
    BY <1>3
  <2> HIDE DEF last
  <2> QED BY <2>1, <2>2 DEF LoadingBy
<1>7. h[1..n] = g[1..n]
  <2> DEFINE P == {k \in 0..n : h[1..k] = g[1..k]}
  <2>1. 0 \in P
    <3>1. {} \in SUBSET (1..n) /\ {} \in SUBSET (1..last)
      OBVIOUS
    <3>2. h[{}] = EmptyMemory /\ g[{}] = EmptyMemory
      <4> HIDE DEF last
      <4> QED BY <1>3, <3>1 DEF LoadingBy
    <3> QED BY <1>1, <3>2
  <2>2. ASSUME NEW k \in 0..(n - 1), k \in P PROVE (k + 1) \in P
    <3> DEFINE j == k + 1
    <3>1. k \in Nat /\ j \in 0..n /\ j \in 1..n /\ j \in 1..j
      BY <1>1
    <3>2. Max(1..j) = j /\ (1..j) \ {j} = 1..k
      BY <1>5, <3>1
    <3> HIDE DEF j, last
    <3> DEFINE upto == 1..j
    <3>3. /\ upto # {} /\ upto \in SUBSET (1..n) /\ upto \in SUBSET (1..last)
          /\ s[j] = t[j] /\ Max(upto) = j /\ upto \ {j} = 1..k
      BY <1>1, <3>1, <3>2
    <3>4. LoadingBy(g, table, s, 1..n) /\ LoadingBy(h, table, t, 1..last)
      BY <1>3
    <3> HIDE DEF upto
    <3>5. h[upto] = WithRow(table, h[1..k], t[j])
      BY <3>3, <3>4 DEF LoadingBy
    <3>6. g[upto] = WithRow(table, g[1..k], s[j])
      BY <3>3, <3>4 DEF LoadingBy
    <3>7. j \in P
      BY <2>2, <3>1, <3>3, <3>5, <3>6 DEF upto
    <3> QED BY <3>7 DEF j
  <2>3. n \in P
    <3> HIDE DEF P
    <3> QED BY <1>1, <2>1, <2>2, Upwards
  <2> QED BY <2>3
<1> QED BY <1>2, <1>4, <1>6, <1>7 DEF t

-----------------------------------------------------------------------------
(* What the records of a batch make of the table.                          *)

Without(table, gone) == [id \in DOMAIN table \ gone |-> table[id]]

IsTable(table) == table = [id \in DOMAIN table |-> table[id]]

LEMMA EntriesAreTable ==
    ASSUME NEW table, Typed(table)
    PROVE  IsTable(table)
PROOF
<1>1. table \in [DOMAIN table -> Entries]
  BY DEF Typed
<1> QED BY <1>1 DEF IsTable

\* A replaced entry is an upserted row, a dropped one a deleted row.
LEMMA ReplaceUpserts ==
    ASSUME NEW m, NEW entry
    PROVE  Replace(m, entry).entries = Upserted(m.entries, entry)
PROOF
<1> DEFINE id == entry.id
           f == Forget(m, id)
<1>1. CASE id \notin Stored(m)
  <2>1. f = m
    BY <1>1 DEF Forget
  <2> QED BY <2>1 DEF Replace, Insert, Upserted, Stored
<1>2. CASE id \in Stored(m)
  <2>1. f.entries = [x \in Stored(m) \ {id} |-> m.entries[x]]
    BY <1>2 DEF Forget
  <2>2. DOMAIN f.entries = Stored(m) \ {id}
        /\ \A x \in Stored(m) \ {id} : f.entries[x] = m.entries[x]
    BY <2>1
  <2> HIDE DEF f
  <2>3. Insert(f, entry).entries =
          [x \in Stored(f) \cup {id} |-> IF x = id THEN entry ELSE f.entries[x]]
    BY DEF Insert
  <2>4. Stored(f) \cup {id} = Stored(m) \cup {id}
    BY <2>2 DEF Stored
  <2>5. Insert(f, entry).entries =
          [x \in Stored(m) \cup {id} |-> IF x = id THEN entry ELSE m.entries[x]]
    <3>1. \A x \in Stored(m) \cup {id} :
            (IF x = id THEN entry ELSE f.entries[x]) = (IF x = id THEN entry ELSE m.entries[x])
      BY <2>2
    <3> HIDE DEF id
    <3> QED BY <2>3, <2>4, <3>1
  <2> QED BY <2>5 DEF Replace, Upserted, Stored, f
<1> QED BY <1>1, <1>2

LEMMA DropDeletes ==
    ASSUME NEW m, NEW k
    PROVE  DropOldest(m, k).entries = Without(m.entries, Oldest(m, k))
BY DEF DropOldest, Without, Oldest, Stored

LEMMA DeletesWritten ==
    ASSUME NEW m, Exact(m), NEW table, IsTable(table), NEW k \in 0..Len(m.order)
    PROVE  Written(table, DeleteRecords(m, k)) = Without(table, Oldest(m, k))
PROOF
<1> DEFINE done(j) == Written(table, DeleteRecords(m, j))
           left(j) == Without(table, Oldest(m, j))
           P == {j \in 0..k : done(j) = left(j)}
<1>0. k \in Nat /\ Len(m.order) \in Nat
  BY DEF Exact
<1>1. 0 \in P
  <2>1. DeleteRecords(m, 0) = <<>>
    BY DEF DeleteRecords
  <2>2. done(0) = table
    BY <2>1, WrittenOfNone
  <2>3. left(0) = table
    <3>1. Oldest(m, 0) = {}
      BY DEF Oldest
    <3>2. Without(table, {}) = [id \in DOMAIN table |-> table[id]]
      BY DEF Without
    <3> QED BY <3>1, <3>2 DEF IsTable
  <2> QED BY <1>0, <2>2, <2>3
<1>2. ASSUME NEW j \in 0..(k - 1), j \in P PROVE (j + 1) \in P
  <2> DEFINE next == j + 1
             E == Records
             s == DeleteRecords(m, j)
             record == [op |-> "delete", id |-> m.order[next]]
  <2>1. j \in Nat /\ next \in 0..Len(m.order) /\ next \in 0..k /\ next \in 1..next
        /\ \A i : i \in 1..next <=> i \in 1..j \/ i = next
    BY <1>0
  <2>2. next = j + 1
    OBVIOUS
  <2> HIDE DEF next
  <2>3. s \in Seq(E) /\ DeleteRecords(m, next) = Append(s, record)
    BY <2>1, <2>2, DeletesInSteps
  <2>4. record \in E
    <3>1. m.order[next] \in Ids
      BY <1>0, <2>1, <2>2 DEF Exact
    <3> QED BY <3>1, RecordsAreTyped
  <2>5. AfterRecord(left(j), record) = Deleted(left(j), m.order[next])
    BY DEF AfterRecord
  <2> HIDE DEF E, s, record
  <2>6. done(next) = AfterRecord(Written(table, s), record)
    BY <2>3, <2>4, WrittenUnfolds
  <2>7. Written(table, s) = left(j)
    BY <1>2 DEF s
  <2>8. Deleted(left(j), m.order[next]) = left(next)
    <3>1. Oldest(m, next) = Oldest(m, j) \cup {m.order[next]}
      BY <2>1 DEF Oldest
    <3> QED BY <3>1 DEF Deleted, Without
  <2>9. next \in P
    BY <2>1, <2>5, <2>6, <2>7, <2>8
  <2> QED BY <2>9 DEF next
<1>3. k \in P
  <2> HIDE DEF P
  <2> QED BY <1>0, <1>1, <1>2, Upwards
<1> QED BY <1>3

\* The records of a change make of the table what the change makes of memory.
LEMMA ChangeWritten ==
    ASSUME MemoryInv, NEW records \in Seq(Records), Changes(records)
    PROVE  Written(memory.entries, records) = memory'.entries
PROOF
<1> DEFINE table == memory.entries
<1>0. Sound(memory) /\ Exact(memory) /\ IsTable(table)
  BY EntriesAreTable DEF MemoryInv, Sound
<1>1. CASE Leaves(records)
  BY <1>1, WrittenOfNone DEF Leaves
<1>2. CASE Purges(records)
  <2>1. PICK k \in 0..Len(memory.order) :
          records = DeleteRecords(memory, k) /\ memory' = DropOldest(memory, k)
    BY <1>2 DEF Purges
  <2>2. Written(table, DeleteRecords(memory, k)) = Without(table, Oldest(memory, k))
    BY <1>0, DeletesWritten
  <2> QED BY <2>1, <2>2, DropDeletes
<1>3. CASE Puts(records)
  <2>a. PICK entry \in Entries, k \in 0..Len(memory.order) :
          \E replaced :
          \E e \in 0..Len(replaced.order) :
            /\ Sound(DropOldest(memory, k))
            /\ replaced = Replace(DropOldest(memory, k), entry) /\ Sound(replaced)
            /\ memory' = DropOldest(replaced, e)
            /\ entry.id \notin {replaced.order[i] : i \in 1..e}
            /\ records = DeleteRecords(memory, k) \o DeleteRecords(replaced, e)
                           \o <<PutRecord(entry)>>
    BY <1>3 DEF Puts
  <2>1. PICK replaced :
          \E e \in 0..Len(replaced.order) :
            /\ Sound(DropOldest(memory, k))
            /\ replaced = Replace(DropOldest(memory, k), entry) /\ Sound(replaced)
            /\ memory' = DropOldest(replaced, e)
            /\ entry.id \notin {replaced.order[i] : i \in 1..e}
            /\ records = DeleteRecords(memory, k) \o DeleteRecords(replaced, e)
                           \o <<PutRecord(entry)>>
    BY <2>a
  <2>2. PICK e \in 0..Len(replaced.order) :
            /\ Sound(DropOldest(memory, k))
            /\ replaced = Replace(DropOldest(memory, k), entry) /\ Sound(replaced)
            /\ memory' = DropOldest(replaced, e)
            /\ entry.id \notin {replaced.order[i] : i \in 1..e}
            /\ records = DeleteRecords(memory, k) \o DeleteRecords(replaced, e)
                           \o <<PutRecord(entry)>>
    BY <2>1
  <2> DEFINE R == Records
             s == DeleteRecords(memory, k)
             t == DeleteRecords(replaced, e)
             record == PutRecord(entry)
             A == Oldest(memory, k)
             B == Oldest(replaced, e)
             purged == Without(table, A)
  <2>3. s \in Seq(R) /\ t \in Seq(R)
    BY <1>0, <2>2, DeletesAreTyped DEF Sound
  <2>4. record \in R
    BY RecordsAreTyped
  <2>5. Written(table, s) = purged
    BY <1>0, DeletesWritten
  <2>6. IsTable(purged)
    BY DEF IsTable, Without
  <2>7. Written(purged, t) = Without(purged, B)
    <3> HIDE DEF purged
    <3> QED BY <2>2, <2>6, DeletesWritten DEF Sound
  <2>8. AfterRecord(Without(purged, B), record) = Upserted(Without(purged, B), entry)
    BY DEF AfterRecord, PutRecord
  <2>9. records = (s \o t) \o <<record>>
    BY <2>2
  <2>10. entry.id \notin B
    BY <2>2 DEF Oldest
  <2>11. memory'.entries = Without(Upserted(purged, entry), B)
    <3>1. DropOldest(memory, k).entries = purged
      BY DropDeletes
    <3>2. replaced.entries = Upserted(purged, entry)
      BY <2>2, <3>1, ReplaceUpserts
    <3> QED BY <2>2, <3>2, DropDeletes
  <2>12. Upserted(Without(purged, B), entry) = Without(Upserted(purged, entry), B)
    <3> HIDE DEF purged, B
    <3> DEFINE id == entry.id
               d == DOMAIN purged
               lhs(x) == IF x = id THEN entry ELSE Without(purged, B)[x]
               rhs(x) == Upserted(purged, entry)[x]
    <3>1. DOMAIN Without(purged, B) = d \ B /\ \A x \in d \ B : Without(purged, B)[x] = purged[x]
      BY DEF Without
    <3>2. /\ DOMAIN Upserted(purged, entry) = d \cup {id}
          /\ \A x \in d \cup {id} :
               Upserted(purged, entry)[x] = IF x = id THEN entry ELSE purged[x]
      BY DEF Upserted
    <3>3. Upserted(Without(purged, B), entry) = [x \in (d \ B) \cup {id} |-> lhs(x)]
      BY <3>1 DEF Upserted
    <3>4. Without(Upserted(purged, entry), B) = [x \in (d \cup {id}) \ B |-> rhs(x)]
      BY <3>2 DEF Without
    <3>5. (d \ B) \cup {id} = (d \cup {id}) \ B
      BY <2>10
    <3>6. \A x \in (d \cup {id}) \ B : lhs(x) = rhs(x)
      BY <3>1, <3>2, <2>10
    <3> HIDE DEF lhs, rhs, d, id
    <3> QED BY <3>3, <3>4, <3>5, <3>6
  <2> HIDE DEF R, s, t, record, purged, A, B, table
  <2>13. Written(table, (s \o t) \o <<record>>) = AfterRecord(Without(purged, B), record)
    <3> DEFINE u == s \o t
               one == <<record>>
               w == Without(purged, B)
    <3>1. u \in Seq(R) /\ one \in Seq(R)
      BY <2>3, <2>4
    <3>2. Written(table, u) = Written(Written(table, s), t)
      BY <2>3, WrittenInParts
    <3>3. Written(table, u) = w
      BY <2>5, <2>7, <3>2
    <3> HIDE DEF u, w
    <3>4. Written(w, one) = AfterRecord(w, record)
      BY WrittenOfOne
    <3> HIDE DEF one
    <3>5. Written(table, u \o one) = Written(Written(table, u), one)
      BY <3>1, WrittenInParts
    <3> QED BY <3>3, <3>4, <3>5 DEF u, one, w
  <2> QED BY <2>8, <2>9, <2>11, <2>12, <2>13 DEF table
<1>4. CASE Clears(records)
  <2>1. PICK cursor \in Nat : records = <<ClearRecord(cursor)>> /\ memory' = EmptyMemory
    BY <1>4 DEF Clears
  <2>2. AfterRecord(table, ClearRecord(cursor)) = NoRows
    BY DEF AfterRecord, ClearRecord
  <2>3. EmptyMemory.entries = NoRows
    BY DEF EmptyMemory, NoRows
  <2> DEFINE record == ClearRecord(cursor)
  <2> HIDE DEF record, table
  <2>4. Written(table, <<record>>) = AfterRecord(table, record)
    BY WrittenOfOne
  <2> QED BY <2>1, <2>2, <2>3, <2>4 DEF record, table
<1> QED BY <1>1, <1>2, <1>3, <1>4 DEF Changes

-----------------------------------------------------------------------------
(* The table and memory.                                                   *)

(***************************************************************************)
(* The inductive invariant.  TableCatchesUp says what is true while        *)
(* nothing has failed; DivergenceReported needs the same to hold as long   *)
(* as no error is known or on its way to storageError (Clean).             *)
(***************************************************************************)
TableInv ==
    /\ MemoryInv /\ OpenInv
    /\ Typed(rows) /\ IsFiniteSet(DOMAIN rows)
    /\ savedCursor \in Nat
    /\ BatchesOf(Records)
    /\ faults = 0 => Clean
    /\ handle /\ Clean => Written(rows, Unwritten) = memory.entries

LEMMA AfterRecordTyped ==
    ASSUME NEW table, Typed(table), IsFiniteSet(DOMAIN table), NEW record \in Records
    PROVE  Typed(AfterRecord(table, record)) /\ IsFiniteSet(DOMAIN AfterRecord(table, record))
PROOF
<1> DEFINE after == AfterRecord(table, record)
<1>1. CASE record.op = "put"
  <2>1. after = Upserted(table, record.entry) /\ record.entry \in Entries
    BY <1>1 DEF AfterRecord, Records
  <2> DEFINE entry == record.entry
  <2>2. /\ DOMAIN after = DOMAIN table \cup {entry.id}
        /\ after = [id \in DOMAIN table \cup {entry.id} |-> after[id]]
        /\ \A id \in DOMAIN after :
             after[id] = IF id = entry.id THEN entry ELSE table[id]
    BY <2>1 DEF Upserted
  <2>3. entry \in Entries
    BY <2>1
  <2> HIDE DEF after, entry
  <2>4. IsFiniteSet(DOMAIN table \cup {entry.id})
    BY FS_AddElement
  <2>5. \A id \in DOMAIN after : after[id] \in Entries /\ after[id].id = id
    BY <2>2, <2>3 DEF Typed
  <2> QED BY <2>2, <2>4, <2>5 DEF Typed, after
<1>2. CASE record.op = "delete"
  <2>1. after = [x \in DOMAIN table \ {record.id} |-> table[x]]
    BY <1>2 DEF AfterRecord, Deleted
  <2>2. IsFiniteSet(DOMAIN table \ {record.id})
    BY FS_RemoveElement
  <2> QED BY <2>1, <2>2 DEF Typed
<1>3. CASE record.op = "clear"
  <2>1. after = NoRows
    BY <1>3 DEF AfterRecord
  <2>2. DOMAIN NoRows = {} /\ NoRows \in [{} -> Entries]
    BY DEF NoRows
  <2>3. IsFiniteSet({})
    BY FS_EmptySet
  <2> QED BY <2>1, <2>2, <2>3 DEF Typed
<1>4. record.op \in {"put", "delete", "clear"}
  BY DEF Records
<1> QED BY <1>1, <1>2, <1>3, <1>4

LEMMA MemoryStepCatchesUp ==
    ASSUME TurnsInv, TableInv, NEW p \in Procs, MemoryStep(p),
           UNCHANGED <<faultVars, externalVars>>
    PROVE  TableInv'
PROOF
<1> DEFINE R == Records
<1>1. DOMAIN call = Procs /\ MemoryInv /\ OpenInv /\ BatchesOf(R)
  BY DEF TurnsInv, TableInv
<1>2. TurnsInv'
  BY MemoryStepKeeps
<1>3. PICK records \in Seq(R) : Changes(records) /\ Told(p, records)
  BY <1>1, MemoryStepIssues
<1>4. MemoryInv'
  BY <1>1, MemoryStepIssues
<1>5. UNCHANGED <<storageError, faults, rows, savedCursor>>
  BY DEF faultVars, externalVars
<1>6. OpenInv' /\ (Clean' <=> Clean)
  BY <1>1, <1>5, MemoryStepKeepsOpen
<1>7. OnlyMoves(p) /\ handle' = handle
  BY <1>1, MemoryStepSpares
<1>8. BatchesOf(R)'
  <2>1. InPersist(p)' => call'[p].records \in Seq(R)
    BY <1>3 DEF Told, StaysOutside
  <2> HIDE DEF R
  <2> QED BY <1>1, <1>7, <2>1, BatchesMove
<1>9. ASSUME handle, Clean PROVE Written(rows, Unwritten') = memory'.entries
  <2>1. Written(rows, Unwritten) = memory.entries
    BY <1>9 DEF TableInv
  <2>2. Written(memory.entries, records) = memory'.entries
    BY <1>1, <1>3, ChangeWritten
  <2> HIDE DEF R
  <2>3. Unwritten \in Seq(R)
    BY <1>1, UnwrittenIsSeq
  <2>4. Unwritten' = Unwritten \o records
    <3>1. CASE StaysOutside(p) /\ (handle => records = <<>>)
      <4>1. Unwritten' = Unwritten
        BY <3>1, UnwrittenOutside
      <4>2. Unwritten \o <<>> = Unwritten
        BY <2>3
      <4> QED BY <1>9, <3>1, <4>1, <4>2
    <3>2. CASE TakesNumber(p) /\ call'[p].records = records
      <4>1. call'[p].records \in Seq(R)
        BY <1>3, <3>2
      <4>2. Unwritten' = Unwritten \o call'[p].records
        BY <1>1, <1>2, <3>2, <4>1, UnwrittenTakes
      <4> QED BY <3>2, <4>2
    <3> QED BY <1>3, <3>1, <3>2 DEF Told
  <2>5. Written(rows, Unwritten \o records) = Written(Written(rows, Unwritten), records)
    BY <1>3, <2>3, WrittenInParts
  <2> QED BY <2>1, <2>2, <2>4, <2>5
<1>10. handle' /\ Clean' => Written(rows', Unwritten') = memory'.entries
  BY <1>5, <1>6, <1>7, <1>9
<1>11. Typed(rows') /\ IsFiniteSet(DOMAIN rows') /\ savedCursor' \in Nat
  BY <1>5 DEF TableInv
<1>12. faults' = 0 => Clean'
  BY <1>5, <1>6 DEF TableInv
<1> QED BY <1>4, <1>6, <1>8, <1>10, <1>11, <1>12 DEF TableInv

\* p has a record to hand over, and goes on with the others.
LEMMA CallerHasRecord ==
    ASSUME BatchesWellFormed, BatchesOf(Records), NEW p \in Procs, MayWrite(p)
    PROVE  /\ call[p].records # <<>>
           /\ Head(call[p].records) \in Records /\ Tail(call[p].records) \in Seq(Records)
           /\ call[p].records = <<Head(call[p].records)>> \o Tail(call[p].records)
PROOF
<1> DEFINE R == Records
           batch == call[p].records
<1>1. batch \in Seq(R) /\ batch # <<>>
  BY DEF MayWrite, HasTurn, InPersist, BatchesOf, BatchesWellFormed
<1> HIDE DEF R, batch
<1>2. Head(batch) \in R /\ Tail(batch) \in Seq(R) /\ batch = <<Head(batch)>> \o Tail(batch)
  BY <1>1
<1> QED BY <1>1, <1>2 DEF R, batch

\* p goes on: what the step of the storage must see to.
LEMMA GoingOnCatchesUp ==
    ASSUME CursorsInv, TableInv, NEW p \in Procs, MayWrite(p), NEW failed \in BOOLEAN,
           Continue(p, Tail(call[p].records), failed),
           UNCHANGED <<outsideVars, storageDone, storageError, handle>>,
           Typed(rows'), IsFiniteSet(DOMAIN rows'), savedCursor' \in Nat,
           faults' = 0 => faults = 0 /\ ~failed,
           handle /\ ~failed => rows' = AfterRecord(rows, Head(call[p].records))
    PROVE  TableInv'
PROOF
<1> DEFINE R == Records
           rest == Tail(call[p].records)
           record == Head(call[p].records)
<1>1. /\ TurnsInv /\ MemoryInv /\ OpenInv /\ BatchesOf(R) /\ BatchesWellFormed
      /\ UNCHANGED <<isClosed, memory, storageDone, storageError, handle>>
      /\ UNCHANGED <<outsideVars, storageDone>>
  BY DEF CursorsInv, TableInv, outsideVars, memoryVars
<1>2. record \in R /\ rest \in Seq(R) /\ call[p].records = <<record>> \o rest
  BY <1>1, CallerHasRecord
<1> HIDE DEF rest, record
<1>3. Continue(p, rest, failed)
  BY DEF rest
<1>4. GoesOn(p, rest, failed, R)
  <2> HIDE DEF R
  <2> QED BY <1>1, <1>2, <1>3, WriterGoesOn
<1>5. OpenInv' /\ (Clean' => Clean /\ ~failed) /\ (Clean /\ ~failed => Clean')
  <2>1. handle' = handle \/ failed
    BY <1>1
  <2> HIDE DEF R
  <2> QED BY <1>1, <1>4, <2>1, GoesOnKeepsOpen
<1>6. /\ MemoryInv' /\ BatchesOf(R)'
      /\ \E more \in Seq(R) : /\ Unwritten = call[p].records \o more
                              /\ Unwritten' = rest \o more
  BY <1>4 DEF GoesOn
<1>7. PICK more \in Seq(R) : /\ Unwritten = call[p].records \o more
                             /\ Unwritten' = rest \o more
  BY <1>6
<1>8. faults' = 0 => Clean'
  BY <1>5 DEF TableInv
<1>9. handle' /\ Clean' => Written(rows', Unwritten') = memory'.entries
  <2> SUFFICES ASSUME handle', Clean' PROVE Written(rows', Unwritten') = memory'.entries
    OBVIOUS
  <2>1. Clean /\ ~failed
    BY <1>5
  <2>2. handle
    BY <1>1
  <2>3. Written(rows, Unwritten) = memory.entries
    BY <2>1, <2>2 DEF TableInv
  <2>4. rows' = AfterRecord(rows, record)
    BY <2>1, <2>2 DEF record
  <2> DEFINE u == rest \o more
             one == <<record>>
  <2> HIDE DEF R
  <2>5. u \in Seq(R) /\ one \in Seq(R) /\ Unwritten = one \o u
    BY <1>2, <1>7
  <2> HIDE DEF u, one
  <2>6. Written(rows, one \o u) = Written(Written(rows, one), u)
    BY <2>5, WrittenInParts
  <2>7. Written(rows, one) = AfterRecord(rows, record)
    BY WrittenOfOne DEF one
  <2>8. Unwritten' = u
    BY <1>7 DEF u
  <2> QED BY <1>1, <2>3, <2>4, <2>5, <2>6, <2>7, <2>8
<1> QED BY <1>5, <1>6, <1>8, <1>9 DEF TableInv

LEMMA CallSucceedsCatchesUp ==
    ASSUME CursorsInv, TableInv, NEW p \in Procs, CallSucceeds(p)
    PROVE  TableInv'
PROOF
<1> DEFINE record == Head(call[p].records)
<1>1. /\ MayWrite(p) /\ handle
      /\ rows' = AfterRecord(rows, record)
      /\ savedCursor' = CursorAfter(savedCursor, record)
      /\ Continue(p, Tail(call[p].records), FALSE)
      /\ UNCHANGED <<outsideVars, storageDone, storageError, handle>>
      /\ faults' = faults
  BY DEF CallSucceeds, faultVars
<1>2. record \in Records
  BY <1>1, CallerHasRecord DEF CursorsInv, TableInv
<1> HIDE DEF record
<1>3. Typed(rows') /\ IsFiniteSet(DOMAIN rows')
  BY <1>1, <1>2, AfterRecordTyped DEF TableInv
<1>4. savedCursor' \in Nat
  <2>1. savedCursor \in Nat
    BY DEF TableInv
  <2>2. record.op \in {"put", "delete", "clear"}
    BY <1>2 DEF Records
  <2>3. CASE record.op = "put"
    <3>1. record.entry \in Entries
      BY <1>2, <2>3 DEF Records
    <3> QED BY <1>1, <2>3, <3>1 DEF CursorAfter, Entries
  <2>4. CASE record.op = "clear"
    <3>1. record.cursor \in Nat
      BY <1>2, <2>4 DEF Records
    <3> QED BY <1>1, <2>4, <3>1 DEF CursorAfter
  <2>5. CASE record.op = "delete"
    BY <1>1, <2>1, <2>5 DEF CursorAfter
  <2> QED BY <2>2, <2>3, <2>4, <2>5
<1>5. handle /\ ~FALSE => rows' = AfterRecord(rows, Head(call[p].records))
  BY <1>1 DEF record
<1>6. faults' = 0 => faults = 0 /\ ~FALSE
  BY <1>1
<1> QED BY <1>1, <1>3, <1>4, <1>5, <1>6, GoingOnCatchesUp

\* Until something fails the backend refuses nothing.
LEMMA NothingRefused ==
    ASSUME CursorsInv, faults = 0, NEW p \in Procs, MayWrite(p)
    PROVE  ~Refused(rows, Head(call[p].records))
PROOF
<1> DEFINE record == Head(call[p].records)
<1>1. InCursorOrder /\ BatchesWellFormed
  BY DEF CursorsInv
<1>2. InPersist(p) /\ call[p].records # <<>>
  BY <1>1 DEF MayWrite, HasTurn, InPersist, BatchesWellFormed
<1>3. Numbered(call[p].records, (savedCursor + 1)..nextCursor)
  BY <1>1, <1>2 DEF InCursorOrder
<1>4. record.op # "delete" => RecordCursor(record) \in (savedCursor + 1)..nextCursor
  <2> DEFINE cursors == (savedCursor + 1)..nextCursor
             batch == call[p].records
  <2>1. Numbered(batch, cursors) /\ batch # <<>>
    BY <1>2, <1>3
  <2> HIDE DEF cursors, batch
  <2>2. Head(batch).op # "delete" => RecordCursor(Head(batch)) \in cursors
    BY <2>1, FirstOfBatch
  <2> QED BY <2>2 DEF cursors, batch
<1> HIDE DEF record
<1>5. ~Refused(rows, record)
  <2> SUFFICES ASSUME record.op = "put", CursorTaken(rows, record.entry) PROVE FALSE
    BY DEF Refused
  <2>1. PICK id \in DOMAIN rows : rows[id].cursor = record.entry.cursor
    BY DEF CursorTaken
  <2>2. rows[id].cursor \in Nat /\ rows[id].cursor <= savedCursor /\ savedCursor \in Nat
        /\ nextCursor \in Nat
    BY <1>1 DEF InCursorOrder
  <2>3. record.entry.cursor \in (savedCursor + 1)..nextCursor
    BY <1>4 DEF RecordCursor
  <2> QED BY <2>1, <2>2, <2>3
<1> QED BY <1>5 DEF record

LEMMA CallFailsCatchesUp ==
    ASSUME CursorsInv, TableInv, NEW p \in Procs, CallFails(p)
    PROVE  TableInv'
PROOF
<1>1. /\ MayWrite(p)
      /\ Continue(p, Tail(call[p].records), TRUE)
      /\ UNCHANGED <<outsideVars, storageDone, storageError, handle>>
      /\ UNCHANGED <<rows, savedCursor>>
      /\ faults' = faults + 1 \/ (faults' = faults /\ Refused(rows, Head(call[p].records)))
  BY DEF CallFails, Fault, externalVars
<1>2. Typed(rows') /\ IsFiniteSet(DOMAIN rows') /\ savedCursor' \in Nat
  BY <1>1 DEF TableInv
<1>3. faults' = 0 => faults = 0 /\ ~TRUE
  <2>1. faults \in Nat
    BY DEF CursorsInv
  <2>2. Refused(rows, Head(call[p].records)) => faults # 0
    BY <1>1, NothingRefused
  <2> QED BY <1>1, <2>1, <2>2
<1>4. handle /\ ~TRUE => rows' = AfterRecord(rows, Head(call[p].records))
  OBVIOUS
<1> QED BY <1>1, <1>2, <1>3, <1>4, GoingOnCatchesUp

LEMMA CallNowhereCatchesUp ==
    ASSUME CursorsInv, TableInv, NEW p \in Procs, CallNowhere(p)
    PROVE  TableInv'
PROOF
<1>1. /\ MayWrite(p) /\ ~handle
      /\ Continue(p, Tail(call[p].records), FALSE)
      /\ UNCHANGED <<outsideVars, storageDone, storageError, handle>>
      /\ UNCHANGED <<rows, savedCursor, faults>>
  BY DEF CallNowhere, faultVars, externalVars
<1>2. Typed(rows') /\ IsFiniteSet(DOMAIN rows') /\ savedCursor' \in Nat
  BY <1>1 DEF TableInv
<1>3. faults' = 0 => faults = 0 /\ ~FALSE
  BY <1>1
<1>4. handle /\ ~FALSE => rows' = AfterRecord(rows, Head(call[p].records))
  BY <1>1
<1> QED BY <1>1, <1>2, <1>3, <1>4, GoingOnCatchesUp

LEMMA LeavingCatchesUp ==
    ASSUME CursorsInv, TableInv, NEW p \in Procs, UNCHANGED externalVars,
           FinishPersist(p) \/ ReportError(p) \/ CloseStorage(p, FALSE)
    PROVE  TableInv'
PROOF
<1> DEFINE R == Records
           broken == FALSE
<1>1. /\ DOMAIN call = Procs /\ TurnsInv /\ MemoryInv /\ OpenInv /\ BatchesOf(R)
      /\ faults \in Nat /\ UNCHANGED <<rows, savedCursor>>
      /\ FinishPersist(p) \/ ReportError(p) \/ CloseStorage(p, broken)
      /\ ~(handle /\ broken)
  BY DEF CursorsInv, TurnsInv, TableInv, externalVars
<1> HIDE DEF R, broken
<1>2. Left(p, R)
  BY <1>1, LeavingLeft
<1>3. faults' = 0 /\ Clean => Clean'
  BY <1>1, LeavingStaysClean
<1>4. /\ MemoryInv' /\ OpenInv' /\ BatchesOf(R)'
      /\ Clean' => Clean
      /\ Unwritten' = Unwritten /\ memory' = memory /\ (handle' => handle)
      /\ faults' = 0 => faults = 0
  BY <1>1, <1>2 DEF Left
<1>5. Typed(rows') /\ IsFiniteSet(DOMAIN rows') /\ savedCursor' \in Nat
  BY <1>1 DEF TableInv
<1>6. faults' = 0 => Clean'
  BY <1>3, <1>4 DEF TableInv
<1>7. handle' /\ Clean' => Written(rows', Unwritten') = memory'.entries
  BY <1>1, <1>4 DEF TableInv
<1> QED BY <1>4, <1>5, <1>6, <1>7 DEF TableInv, R

-----------------------------------------------------------------------------
(* What the start loads.                                                   *)

Ascending(table, s) ==
    \A i, j \in DOMAIN s : i < j => table[s[i]].cursor < table[s[j]].cursor

Distinct(table) ==
    \A a, b \in DOMAIN table : table[a].cursor = table[b].cursor => a = b

\* A finite set of rows that is not empty has one with the highest cursor.
LEMMA HighestRow ==
    ASSUME NEW table, Typed(table), NEW S \in SUBSET DOMAIN table, IsFiniteSet(S), S # {}
    PROVE  \E id \in S : \A x \in S : table[x].cursor <= table[id].cursor
PROOF
<1> DEFINE c(x) == table[x].cursor
           P == {T \in SUBSET S : T = {} \/ \E id \in T : \A x \in T : c(x) <= c(id)}
<1>1. \A x \in S : c(x) \in Nat
  BY DEF Typed, Entries
<1>2. ASSUME NEW T \in SUBSET S, \A U \in SUBSET T : U # T => U \in P
      PROVE  T \in P
  <2> SUFFICES ASSUME T # {} PROVE \E id \in T : \A x \in T : c(x) <= c(id)
    OBVIOUS
  <2>1. PICK y \in T : TRUE
    OBVIOUS
  <2> DEFINE U == T \ {y}
  <2>2. U \in SUBSET T /\ U # T /\ \A x \in T : x \in U \/ x = y
    BY <2>1
  <2>3. U \in P
    BY <1>2, <2>2
  <2>4. CASE U = {}
    <3>1. c(y) <= c(y)
      BY <1>1
    <3>2. \A x \in T : x = y
      BY <2>2, <2>4
    <3> QED BY <2>1, <3>1, <3>2
  <2>5. CASE U # {}
    <3>1. PICK id \in U : \A x \in U : c(x) <= c(id)
      BY <2>3, <2>5
    <3>2. c(id) \in Nat /\ c(y) \in Nat
      BY <1>1, <2>1, <2>2
    <3>3. CASE c(y) <= c(id)
      <4>1. id \in T
        BY <2>2
      <4>2. \A x \in T : c(x) <= c(id)
        BY <2>2, <3>1, <3>3
      <4> QED BY <4>1, <4>2
    <3>4. CASE ~(c(y) <= c(id))
      <4>1. c(y) <= c(y)
        BY <3>2
      <4>2. \A x \in T : c(x) <= c(y)
        <5> SUFFICES ASSUME NEW x \in T PROVE c(x) <= c(y)
          OBVIOUS
        <5>1. CASE x = y
          BY <4>1, <5>1
        <5>2. CASE x \in U
          <6>1. c(x) <= c(id) /\ c(x) \in Nat
            BY <1>1, <3>1, <5>2, <2>2
          <6> HIDE DEF c
          <6> QED BY <3>2, <3>4, <6>1
        <5> QED BY <2>2, <5>1, <5>2
      <4> QED BY <2>1, <4>2
    <3> QED BY <3>3, <3>4
  <2> QED BY <2>4, <2>5
<1>3. S \in P
  <2> HIDE DEF P
  <2> QED BY <1>2, SetInduction
<1> QED BY <1>3

\* The rows can be listed in ascending cursor order ...
LEMMA ListingExists ==
    ASSUME NEW table, Typed(table), IsFiniteSet(DOMAIN table), Distinct(table)
    PROVE  \E s \in [1..Cardinality(DOMAIN table) -> DOMAIN table] : Ascending(table, s)
PROOF
<1> DEFINE D == DOMAIN table
           c(x) == table[x].cursor
           Listed(S) == \E s \in [1..Cardinality(S) -> S] : Ascending(table, s)
           n == Cardinality(D)
           P == {k \in 0..n : \A S \in SUBSET D : Cardinality(S) = k => Listed(S)}
<1>1. n \in Nat /\ \A x \in D : c(x) \in Nat
  <2>1. n \in Nat
    BY FS_CardinalityType
  <2> QED BY <2>1 DEF Typed, Entries
<1>2. \A S \in SUBSET D : IsFiniteSet(S)
  BY FS_Subset
<1>3. 0 \in P
  <2>1. ASSUME NEW S \in SUBSET D, Cardinality(S) = 0 PROVE Listed(S)
    <3> DEFINE s == [i \in 1..0 |-> 0]
    <3>1. S = {} /\ 1..Cardinality(S) = {} /\ 1..0 = {}
      BY <1>2, <2>1, FS_EmptySet
    <3>2. s \in [1..Cardinality(S) -> S]
      BY <3>1
    <3>3. Ascending(table, s)
      BY <3>1 DEF Ascending
    <3> HIDE DEF s
    <3> QED BY <3>2, <3>3
  <2> QED BY <1>1, <2>1
<1>4. ASSUME NEW k \in 0..(n - 1), k \in P PROVE (k + 1) \in P
  <2> DEFINE next == k + 1
  <2>1. ASSUME NEW S \in SUBSET D, Cardinality(S) = next PROVE Listed(S)
    <3>1. k \in Nat /\ next \in Nat /\ next # 0 /\ next - 1 = k
      BY <1>1
    <3>2. IsFiniteSet(S) /\ S # {}
      BY <1>2, <2>1, <3>1, FS_EmptySet
    <3> HIDE DEF next
    <3>3. PICK x \in S : \A y \in S : c(y) <= c(x)
      BY <3>2, HighestRow
    <3> DEFINE U == S \ {x}
    <3>4. IsFiniteSet(U) /\ Cardinality(U) = k
      BY <2>1, <3>1, <3>2, <3>3, FS_RemoveElement
    <3>5. U \in SUBSET D
      OBVIOUS
    <3>6. Listed(U)
      BY <1>4, <3>4, <3>5
    <3>7. PICK s \in [1..k -> U] : Ascending(table, s)
      BY <3>4, <3>6
    <3> DEFINE t == [i \in 1..next |-> IF i = next THEN x ELSE s[i]]
    <3>8. /\ \A i \in 1..next : i = next \/ (i \in 1..k /\ i < next)
          /\ \A i \in 1..next : ~(next < i)
      BY <3>1
    <3>9. t \in [1..next -> S]
      BY <3>8
    <3>10. Ascending(table, t)
      <4> SUFFICES ASSUME NEW i \in 1..next, NEW j \in 1..next, i < j
                   PROVE  c(t[i]) < c(t[j])
        BY DEF Ascending
      <4>1. i # next /\ i \in 1..k
        BY <3>1, <3>8
      <4>2. t[i] = s[i] /\ s[i] \in U
        BY <4>1
      <4>3. CASE j = next
        <5>1. t[j] = x /\ s[i] # x /\ s[i] \in D /\ x \in D
          BY <4>2, <4>3
        <5>2. c(s[i]) <= c(x) /\ c(s[i]) # c(x)
          BY <3>3, <4>2, <5>1 DEF Distinct
        <5>3. c(s[i]) \in Nat /\ c(x) \in Nat
          BY <1>1, <5>1
        <5> HIDE DEF t, c
        <5> QED BY <4>2, <5>1, <5>2, <5>3
      <4>4. CASE j # next
        <5>1. j \in 1..k /\ t[j] = s[j]
          BY <3>8, <4>4
        <5> QED BY <3>7, <4>1, <4>2, <5>1 DEF Ascending
      <4> QED BY <4>3, <4>4
    <3> HIDE DEF t
    <3> QED BY <2>1, <3>9, <3>10
  <2>2. next \in 0..n
    BY <1>1
  <2> HIDE DEF next, Listed
  <2>3. next \in P
    BY <2>1, <2>2
  <2> QED BY <2>3 DEF next
<1>5. n \in P
  <2> HIDE DEF P
  <2> QED BY <1>1, <1>3, <1>4, Upwards
<1> QED BY <1>5

\* ... the listing names each of them once ...
Lists(s, S) ==
    /\ s \in [1..Cardinality(S) -> S]
    /\ \A i, j \in 1..Cardinality(S) : s[i] = s[j] => i = j
    /\ \A x \in S : \E i \in 1..Cardinality(S) : s[i] = x

LEMMA LoadOrderLists ==
    ASSUME NEW table, Typed(table), IsFiniteSet(DOMAIN table), Distinct(table)
    PROVE  Lists(LoadOrder(table), DOMAIN table)
PROOF
<1> DEFINE D == DOMAIN table
           n == Cardinality(D)
           c(x) == table[x].cursor
           s == LoadOrder(table)
           N == 1..n
<1>1. n \in Nat /\ \A x \in D : c(x) \in Nat
  <2>1. n \in Nat
    BY FS_CardinalityType
  <2> QED BY <2>1 DEF Typed, Entries
<1>2. \E t \in [N -> D] : \A i, j \in DOMAIN t : i < j => c(t[i]) < c(t[j])
  BY ListingExists DEF Ascending
<1>3. s \in [N -> D] /\ \A i, j \in DOMAIN s : i < j => c(s[i]) < c(s[j])
  <2>1. s = CHOOSE t \in [N -> D] : \A i, j \in DOMAIN t : i < j => c(t[i]) < c(t[j])
    BY DEF LoadOrder
  <2> HIDE DEF s, N, D, c
  <2> QED BY <1>2, <2>1
<1>4. \A i, j \in N : i < j \/ j < i \/ i = j
  BY <1>1
<1> HIDE DEF s
<1>5. \A i, j \in N : s[i] = s[j] => i = j
  <2> SUFFICES ASSUME NEW i \in N, NEW j \in N, s[i] = s[j], i # j PROVE FALSE
    OBVIOUS
  <2>1. i \in DOMAIN s /\ j \in DOMAIN s /\ s[i] \in D
    BY <1>3
  <2>2. c(s[i]) \in Nat /\ c(s[j]) = c(s[i])
    BY <1>1, <2>1
  <2>3. c(s[i]) < c(s[j]) \/ c(s[j]) < c(s[i])
    BY <1>3, <1>4, <2>1
  <2> HIDE DEF c
  <2> QED BY <2>2, <2>3
<1>6. IsFiniteSet(N) /\ Cardinality(N) = n
  BY <1>1, FS_Interval
<1>7. s \in Surjection(N, D)
  <2>1. s \in Injection(N, D)
    BY <1>3, <1>5 DEF Injection, IsInjective
  <2>2. Cardinality(N) = Cardinality(D)
    BY <1>6
  <2> HIDE DEF N, n, D
  <2>3. IsFiniteSet(D)
    BY DEF D
  <2> QED BY <2>1, <2>2, <2>3, FS_Injection
<1>8. \A x \in D : \E i \in N : s[i] = x
  BY <1>7 DEF Surjection
<1> QED BY <1>3, <1>5, <1>8 DEF Lists, s

\* ... and loading them one after the other makes the table of them.
LEMMA LoadedIsTable ==
    ASSUME NEW table, Typed(table), IsFiniteSet(DOMAIN table), Distinct(table)
    PROVE  Sound(Loaded(table)) /\ Loaded(table).entries = table
PROOF
<1> DEFINE D == DOMAIN table
           n == Cardinality(D)
           s == LoadOrder(table)
           upto(k) == [i \in 1..k |-> s[i]]
           reached(k) == {s[i] : i \in 1..k}
           part(k) == [id \in reached(k) |-> table[id]]
           m(k) == Loading(table, upto(k))
           P == {k \in 0..n : Sound(m(k)) /\ m(k).entries = part(k)}
<1>1. n \in Nat
  BY FS_CardinalityType
<1>2. Lists(s, D)
  BY LoadOrderLists
<1>3. s \in [1..n -> D] /\ \A x \in D : \E i \in 1..n : s[i] = x
  BY <1>2 DEF Lists
<1> HIDE DEF s, n
<1>4. 0 \in P
  <2>1. upto(0) = <<>> /\ reached(0) = {}
    OBVIOUS
  <2>2. <<>> \in Seq({0}) /\ 0 \in {0}
    OBVIOUS
  <2>3. m(0) = EmptyMemory
    BY <2>1, <2>2, LoadingUnfolds
  <2>4. EmptyMemory.entries = part(0)
    BY <2>1 DEF EmptyMemory
  <2> HIDE DEF m, part
  <2> QED BY <1>1, <2>3, <2>4, EmptyIsSound
<1>5. ASSUME NEW k \in 0..(n - 1), k \in P PROVE (k + 1) \in P
  <2> DEFINE next == k + 1
             id == s[next]
             u == upto(k)
  <2>1. /\ k \in Nat /\ next \in Nat /\ next \in 0..n /\ next \in 1..n
        /\ \A i : i \in 1..next <=> i \in 1..k \/ i = next
        /\ \A i \in 1..k : i \in 1..n
    BY <1>1
  <2>2. u \in Seq(D) /\ Len(u) = k
    <3>1. u \in [1..k -> D]
      BY <1>3, <2>1
    <3> QED BY <2>1, <3>1
  <2>3. upto(next) = Append(u, id)
    <3>1. Append(u, id) = [i \in 1..next |-> IF i = next THEN id ELSE u[i]]
      BY <2>2
    <3> QED BY <2>1, <3>1
  <2>4. id \in D
    BY <1>3, <2>1
  <2> HIDE DEF u, id, next
  <2>5. Loading(table, Append(u, id)) = WithRow(table, Loading(table, u), id)
    <3> HIDE DEF D
    <3> QED BY <2>2, <2>4, LoadingUnfolds
  <2> DEFINE before == Loading(table, u)
  <2>6. Sound(before) /\ before.entries = part(k)
    BY <1>5 DEF u
  <2> DEFINE after == Replace(before, table[id])
  <2>7. m(next) = after
    BY <2>3, <2>5 DEF WithRow
  <2>8. table[id] \in Entries /\ table[id].id = id
    BY <2>4 DEF Typed
  <2> HIDE DEF before
  <2>9. Sound(after)
    BY <2>6, <2>8, ReplaceIsSound
  <2>10. after.entries = Upserted(part(k), table[id])
    BY <2>6, ReplaceUpserts
  <2>11. Upserted(part(k), table[id]) = part(next)
    <3>1. reached(next) = reached(k) \cup {id}
      BY <2>1 DEF id
    <3> HIDE DEF reached
    <3>2. Upserted(part(k), table[id])
            = [x \in reached(k) \cup {id} |-> IF x = id THEN table[id] ELSE table[x]]
      BY <2>8 DEF Upserted
    <3> QED BY <3>1, <3>2
  <2> HIDE DEF after, m, part
  <2>12. next \in P
    BY <2>1, <2>7, <2>9, <2>10, <2>11
  <2> QED BY <2>12 DEF next
<1>6. n \in P
  <2> HIDE DEF P
  <2> QED BY <1>1, <1>4, <1>5, Upwards
<1>7. upto(n) = s /\ reached(n) = D
  BY <1>3
<1>8. m(n) = Loaded(table)
  BY <1>7 DEF Loading, Loaded, s
<1>9. part(n) = table
  BY <1>7, EntriesAreTable DEF IsTable
<1> HIDE DEF m, part
<1> QED BY <1>6, <1>8, <1>9

LEMMA LoadedCursorIsNat ==
    ASSUME NEW table, Typed(table), IsFiniteSet(DOMAIN table), NEW cursor \in Nat
    PROVE  LoadedCursor(table, cursor) \in Nat
PROOF
<1> DEFINE D == DOMAIN table
           c(x) == table[x].cursor
           all == {cursor} \cup {c(x) : x \in D}
<1>1. \A x \in D : c(x) \in Nat
  BY DEF Typed, Entries
<1>2. all \subseteq Nat /\ all # {}
  BY <1>1
<1>3. \E b \in Nat : \A x \in all : x <= b
  <2>1. CASE D = {}
    <3>1. \A x \in all : x <= cursor
      BY <2>1
    <3> QED BY <3>1
  <2>2. CASE D # {}
    <3>1. D \in SUBSET D
      OBVIOUS
    <3>2. PICK id \in D : \A x \in D : c(x) <= c(id)
      BY <2>2, <3>1, HighestRow
    <3> DEFINE b == cursor + c(id)
    <3>3. c(id) \in Nat
      BY <1>1
    <3>4. b \in Nat /\ cursor <= b /\ \A y \in Nat : y <= c(id) => y <= b
      <4> HIDE DEF c
      <4> QED BY <3>3
    <3>5. \A x \in D : c(x) <= b
      BY <1>1, <3>2, <3>4
    <3> HIDE DEF b, c
    <3>6. \A x \in all : x <= b
      BY <3>4, <3>5
    <3> QED BY <3>4, <3>6
  <2> QED BY <2>1, <2>2
<1>4. LoadedCursor(table, cursor) = Max(all)
  BY DEF LoadedCursor
<1> HIDE DEF all
<1>5. Max(all) \in all
  BY <1>2, <1>3, GreatestExists
<1> QED BY <1>2, <1>4, <1>5

LEMMA WithoutIsTyped ==
    ASSUME NEW table, Typed(table), IsFiniteSet(DOMAIN table), NEW gone
    PROVE  Typed(Without(table, gone)) /\ IsFiniteSet(DOMAIN Without(table, gone))
PROOF
<1> DEFINE kept == Without(table, gone)
<1>1. DOMAIN kept = DOMAIN table \ gone
  BY DEF Without
<1>2. IsFiniteSet(DOMAIN table \ gone)
  BY FS_Subset
<1>3. Typed(kept)
  BY DEF Typed, Without
<1> QED BY <1>1, <1>2, <1>3

\* The rows the start drops are the entries it trims.
LEMMA TrimmedIsWithout ==
    ASSUME NEW m, Sound(m), NEW k, NEW e, Trimmed(m, k, e)
    PROVE  /\ Sound(DropOldest(DropOldest(m, k), e))
           /\ DropOldest(DropOldest(m, k), e).entries
                = Without(m.entries, {m.order[i] : i \in 1..(k + e)})
PROOF
<1> DEFINE d == DropOldest(m, k)
           both == 1..(k + e)
<1>1. Exact(m) /\ Len(m.order) \in Nat
  BY DEF Sound, Exact
<1>2. k \in 0..Len(m.order) /\ e \in 0..Len(d.order)
  BY DEF Trimmed, PurgeCount, EvictCount
<1>3. Sound(d) /\ Len(d.order) = Len(m.order) - k
      /\ \A i \in 1..(Len(m.order) - k) : d.order[i] = m.order[i + k]
  BY <1>1, <1>2, DropIsSound, DropExact
<1>4. k \in Nat /\ e \in Nat /\ e <= Len(m.order) - k
  BY <1>1, <1>2, <1>3
<1>5. d.entries = Without(m.entries, Oldest(m, k))
  BY DropDeletes
<1> HIDE DEF d
<1>6. DropOldest(d, e).entries = Without(d.entries, Oldest(d, e))
  BY DropDeletes
<1>7. Sound(DropOldest(d, e))
  BY <1>2, <1>3, DropIsSound
<1>8. {m.order[i] : i \in both} = Oldest(m, k) \cup Oldest(d, e)
  <2>1. \A i \in 1..e : d.order[i] = m.order[i + k] /\ i + k \in both
    BY <1>1, <1>3, <1>4
  <2>2. \A i \in both : i \in 1..k \/ (i - k \in 1..e /\ (i - k) + k = i)
    BY <1>4
  <2>3. \A i \in 1..k : i \in both
    BY <1>4
  <2>4. \A i \in both : m.order[i] \in Oldest(m, k) \cup Oldest(d, e)
    <3> SUFFICES ASSUME NEW i \in both PROVE m.order[i] \in Oldest(m, k) \cup Oldest(d, e)
      OBVIOUS
    <3>1. CASE i \in 1..k
      BY <3>1 DEF Oldest
    <3>2. CASE i \notin 1..k
      <4> DEFINE j == i - k
      <4>1. j \in 1..e /\ j + k = i
        BY <2>2, <3>2
      <4>2. d.order[j] = m.order[j + k]
        BY <2>1, <4>1
      <4> HIDE DEF j
      <4> QED BY <4>1, <4>2 DEF Oldest
    <3> QED BY <3>1, <3>2
  <2>5. \A x \in Oldest(d, e) : \E i \in both : x = m.order[i]
    <3> SUFFICES ASSUME NEW j \in 1..e PROVE \E i \in both : d.order[j] = m.order[i]
      BY DEF Oldest
    <3> DEFINE i == j + k
    <3>1. i \in both /\ d.order[j] = m.order[i]
      BY <2>1
    <3> HIDE DEF i
    <3> QED BY <3>1
  <2>6. \A x \in Oldest(m, k) : \E i \in both : x = m.order[i]
    BY <2>3 DEF Oldest
  <2> HIDE DEF both
  <2> QED BY <2>4, <2>5, <2>6
<1>9. \A table, A, B : Without(Without(table, A), B) = Without(table, A \cup B)
  BY DEF Without
<1> QED BY <1>5, <1>6, <1>7, <1>8, <1>9 DEF d

\* A start makes of the table what it finds there (openExternalStorage).
LEMMA RestartCatchesUp ==
    ASSUME CursorsInv, TableInv, Restart
    PROVE  TableInv'
PROOF
<1>1. /\ now \in Nat /\ faults \in Nat /\ savedCursor \in Nat
      /\ Typed(rows) /\ IsFiniteSet(DOMAIN rows) /\ Distinct(rows)
      /\ faults = 0 => Clean
  BY DEF CursorsInv, RowsDistinct, Distinct, TableInv, MemoryInv
<1>2. FreshProcess
  BY DEF Restart
<1>3. /\ storageIssued' = 0 /\ storageDone' = 0 /\ now' = now
      /\ \A p \in Procs : call'[p].at = "idle"
  BY <1>2 DEF FreshProcess, Idle
<1>4. OpenInv' /\ (Clean' <=> ~storageError')
  BY <1>2, FreshIsOpen
<1>5. BatchesOf(Records)'
  BY <1>3 DEF BatchesOf, InPersist
<1>6. Unwritten' = <<>>
  BY <1>3, UnwrittenAtStart
<1>7. savedCursor' = savedCursor
  BY DEF Restart, Open, externalVars
<1>8. CASE Open(rows, savedCursor)
  <2> DEFINE m == Loaded(rows)
  <2>1. Sound(m) /\ m.entries = rows
    BY <1>1, LoadedIsTable
  <2>2. nextCursor' \in Nat
    BY <1>1, <1>8, LoadedCursorIsNat DEF Open
  <2>3. PICK k \in 0..Cardinality(DOMAIN rows), e \in 0..Cardinality(DOMAIN rows) :
          /\ Trimmed(m, k, e)
          /\ memory' = DropOldest(DropOldest(m, k), e)
          /\ \/ /\ rows' = RowsWithout({m.order[i] : i \in 1..(k + e)})
                /\ storageError' = FALSE /\ faults' = faults
             \/ \E kept \in {m.order[i] : i \in 1..(k + e)} :
                  /\ rows' = RowsWithout({m.order[i] : i \in 1..(k + e)} \ {kept})
                  /\ storageError' = TRUE /\ faults' = faults + 1
    BY <1>8 DEF Open, Fault
  <2> DEFINE gone == {m.order[i] : i \in 1..(k + e)}
  <2> HIDE DEF m
  <2>4. Sound(memory') /\ memory'.entries = Without(rows, gone)
    BY <2>1, <2>3, TrimmedIsWithout
  <2> HIDE DEF gone
  <2>5. \A g : RowsWithout(g) = Without(rows, g)
    BY DEF RowsWithout, Without
  <2>6. PICK g : rows' = Without(rows, g)
                 /\ \/ g = gone /\ storageError' = FALSE /\ faults' = faults
                    \/ storageError' = TRUE /\ faults' = faults + 1
    BY <2>3, <2>5 DEF gone
  <2>7. Typed(rows') /\ IsFiniteSet(DOMAIN rows')
    BY <1>1, <2>6, WithoutIsTyped
  <2>8. MemoryInv'
    BY <1>1, <1>3, <2>2, <2>4 DEF MemoryInv
  <2>9. faults' = 0 => Clean'
    <3> SUFFICES ASSUME faults' = 0 PROVE Clean'
      OBVIOUS
    <3>1. faults + 1 # 0
      BY <1>1
    <3>2. storageError' = FALSE
      BY <2>6, <3>1
    <3> QED BY <1>4, <3>2
  <2>10. Clean' => Written(rows', Unwritten') = memory'.entries
    <3> SUFFICES ASSUME Clean' PROVE Written(rows', Unwritten') = memory'.entries
      OBVIOUS
    <3>1. rows' = Without(rows, gone)
      BY <1>4, <2>6
    <3> QED BY <1>6, <2>4, <3>1, WrittenOfNone
  <2> QED BY <1>1, <1>4, <1>5, <1>7, <2>7, <2>8, <2>9, <2>10 DEF TableInv
<1>9. CASE /\ faults' = faults + 1
           /\ memory' = EmptyMemory /\ nextCursor' = 0
           /\ storageError' = TRUE
           /\ UNCHANGED externalVars
  <2>1. MemoryInv'
    BY <1>1, <1>3, <1>9, EmptyIsSound DEF MemoryInv
  <2>2. ~Clean' /\ faults' # 0
    BY <1>1, <1>4, <1>9
  <2>3. Typed(rows') /\ IsFiniteSet(DOMAIN rows')
    BY <1>1, <1>9 DEF externalVars
  <2> QED BY <1>1, <1>4, <1>5, <1>7, <2>1, <2>2, <2>3 DEF TableInv
<1>10. Open(rows, savedCursor) \/
         (/\ faults' = faults + 1
          /\ memory' = EmptyMemory /\ nextCursor' = 0
          /\ storageError' = TRUE
          /\ UNCHANGED externalVars)
  BY DEF Restart, Fault
<1> QED BY <1>8, <1>9, <1>10

LEMMA StutterCatchesUp ==
    ASSUME TableInv,
           UNCHANGED <<call, isClosed, handle, storageIssued, storageDone, memory,
                       nextCursor, faultVars, externalVars>>,
           now' \in Nat
    PROVE  TableInv'
PROOF
<1>1. UNCHANGED <<storageError, faults, rows, savedCursor>>
  BY DEF faultVars, externalVars
<1>2. MemoryInv'
  BY DEF TableInv, MemoryInv
<1>3. OpenInv' /\ (Clean' <=> Clean)
  BY <1>1, UnchangedIsOpen DEF TableInv
<1>4. BatchesOf(Records)'
  BY DEF TableInv, BatchesOf, InPersist
<1>5. Unwritten' = Unwritten
  BY UnwrittenUnchanged
<1>6. Typed(rows') /\ IsFiniteSet(DOMAIN rows') /\ savedCursor' \in Nat
  BY <1>1 DEF TableInv
<1>7. faults' = 0 => Clean'
  BY <1>1, <1>3 DEF TableInv
<1>8. handle' /\ Clean' => Written(rows', Unwritten') = memory'.entries
  <2> SUFFICES ASSUME handle', Clean' PROVE Written(rows', Unwritten') = memory'.entries
    OBVIOUS
  <2>1. handle /\ Clean
    BY <1>3
  <2>2. Written(rows, Unwritten) = memory.entries
    BY <2>1 DEF TableInv
  <2> QED BY <1>1, <1>5, <2>2
<1> QED BY <1>2, <1>3, <1>4, <1>6, <1>7, <1>8 DEF TableInv

LEMMA InitCatchesUp ==
    ASSUME ExternalInit
    PROVE  TableInv
PROOF
<1>1. /\ PersistInit /\ rows = NoRows /\ savedCursor = 0
      /\ faults = 0 /\ storageIssued = 0 /\ storageDone = 0
      /\ \A p \in Procs : call[p].at = "idle"
  BY DEF ExternalInit, PersistInit, Init, Idle
<1>2. MemoryInv /\ memory = EmptyMemory
  BY <1>1, InitMemory
<1>3. OpenInv /\ Clean
  BY <1>1, InitIsOpen
<1>4. BatchesOf(Records)
  BY <1>1 DEF BatchesOf, InPersist
<1>5. Unwritten = <<>>
  BY <1>1, UnwrittenAtStart
<1>6. Typed(rows) /\ IsFiniteSet(DOMAIN rows)
  <2>1. DOMAIN NoRows = {} /\ NoRows \in [{} -> Entries]
    BY DEF NoRows
  <2>2. IsFiniteSet({})
    BY FS_EmptySet
  <2> QED BY <1>1, <2>1, <2>2 DEF Typed
<1>7. Written(rows, Unwritten) = memory.entries
  <2>1. EmptyMemory.entries = NoRows
    BY DEF EmptyMemory, NoRows
  <2> QED BY <1>1, <1>2, <1>5, <2>1, WrittenOfNone
<1>8. savedCursor \in Nat
  BY <1>1
<1> QED BY <1>2, <1>3, <1>4, <1>6, <1>7, <1>8 DEF TableInv

LEMMA ExternalNextCatchesUp ==
    ASSUME CursorsInv, TableInv, ExternalNext
    PROVE  TableInv'
PROOF
<1>0. TurnsInv
  BY DEF CursorsInv
<1>1. ASSUME NEW p \in Procs, MemoryStep(p), UNCHANGED <<faultVars, externalVars>>
      PROVE  TableInv'
  BY <1>0, <1>1, MemoryStepCatchesUp
<1>2. ASSUME NEW p \in Procs, ExternalStep(p)
      PROVE  TableInv'
  <2>1. CASE CallSucceeds(p)
    BY <2>1, CallSucceedsCatchesUp
  <2>2. CASE CallFails(p)
    BY <2>2, CallFailsCatchesUp
  <2>3. CASE CallNowhere(p)
    BY <2>3, CallNowhereCatchesUp
  <2>4. CASE /\ FinishPersist(p) \/ ReportError(p) \/ CloseStorage(p, FALSE)
             /\ UNCHANGED externalVars
    BY <2>4, LeavingCatchesUp
  <2> QED BY <1>2, <2>1, <2>2, <2>3, <2>4 DEF ExternalStep
<1>3. CASE (StreamStep \/ Tick) /\ UNCHANGED <<faultVars, externalVars>>
  <2>1. UNCHANGED <<call, handle, storageIssued, storageDone, memory, nextCursor>>
    BY <1>3 DEF StreamStep, Subscribe, Unsubscribe, Receive, Tick, storageVars, memoryVars
  <2>2. isClosed' = isClosed
    BY <1>3 DEF StreamStep, Subscribe, Unsubscribe, Receive, Tick
  <2>3. now' \in Nat
    <3>1. now' = now \/ now' = now + 1
      BY <1>3 DEF StreamStep, Subscribe, Unsubscribe, Receive, Tick
    <3> QED BY <3>1 DEF TableInv, MemoryInv
  <2> QED BY <1>3, <2>1, <2>2, <2>3, StutterCatchesUp
<1>4. CASE Restart
  BY <1>4, RestartCatchesUp
<1> QED BY <1>1, <1>2, <1>3, <1>4 DEF ExternalNext

\* Every step of the external storage keeps it.
LEMMA CatchesUpAlways == ExternalSpec => [](CursorsInv /\ TableInv)
PROOF
<1>1. ExternalInit => TableInv
  BY InitCatchesUp
<1>2. CursorsInv /\ TableInv /\ [ExternalNext]_allVars => TableInv'
  <2>1. ASSUME TableInv, UNCHANGED allVars
        PROVE  TableInv'
    <3>1. UNCHANGED <<call, isClosed, handle, storageIssued, storageDone, memory,
                      nextCursor, faultVars, externalVars>> /\ now' = now
      BY <2>1 DEF allVars, vars, storageVars, memoryVars
    <3>2. now' \in Nat
      BY <2>1, <3>1 DEF TableInv, MemoryInv
    <3> QED BY <2>1, <3>1, <3>2, StutterCatchesUp
  <2> QED BY <2>1, ExternalNextCatchesUp
<1> QED BY <1>1, <1>2, CursorsAlways, PTL DEF ExternalSpec

\* The table with the records still to be written is memory at every moment,
\* for any number of goroutines and entries: between two transactions of a
\* batch and after a crash and a load that trims (persist and
\* openExternalStorage, store.go; Save, Delete and Clear, storage.go).
THEOREM TableFollowsMemory == ExternalSpec => []TableCatchesUp
PROOF
<1>1. ASSUME TableInv PROVE TableCatchesUp
  <2> SUFFICES ASSUME handle, faults = 0
               PROVE  Written(rows, Unwritten) = memory.entries
    BY DEF TableCatchesUp, Written
  <2> QED BY <1>1 DEF TableInv
<1> QED BY <1>1, CatchesUpAlways, PTL

\* Once every call has returned, a table that is not memory has been reported
\* in storageError, whichever transactions have failed (persist and
\* setStorageError, store.go).
THEOREM TableDivergenceIsReported == ExternalSpec => []DivergenceReported
PROOF
<1>1. ASSUME CursorsInv, TableInv PROVE DivergenceReported
  <2> SUFFICES ASSUME ~isClosed, CallsReturned, ~storageError
               PROVE  rows = memory.entries
    BY DEF DivergenceReported
  <2>1. Clean
    BY DEF Clean, HasError, HoldsStorageMu, CallsReturned
  <2>2. handle
    BY <1>1, <2>1 DEF TableInv, OpenInv
  <2>3. Written(rows, Unwritten) = memory.entries
    BY <1>1, <2>1, <2>2 DEF TableInv
  <2>4. TurnsInv
    BY <1>1 DEF CursorsInv
  <2>5. Unwritten = <<>>
    BY <2>4, NothingLeft
  <2> QED BY <2>3, <2>5, WrittenOfNone
<1> QED BY <1>1, CatchesUpAlways, PTL

-----------------------------------------------------------------------------
(* The cursor a start goes on from.                                        *)

(***************************************************************************)
(* CursorContinues compares two cursors over a crash, the invariant those  *)
(* of one state: none is counted but by a record that saves it, or is      *)
(* still to be written (CountInv).                                         *)
(***************************************************************************)

\* The positions of the records that carry a cursor.
Carrying(s) == {i \in DOMAIN s : s[i].op # "delete"}

\* Their number is a number.
LEMMA CursorsAreFinite ==
    ASSUME NEW E, NEW s \in Seq(E)
    PROVE  /\ IsFiniteSet(Carrying(s)) /\ CursorsIn(s) \in Nat
           /\ CursorsIn(s) = Cardinality(Carrying(s))
PROOF
<1>1. Carrying(s) \in SUBSET (1..Len(s)) /\ Len(s) \in Int /\ 1 \in Int
  BY DEF Carrying
<1>2. IsFiniteSet(1..Len(s))
  BY <1>1, FS_Interval
<1>3. IsFiniteSet(Carrying(s))
  BY <1>1, <1>2, FS_Subset
<1>4. CursorsIn(s) = Cardinality(Carrying(s))
  BY DEF CursorsIn, Carrying
<1> QED BY <1>3, <1>4, FS_CardinalityType

\* More records carry no fewer cursors, and more if one of them does.
LEMMA CursorsGrow ==
    ASSUME NEW E, NEW s \in Seq(E), NEW t \in Seq(E)
    PROVE  /\ CursorsIn(s) <= CursorsIn(s \o t)
           /\ Carrying(t) # {} => CursorsIn(s) + 1 <= CursorsIn(s \o t)
PROOF
<1> DEFINE u == s \o t
           n == Len(s)
<1>1. /\ u \in Seq(E) /\ n \in Nat
      /\ DOMAIN s = 1..n /\ DOMAIN s \subseteq DOMAIN u
      /\ \A i \in DOMAIN s : u[i] = s[i]
      /\ \A i \in DOMAIN t : n + i \in DOMAIN u /\ n + i \notin 1..n /\ u[n + i] = t[i]
  OBVIOUS
<1> HIDE DEF u, n
<1>2. Carrying(s) \in SUBSET Carrying(u)
  BY <1>1 DEF Carrying
<1>3. /\ IsFiniteSet(Carrying(s)) /\ IsFiniteSet(Carrying(u))
      /\ CursorsIn(s) = Cardinality(Carrying(s)) /\ CursorsIn(u) = Cardinality(Carrying(u))
      /\ CursorsIn(s) \in Nat /\ CursorsIn(u) \in Nat
  BY <1>1, CursorsAreFinite
<1>4. CursorsIn(s) <= CursorsIn(u)
  BY <1>2, <1>3, FS_Subset
<1>5. ASSUME NEW i \in Carrying(t)
      PROVE  CursorsIn(s) + 1 <= CursorsIn(u)
  <2> DEFINE x == n + i
             more == Carrying(s) \cup {x}
  <2>1. i \in DOMAIN t /\ t[i].op # "delete"
    BY DEF Carrying
  <2>2. x \in DOMAIN u /\ x \notin DOMAIN s /\ u[x] = t[i]
    BY <1>1, <2>1
  <2> HIDE DEF x
  <2>3. x \in Carrying(u) /\ x \notin Carrying(s)
    BY <2>1, <2>2 DEF Carrying
  <2>4. Cardinality(more) = Cardinality(Carrying(s)) + 1
    BY <1>3, <2>3, FS_AddElement
  <2>5. more \in SUBSET Carrying(u)
    BY <1>2, <2>3
  <2> HIDE DEF more
  <2>6. Cardinality(more) <= Cardinality(Carrying(u))
    BY <1>3, <2>5, FS_Subset
  <2> QED BY <1>3, <2>4, <2>6
<1> QED BY <1>4, <1>5 DEF u

\* The first record carries one at most.
LEMMA CursorsOfFirst ==
    ASSUME NEW E, NEW r \in E, NEW u \in Seq(E)
    PROVE  /\ CursorsIn(<<r>> \o u) <= CursorsIn(u) + 1
           /\ r.op = "delete" => CursorsIn(<<r>> \o u) <= CursorsIn(u)
PROOF
<1> DEFINE s == <<r>> \o u
           later == Carrying(s) \ {1}
           S == Carrying(s)
           T == Carrying(u)
           back == [i \in later |-> i - 1]
<1>1. /\ s \in Seq(E) /\ s[1] = r /\ 1 \in DOMAIN s
      /\ \A i \in DOMAIN s : i # 1 => i - 1 \in DOMAIN u /\ s[i] = u[i - 1] /\ i \in Nat
  <2> DEFINE one == <<r>>
  <2>1. one \in Seq(E) /\ Len(one) = 1 /\ one[1] = r
    OBVIOUS
  <2> HIDE DEF one
  <2> DEFINE both == one \o u
  <2>2. Len(u) \in Nat
    OBVIOUS
  <2>3. both \in Seq(E) /\ Len(both) = Len(one) + Len(u)
    BY <2>1, ConcatProperties
  <2>4. both \in Seq(E) /\ Len(u) \in Nat /\ Len(both) = 1 + Len(u)
    BY <2>1, <2>2, <2>3
  <2>5. \A i \in 1..(1 + Len(u)) :
          (one \o u)[i] = IF i <= 1 THEN one[i] ELSE u[i - 1]
    BY <2>1, <2>4, ConcatProperties
  <2>6. DOMAIN (one \o u) = 1..(1 + Len(u)) /\ DOMAIN u = 1..Len(u)
    BY <2>4
  <2>7. 1 \in DOMAIN (one \o u) /\ (one \o u)[1] = r
    BY <2>1, <2>4, <2>5, <2>6
  <2>8. \A i \in DOMAIN (one \o u) :
          i # 1 => i - 1 \in DOMAIN u /\ (one \o u)[i] = u[i - 1] /\ i \in Nat
    BY <2>4, <2>5, <2>6
  <2> QED BY <2>4, <2>7, <2>8 DEF one
<1>2. /\ IsFiniteSet(S) /\ CursorsIn(s) = Cardinality(S) /\ CursorsIn(s) \in Nat
      /\ IsFiniteSet(T) /\ CursorsIn(u) = Cardinality(T) /\ CursorsIn(u) \in Nat
  <2> HIDE DEF s
  <2> QED BY <1>1, CursorsAreFinite
<1> HIDE DEF s
<1>3. back \in Injection(later, T)
  <2>1. \A i \in later : i \in DOMAIN s /\ s[i].op # "delete" /\ i # 1
    BY DEF Carrying
  <2>2. \A i \in later : i - 1 \in T /\ i \in Nat
    BY <1>1, <2>1 DEF Carrying
  <2> HIDE DEF later, T
  <2>3. \A i, j \in later : back[i] = back[j] => i = j
    BY <2>2
  <2>4. back \in [later -> T]
    BY <2>2
  <2> HIDE DEF back
  <2> QED BY <2>3, <2>4 DEF Injection, IsInjective
<1> HIDE DEF back, S, T
<1>4. Cardinality(later) <= Cardinality(T)
  <2> HIDE DEF later
  <2> QED BY <1>2, <1>3, FS_Injection
<1>5. Cardinality(S \ {1}) = IF 1 \in S THEN Cardinality(S) - 1 ELSE Cardinality(S)
  BY <1>2, FS_RemoveElement
<1>6. later = S \ {1}
  BY DEF S
<1>7. r.op = "delete" => 1 \notin S
  BY <1>1 DEF S, Carrying
<1> HIDE DEF later
<1>8. CursorsIn(s) <= CursorsIn(u) + 1
  BY <1>2, <1>4, <1>5, <1>6
<1>9. r.op = "delete" => CursorsIn(s) <= CursorsIn(u)
  BY <1>2, <1>4, <1>5, <1>6, <1>7
<1> QED BY <1>8, <1>9 DEF s

\* Whoever counts the cursor on under mu issues a record that carries it.
LEMMA CountingIssues ==
    ASSUME TurnsInv, MemoryInv, handle, NEW p \in Procs, MemoryStep(p),
           nextCursor' # nextCursor
    PROVE  nextCursor' = nextCursor + 1 /\ TakesNumber(p) /\ Carrying(call'[p].records) # {}
PROOF
<1> DEFINE Goal == nextCursor' = nextCursor + 1 /\ TakesNumber(p)
                     /\ Carrying(call'[p].records) # {}
<1>0. DOMAIN call = Procs /\ Durable /\ Sound(memory) /\ Exact(memory)
  BY PersistAssumption DEF TurnsInv, MemoryInv, Sound
<1>1. ASSUME NEW records, NEW E, records \in Seq(E), Carrying(records) # {},
             IssueBatch(p, records), ~InPersist(p), UNCHANGED storageDone,
             nextCursor' = nextCursor + 1
      PROVE  Goal
  <2>1. records # <<>>
    BY <1>1 DEF Carrying
  <2>2. Told(p, records)
    BY <1>1, IssueTells
  <2> QED BY <1>1, <2>1, <2>2 DEF Told
<1>2. CASE Put(p)
  <2> DEFINE entry == [id |-> call[p].id, size |-> call[p].size,
                       recordedAt |-> call[p].recordedAt, cursor |-> nextCursor + 1]
             replaced(k) == Replace(DropOldest(memory, k), entry)
  <2>1. PICK k \in 0..Len(memory.order) : \E e \in 0..Len(replaced(k).order) :
          IssueBatch(p, DeleteRecords(memory, k) \o DeleteRecords(replaced(k), e)
                        \o <<PutRecord(entry)>>)
    BY <1>2 DEF Put
  <2>2. PICK e \in 0..Len(replaced(k).order) :
          IssueBatch(p, DeleteRecords(memory, k) \o DeleteRecords(replaced(k), e)
                        \o <<PutRecord(entry)>>)
    BY <2>1
  <2>3. /\ ~InPersist(p) /\ UNCHANGED storageDone /\ nextCursor' = nextCursor + 1
        /\ entry \in Entries
    <3>1. call[p].at = "put" /\ nextCursor' = nextCursor + 1 /\ nextCursor \in Nat
      BY <1>2 DEF Put, MemoryInv
    <3> QED BY <1>2, <3>1 DEF Put, InPersist, MemoryInv, Entries
  <2>4. Sound(replaced(k))
    BY <1>0, <2>3, DropIsSound, ReplaceIsSound
  <2> DEFINE R == Records
             s == DeleteRecords(memory, k)
             t == DeleteRecords(replaced(k), e)
             record == PutRecord(entry)
             batch == s \o t \o <<record>>
  <2>5. s \in Seq(R) /\ t \in Seq(R)
    BY <1>0, <2>4, DeletesAreTyped DEF Sound
  <2>6. record \in R /\ record.op = "put"
    BY <2>3, RecordsAreTyped DEF PutRecord
  <2>7. IssueBatch(p, batch)
    BY <2>2
  <2> HIDE DEF R, s, t, record
  <2>8. batch \in Seq(R) /\ \E i \in DOMAIN batch : batch[i] = record
    <3> DEFINE st == s \o t
    <3>1. st \in Seq(R)
      BY <2>5
    <3> HIDE DEF st
    <3>2. st \o <<record>> \in Seq(R) /\ Len(st) + 1 \in DOMAIN (st \o <<record>>)
          /\ (st \o <<record>>)[Len(st) + 1] = record
      BY <2>6, <3>1
    <3> DEFINE last == Len(st) + 1
    <3> HIDE DEF last
    <3> QED BY <3>2 DEF st, last
  <2>9. Carrying(batch) # {}
    BY <2>6, <2>8 DEF Carrying
  <2> HIDE DEF batch
  <2> QED BY <1>1, <2>3, <2>7, <2>8, <2>9
<1>3. CASE Clear(p)
  <2> DEFINE record == ClearRecord(nextCursor')
             batch == <<record>>
  <2>1. IssueBatch(p, batch) /\ nextCursor' = nextCursor + 1
        /\ ~InPersist(p) /\ UNCHANGED storageDone
    BY <1>3 DEF Clear, InPersist, Idle
  <2>2. record.op = "clear"
    BY DEF ClearRecord
  <2> HIDE DEF record
  <2> DEFINE E == {record}
  <2>3. batch \in Seq(E) /\ 1 \in DOMAIN batch /\ batch[1] = record
    OBVIOUS
  <2>4. Carrying(batch) # {}
    BY <2>2, <2>3 DEF Carrying
  <2> HIDE DEF batch, E
  <2> QED BY <1>1, <2>1, <2>3, <2>4
<1>4. Put(p) \/ Clear(p)
  BY DEF MemoryStep, BeginRecord, PutAfterClose, Close, PutTooLarge, Read, memoryVars
<1> QED BY <1>2, <1>3, <1>4

\* The cursor is at most the saved one and those still to be written.
CountInv ==
    handle /\ faults = 0 => nextCursor <= savedCursor + CursorsIn(Unwritten)

\* What counts the cursor on also issues the record that carries it.
LEMMA MemoryStepCounts ==
    ASSUME CursorsInv, TableInv, CountInv, NEW p \in Procs, MemoryStep(p),
           UNCHANGED <<faultVars, externalVars>>
    PROVE  CountInv'
PROOF
<1> DEFINE R == Records
<1>1. DOMAIN call = Procs /\ TurnsInv /\ MemoryInv /\ BatchesOf(R)
  BY DEF CursorsInv, TurnsInv, TableInv
<1>2. TurnsInv'
  BY <1>1, MemoryStepKeeps
<1>3. handle' = handle /\ faults' = faults /\ savedCursor' = savedCursor
  BY <1>1, MemoryStepSpares DEF faultVars, externalVars
<1>4. savedCursor \in Nat /\ nextCursor \in Nat /\ nextCursor' \in Nat
  BY <1>1, MemoryStepIssues DEF TableInv, MemoryInv
<1>5. ASSUME handle, faults = 0
      PROVE  nextCursor' <= savedCursor + CursorsIn(Unwritten')
  <2>1. nextCursor <= savedCursor + CursorsIn(Unwritten)
    BY <1>5 DEF CountInv
  <2>2. PICK records \in Seq(R) : Told(p, records)
    BY <1>1, MemoryStepIssues
  <2> DEFINE u == Unwritten
             new == call'[p].records
  <2>3. CASE StaysOutside(p)
    <3>1. Unwritten' = u
      BY <2>3, UnwrittenOutside
    <3>2. ~TakesNumber(p)
      BY <2>3 DEF StaysOutside, TakesNumber, InPersist
    <3>3. nextCursor' = nextCursor
      BY <1>1, <1>5, <3>2, CountingIssues
    <3> QED BY <2>1, <3>1, <3>3
  <2>4. CASE TakesNumber(p) /\ new = records
    <3> HIDE DEF R
    <3>1. u \in Seq(R) /\ new \in Seq(R)
      BY <1>1, <2>2, <2>4, UnwrittenIsSeq
    <3>2. Unwritten' = u \o new
      BY <1>1, <1>2, <2>4, <3>1, UnwrittenTakes
    <3>3. nextCursor' # nextCursor => nextCursor' = nextCursor + 1 /\ Carrying(new) # {}
      BY <1>1, <1>5, CountingIssues
    <3> HIDE DEF u, new
    <3>4. /\ CursorsIn(u) \in Nat
          /\ CursorsIn(u) <= CursorsIn(u \o new)
          /\ Carrying(new) # {} => CursorsIn(u) + 1 <= CursorsIn(u \o new)
      BY <3>1, CursorsGrow, CursorsAreFinite
    <3> DEFINE v == u \o new
    <3>5. v \in Seq(R)
      BY <3>1
    <3>6. CursorsIn(v) \in Nat
      <4> HIDE DEF v
      <4> QED BY <3>5, CursorsAreFinite
    <3>7. nextCursor <= savedCursor + CursorsIn(u)
      BY <2>1 DEF u
    <3>8. nextCursor' <= savedCursor + CursorsIn(v)
      <4>1. CursorsIn(u) <= CursorsIn(v)
            /\ (nextCursor' # nextCursor =>
                  nextCursor' = nextCursor + 1 /\ CursorsIn(u) + 1 <= CursorsIn(v))
        BY <3>3, <3>4
      <4> HIDE DEF v
      <4> QED BY <1>4, <3>4, <3>6, <3>7, <4>1
    <3> QED BY <3>2, <3>8
  <2> QED BY <2>2, <2>3, <2>4 DEF Told
<1> QED BY <1>3, <1>5 DEF CountInv

\* A transaction saves the cursor its record carries.
LEMMA CallSucceedsCounts ==
    ASSUME CursorsInv, TableInv, CountInv, NEW p \in Procs, CallSucceeds(p)
    PROVE  CountInv'
PROOF
<1> DEFINE record == Head(call[p].records)
           rest == Tail(call[p].records)
           R == Records
           done == FALSE
<1>1. /\ MayWrite(p) /\ handle
      /\ savedCursor' = CursorAfter(savedCursor, record)
      /\ Continue(p, rest, done)
      /\ UNCHANGED <<outsideVars, storageDone, handle>>
      /\ faults' = faults /\ nextCursor' = nextCursor
  BY DEF CallSucceeds, faultVars, outsideVars, memoryVars
<1>2. TurnsInv /\ MemoryInv /\ BatchesOf(R) /\ BatchesWellFormed
      /\ savedCursor \in Nat /\ nextCursor \in Nat
  BY DEF CursorsInv, TableInv, MemoryInv
<1>3. /\ record \in R /\ rest \in Seq(R) /\ call[p].records # <<>>
      /\ call[p].records = <<record>> \o rest
  BY <1>1, <1>2, CallerHasRecord
<1>4. InPersist(p)
  BY <1>1 DEF MayWrite, HasTurn, InPersist
<1> HIDE DEF rest
<1>5. PICK more \in Seq(R) : /\ Unwritten = call[p].records \o more
                             /\ Unwritten' = rest \o more
  <2>1. done \in BOOLEAN
    OBVIOUS
  <2> HIDE DEF R, done
  <2>2. GoesOn(p, rest, done, R)
    BY <1>1, <1>2, <1>3, <2>1, WriterGoesOn
  <2> QED BY <2>2 DEF GoesOn
<1>6. ASSUME faults = 0
      PROVE  nextCursor <= savedCursor' + CursorsIn(Unwritten')
  <2>1. nextCursor <= savedCursor + CursorsIn(Unwritten)
    BY <1>1, <1>6 DEF CountInv
  <2> DEFINE cursors == (savedCursor + 1)..nextCursor
             batch == call[p].records
  <2>2. Numbered(batch, cursors)
    BY <1>4, <1>6 DEF CursorsInv, InCursorOrder
  <2>3. /\ record.op \in {"put", "delete", "clear"}
        /\ record.op # "delete" => RecordCursor(record) \in cursors
    <3>1. batch # <<>>
      BY <1>3
    <3> HIDE DEF cursors, batch
    <3>2. /\ Head(batch).op \in {"put", "delete", "clear"}
          /\ Head(batch).op # "delete" => RecordCursor(Head(batch)) \in cursors
      BY <2>2, <3>1, FirstOfBatch
    <3> QED BY <3>2 DEF batch
  <2> DEFINE u == rest \o more
             one == <<record>>
  <2>4. u \in Seq(R) /\ Unwritten = one \o u /\ Unwritten' = u
    <3> HIDE DEF R, record
    <3>1. one \in Seq(R) /\ u \in Seq(R)
      BY <1>3
    <3>2. (one \o rest) \o more = one \o u
      BY <1>3, <3>1
    <3> QED BY <1>3, <1>5, <3>1, <3>2
  <2> HIDE DEF record, u, R
  <2>5. /\ CursorsIn(one \o u) <= CursorsIn(u) + 1
        /\ record.op = "delete" => CursorsIn(one \o u) <= CursorsIn(u)
    BY <1>3, <2>4, CursorsOfFirst
  <2>6. CursorsIn(u) \in Nat
    BY <2>4, CursorsAreFinite
  <2>7. CursorsIn(one \o u) \in Nat
    <3>1. one \o u \in Seq(R)
      BY <1>3, <2>4
    <3> DEFINE v == one \o u
    <3> HIDE DEF v, one
    <3>2. v \in Seq(R)
      BY <3>1 DEF v
    <3>3. CursorsIn(v) \in Nat
      BY <3>2, CursorsAreFinite
    <3> QED BY <3>3 DEF v
  <2> DEFINE before == CursorsIn(one \o u)
             after == CursorsIn(u)
  <2>8. nextCursor <= savedCursor + before /\ before \in Nat /\ after \in Nat
        /\ before <= after + 1 /\ (record.op = "delete" => before <= after)
    BY <2>1, <2>4, <2>5, <2>6, <2>7
  <2>9. CursorsIn(Unwritten') = after
    BY <2>4
  <2> HIDE DEF before, after
  <2>10. CASE record.op = "delete"
    <3>1. savedCursor' = savedCursor
      BY <1>1, <2>10 DEF CursorAfter
    <3> QED BY <1>2, <2>8, <2>9, <2>10, <3>1
  <2>11. CASE record.op # "delete"
    <3>1. savedCursor' = RecordCursor(record)
      BY <1>1, <2>3, <2>11 DEF CursorAfter, RecordCursor
    <3>2. savedCursor' \in cursors
      BY <2>3, <2>11, <3>1
    <3>3. savedCursor' \in Nat /\ savedCursor + 1 <= savedCursor'
      BY <1>2, <3>2
    <3> HIDE DEF cursors
    <3>4. /\ savedCursor \in Nat /\ nextCursor \in Nat /\ before \in Nat /\ after \in Nat
          /\ nextCursor <= savedCursor + before /\ before <= after + 1
      BY <1>2, <2>8
    <3>5. \A n, c, d, b, a \in Nat :
            n <= c + b /\ b <= a + 1 /\ c + 1 <= d => n <= d + a
      OBVIOUS
    <3>6. nextCursor <= savedCursor' + after
      BY <3>3, <3>4, <3>5
    <3> QED BY <2>9, <3>6
  <2> QED BY <2>10, <2>11
<1> QED BY <1>1, <1>6 DEF CountInv

\* Once something has failed, or the storage is closed, nothing is claimed.
LEMMA CallFailsCounts ==
    ASSUME CursorsInv, NEW p \in Procs, CallFails(p) \/ CallNowhere(p)
    PROVE  CountInv'
PROOF
<1>1. CASE CallFails(p)
  <2>1. /\ MayWrite(p) /\ faults \in Nat
        /\ faults' = faults + 1 \/ (faults' = faults /\ Refused(rows, Head(call[p].records)))
    BY <1>1 DEF CallFails, Fault, CursorsInv
  <2>2. Refused(rows, Head(call[p].records)) => faults # 0
    BY <2>1, NothingRefused
  <2>3. faults' # 0
    BY <2>1, <2>2
  <2> QED BY <2>3 DEF CountInv
<1>2. CASE CallNowhere(p)
  BY <1>2 DEF CallNowhere, CountInv
<1> QED BY <1>1, <1>2

\* The end of persist leaves the cursors as they are.
LEMMA LeavingCounts ==
    ASSUME CursorsInv, TableInv, CountInv, NEW p \in Procs, UNCHANGED externalVars,
           FinishPersist(p) \/ ReportError(p) \/ CloseStorage(p, FALSE)
    PROVE  CountInv'
PROOF
<1> DEFINE R == Records
           broken == FALSE
<1>1. /\ TurnsInv /\ MemoryInv /\ OpenInv /\ BatchesOf(R)
      /\ faults \in Nat /\ UNCHANGED <<savedCursor, nextCursor>>
      /\ FinishPersist(p) \/ ReportError(p) \/ CloseStorage(p, broken)
  BY DEF CursorsInv, TableInv, externalVars, FinishPersist, ReportError, CloseStorage,
         outsideVars, memoryVars
<1> HIDE DEF R, broken
<1>2. Left(p, R)
  BY <1>1, LeavingLeft
<1>3. Unwritten' = Unwritten /\ (handle' => handle) /\ (faults' = 0 => faults = 0)
  BY <1>1, <1>2 DEF Left
<1> QED BY <1>1, <1>3 DEF CountInv

\* A start counts on from the saved cursor, with nothing left to write.
LEMMA RestartCounts ==
    ASSUME CursorsInv, Restart
    PROVE  CountInv' /\ (faults' = 0 => nextCursor' = savedCursor)
PROOF
<1>1. savedCursor' = savedCursor
  BY DEF Restart, Open, externalVars
<1>2. Unwritten' = <<>>
  BY UnwrittenAtStart DEF Restart, FreshProcess
<1>3. CursorsIn(Unwritten') \in Nat
  <2> DEFINE none == <<>>
  <2>1. none \in Seq({0})
    OBVIOUS
  <2> HIDE DEF none
  <2>2. CursorsIn(none) \in Nat
    BY <2>1, CursorsAreFinite
  <2> QED BY <1>2, <2>2 DEF none
<1>4. CursorsInv'
  BY RestartKeepsCursors
<1>5. ASSUME faults' = 0
      PROVE  nextCursor' = savedCursor /\ savedCursor \in Nat
  <2>1. faults = 0 /\ InCursorOrder /\ savedCursor \in Nat
    <3>1. faults' = faults \/ faults' = faults + 1
      BY DEF Restart, Open, Fault
    <3>2. faults = 0
      BY <1>5, <3>1 DEF CursorsInv
    <3> QED BY <3>2 DEF CursorsInv, InCursorOrder
  <2>2. nextCursor' = LoadedCursor(rows, savedCursor)
    BY <1>5, <2>1 DEF Restart, Open, Fault
  <2>3. LoadedCursor(rows, savedCursor) = savedCursor
    BY <2>1, SavedIsHighest
  <2> QED BY <2>1, <2>2, <2>3
<1>6. CountInv'
  BY <1>1, <1>3, <1>5 DEF CountInv
<1> QED BY <1>5, <1>6

\* Every step of the external storage keeps the count.
LEMMA CountsAlways == ExternalSpec => [](CursorsInv /\ CountInv)
PROOF
<1>1. ExternalInit => CountInv
  <2> SUFFICES ASSUME ExternalInit PROVE CountInv
    OBVIOUS
  <2>1. nextCursor = 0 /\ savedCursor = 0 /\ storageIssued = 0 /\ storageDone = 0
    BY DEF ExternalInit, PersistInit, Init
  <2>2. Unwritten = <<>>
    BY <2>1, UnwrittenAtStart
  <2> DEFINE none == <<>>
  <2>3. none \in Seq({0})
    OBVIOUS
  <2> HIDE DEF none
  <2>4. CursorsIn(none) \in Nat
    BY <2>3, CursorsAreFinite
  <2>5. CursorsIn(Unwritten) \in Nat
    BY <2>2, <2>4 DEF none
  <2> QED BY <2>1, <2>5 DEF CountInv
<1>2. CursorsInv /\ TableInv /\ CountInv /\ [ExternalNext]_allVars => CountInv'
  <2> SUFFICES ASSUME CursorsInv, TableInv, CountInv, [ExternalNext]_allVars
               PROVE  CountInv'
    OBVIOUS
  <2>1. ASSUME NEW p \in Procs, MemoryStep(p), UNCHANGED <<faultVars, externalVars>>
        PROVE  CountInv'
    BY <2>1, MemoryStepCounts
  <2>2. ASSUME NEW p \in Procs, ExternalStep(p)
        PROVE  CountInv'
    BY <2>2, CallSucceedsCounts, CallFailsCounts, LeavingCounts DEF ExternalStep
  <2>3. CASE (StreamStep \/ Tick) /\ UNCHANGED <<faultVars, externalVars>>
    <3>1. UNCHANGED <<storageIssued, storageDone, call>>
          /\ UNCHANGED <<handle, nextCursor, savedCursor, faults>>
      BY <2>3 DEF StreamStep, Subscribe, Unsubscribe, Receive, Tick, storageVars, memoryVars,
                  faultVars, externalVars
    <3>2. Unwritten' = Unwritten
      BY <3>1, UnwrittenUnchanged
    <3> QED BY <3>1, <3>2 DEF CountInv
  <2>4. CASE Restart
    BY <2>4, RestartCounts
  <2>5. CASE UNCHANGED allVars
    <3>1. UNCHANGED <<storageIssued, storageDone, call>>
          /\ UNCHANGED <<handle, nextCursor, savedCursor, faults>>
      BY <2>5 DEF allVars, vars, storageVars, memoryVars, faultVars, externalVars
    <3>2. Unwritten' = Unwritten
      BY <3>1, UnwrittenUnchanged
    <3> QED BY <3>1, <3>2 DEF CountInv
  <2> QED BY <2>1, <2>2, <2>3, <2>4, <2>5 DEF ExternalNext
<1> QED BY <1>1, <1>2, CatchesUpAlways, PTL DEF ExternalSpec

\* A restart is the only step that is counted as one.
LEMMA OnlyRestartsCount ==
    ASSUME ExternalNext
    PROVE  restarts' = restarts \/ Restart
PROOF
<1>1. ASSUME NEW p \in Procs, ExternalStep(p)
      PROVE  restarts' = restarts
  BY <1>1 DEF ExternalStep, CallSucceeds, CallFails, CallNowhere, FinishPersist,
              ReportError, CloseStorage, Fault, faultVars
<1> QED BY <1>1 DEF ExternalNext, faultVars

RestartsCounted == restarts \in Nat

LEMMA RestartsAreCounted == ExternalSpec => []RestartsCounted
PROOF
<1>1. ExternalInit => RestartsCounted
  BY DEF ExternalInit, PersistInit, RestartsCounted
<1>2. RestartsCounted /\ [ExternalNext]_allVars => RestartsCounted'
  <2> SUFFICES ASSUME RestartsCounted, [ExternalNext]_allVars PROVE RestartsCounted'
    OBVIOUS
  <2>1. restarts' = restarts \/ Restart
    BY OnlyRestartsCount DEF allVars, faultVars
  <2>2. Restart => restarts' = restarts + 1
    BY DEF Restart, FreshProcess
  <2> QED BY <2>1, <2>2 DEF RestartsCounted
<1> QED BY <1>1, <1>2, PTL DEF ExternalSpec

\* A start that nothing has failed before goes on from the cursor of the last
\* entry or clear, but for those that were still to be written (put and Clear
\* count the cursor on, openExternalStorage reads it back, store.go; "preserve
\* the supplied monotonic cursor across restarts", storage.go).
THEOREM CursorGoesOn == ExternalSpec => CursorContinues
PROOF
<1>1. ASSUME CursorsInv, CountInv, RestartsCounted, ExternalNext,
             restarts' > restarts, faults' = 0, handle
      PROVE  nextCursor' + CursorsIn(Unwritten) >= nextCursor
  <2>1. Restart
    <3>1. restarts' = restarts \/ Restart
      BY <1>1, OnlyRestartsCount
    <3> QED BY <1>1, <3>1 DEF RestartsCounted
  <2>2. nextCursor' = savedCursor
    BY <1>1, <2>1, RestartCounts
  <2>3. faults = 0 /\ savedCursor \in Nat /\ nextCursor \in Nat
    <3>1. faults' = faults \/ faults' = faults + 1
      BY <2>1 DEF Restart, Open, Fault
    <3>2. faults = 0
      BY <1>1, <3>1 DEF CursorsInv
    <3> QED BY <1>1, <3>2 DEF CursorsInv, InCursorOrder
  <2>4. nextCursor <= savedCursor + CursorsIn(Unwritten)
    BY <1>1, <2>3 DEF CountInv
  <2> QED BY <2>2, <2>3, <2>4
<1>2. CursorsInv /\ CountInv /\ RestartsCounted /\ [ExternalNext]_allVars =>
        [restarts' > restarts /\ faults' = 0 /\ handle =>
           nextCursor' + CursorsIn(Unwritten) >= nextCursor]_allVars
  BY <1>1
<1> QED BY <1>2, CountsAlways, RestartsAreCounted, PTL DEF ExternalSpec, CursorContinues
=============================================================================
