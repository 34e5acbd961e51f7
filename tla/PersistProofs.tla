---------------------------- MODULE PersistProofs ----------------------------
(***************************************************************************)
(* The turns of persist (store.go), for every number of goroutines: the    *)
(* batches that have been issued and not been written are numbered without *)
(* a gap, and each number belongs to one goroutine.  The lemmas say what   *)
(* each kind of step does, whatever the storage is: to the turns, to the   *)
(* records still to be written, to memory, and to the errors on their way  *)
(* to storageError; JournalStoreProofs and ExternalStoreProofs apply them. *)
(***************************************************************************)
EXTENDS Persist, EntryStoreProofs

Turn(p) == call[p].sequence

(***************************************************************************)
(* The inductive invariant.  OneWriterInTurn is not inductive: that the    *)
(* goroutine inside the storage is alone there rests on no two goroutines  *)
(* having the same turn, and that a new turn differs from those before it  *)
(* on all of them being numbers that have been issued.                     *)
(***************************************************************************)
TurnsInv ==
    /\ storageIssued \in Nat /\ storageDone \in Nat
    /\ storageDone <= storageIssued
    /\ DOMAIN call = Procs
    /\ \A p \in Procs : InPersist(p) => Turn(p) \in (storageDone + 1)..storageIssued
    /\ \A p, q \in Procs : InPersist(p) /\ InPersist(q) /\ Turn(p) = Turn(q) => p = q
    /\ \A n \in (storageDone + 1)..storageIssued :
         \E p \in Procs : InPersist(p) /\ Turn(p) = n
    /\ \A p \in Procs : HoldsStorageMu(p) => Turn(p) = storageDone + 1

-----------------------------------------------------------------------------
(* The kinds of steps, by what they do to the turns.                       *)

OnlyMoves(p) ==
    /\ DOMAIN call' = Procs
    /\ \A q \in Procs \ {p} : call'[q] = call[q]

\* A step outside persist that issues nothing.
StaysOutside(p) ==
    /\ ~InPersist(p) /\ ~InPersist(p)'
    /\ OnlyMoves(p)
    /\ UNCHANGED <<storageIssued, storageDone>>

\* storageBatchLocked hands out the next number.
TakesNumber(p) ==
    /\ ~InPersist(p)
    /\ call'[p].at = "persist" /\ Turn(p)' = storageIssued + 1
    /\ OnlyMoves(p)
    /\ storageIssued' = storageIssued + 1 /\ UNCHANGED storageDone

\* persist, with storageMu.
WritesInTurn(p) ==
    /\ InPersist(p) /\ Turn(p) = storageDone + 1
    /\ InPersist(p)' /\ Turn(p)' = Turn(p)
    /\ OnlyMoves(p)
    /\ UNCHANGED <<storageIssued, storageDone>>

\* The end of persist.
PassesTurn(p) ==
    /\ HoldsStorageMu(p) /\ ~InPersist(p)'
    /\ storageDone' = Turn(p)
    /\ OnlyMoves(p)
    /\ UNCHANGED storageIssued

LEMMA StayingOutsideKeeps ==
    ASSUME TurnsInv, NEW p \in Procs, StaysOutside(p)
    PROVE  TurnsInv'
PROOF
<1>1. \A q \in Procs : /\ InPersist(q)' <=> InPersist(q)
                       /\ InPersist(q) => Turn(q)' = Turn(q)
                       /\ HoldsStorageMu(q)' <=> HoldsStorageMu(q)
  BY DEF StaysOutside, OnlyMoves, InPersist, HoldsStorageMu, Turn
<1>2. /\ storageIssued' = storageIssued /\ storageDone' = storageDone
      /\ DOMAIN call' = Procs
  BY DEF StaysOutside, OnlyMoves
<1>3. \A q \in Procs : HoldsStorageMu(q)' => Turn(q)' = storageDone' + 1
  BY <1>1, <1>2 DEF TurnsInv, HoldsStorageMu, InPersist
<1> QED BY <1>1, <1>2, <1>3 DEF TurnsInv

LEMMA TakingNumberKeeps ==
    ASSUME TurnsInv, NEW p \in Procs, TakesNumber(p)
    PROVE  TurnsInv'
PROOF
<1>1. \A q \in Procs \ {p} : /\ InPersist(q)' <=> InPersist(q)
                             /\ Turn(q)' = Turn(q)
                             /\ HoldsStorageMu(q)' <=> HoldsStorageMu(q)
  BY DEF TakesNumber, OnlyMoves, InPersist, HoldsStorageMu, Turn
<1>2. /\ InPersist(p)' /\ ~HoldsStorageMu(p)' /\ Turn(p)' = storageIssued + 1
      /\ storageIssued' = storageIssued + 1 /\ storageDone' = storageDone
      /\ ~InPersist(p)
      /\ DOMAIN call' = Procs
  BY DEF TakesNumber, OnlyMoves, InPersist, HoldsStorageMu
<1>3. \A q \in Procs : InPersist(q)' => Turn(q)' \in (storageDone' + 1)..storageIssued'
  BY <1>1, <1>2 DEF TurnsInv
<1>4. \A q, r \in Procs : InPersist(q)' /\ InPersist(r)' /\ Turn(q)' = Turn(r)' => q = r
  BY <1>1, <1>2 DEF TurnsInv
<1>5. \A n \in (storageDone' + 1)..storageIssued' :
        \E q \in Procs : InPersist(q)' /\ Turn(q)' = n
  <2> SUFFICES ASSUME NEW n \in (storageDone' + 1)..storageIssued'
               PROVE  \E q \in Procs : InPersist(q)' /\ Turn(q)' = n
    OBVIOUS
  <2>1. CASE n = storageIssued + 1
    BY <2>1, <1>2
  <2>2. CASE n # storageIssued + 1
    <3>1. n \in (storageDone + 1)..storageIssued
      BY <2>2, <1>2 DEF TurnsInv
    <3>2. PICK q \in Procs : InPersist(q) /\ Turn(q) = n
      BY <3>1 DEF TurnsInv
    <3> QED BY <3>2, <1>1, <1>2
  <2> QED BY <2>1, <2>2
<1>6. \A q \in Procs : HoldsStorageMu(q)' => Turn(q)' = storageDone' + 1
  BY <1>1, <1>2 DEF TurnsInv
<1>7. storageIssued' \in Nat /\ storageDone' \in Nat /\ storageDone' <= storageIssued'
  BY <1>2 DEF TurnsInv
<1> QED BY <1>2, <1>3, <1>4, <1>5, <1>6, <1>7 DEF TurnsInv

LEMMA WritingInTurnKeeps ==
    ASSUME TurnsInv, NEW p \in Procs, WritesInTurn(p)
    PROVE  TurnsInv'
PROOF
<1>1. \A q \in Procs : /\ InPersist(q)' <=> InPersist(q)
                       /\ Turn(q)' = Turn(q)
  BY DEF WritesInTurn, OnlyMoves, InPersist, Turn
<1>2. \A q \in Procs \ {p} : HoldsStorageMu(q)' <=> HoldsStorageMu(q)
  BY DEF WritesInTurn, OnlyMoves, HoldsStorageMu
<1>3. /\ Turn(p) = storageDone + 1
      /\ storageIssued' = storageIssued /\ storageDone' = storageDone
      /\ DOMAIN call' = Procs
  BY DEF WritesInTurn, OnlyMoves
<1>4. \A q \in Procs : HoldsStorageMu(q)' => Turn(q)' = storageDone' + 1
  BY <1>1, <1>2, <1>3 DEF TurnsInv
<1> QED BY <1>1, <1>3, <1>4 DEF TurnsInv

\* Nobody else has the turn that is over, so the next number opens the
\* interval of those still to come.
LEMMA PassingTurnKeeps ==
    ASSUME TurnsInv, NEW p \in Procs, PassesTurn(p)
    PROVE  TurnsInv'
PROOF
<1>1. \A q \in Procs \ {p} : /\ InPersist(q)' <=> InPersist(q)
                             /\ Turn(q)' = Turn(q)
                             /\ HoldsStorageMu(q)' <=> HoldsStorageMu(q)
  BY DEF PassesTurn, OnlyMoves, InPersist, HoldsStorageMu, Turn
<1>2. /\ HoldsStorageMu(p) /\ InPersist(p) /\ ~InPersist(p)' /\ ~HoldsStorageMu(p)'
      /\ Turn(p) = storageDone + 1 /\ storageDone' = storageDone + 1
      /\ storageIssued' = storageIssued
      /\ DOMAIN call' = Procs
  BY DEF PassesTurn, OnlyMoves, TurnsInv, InPersist, HoldsStorageMu
<1>3. storageIssued' \in Nat /\ storageDone' \in Nat /\ storageDone' <= storageIssued'
  BY <1>2 DEF TurnsInv
<1>4. \A q \in Procs : InPersist(q)' => Turn(q)' \in (storageDone' + 1)..storageIssued'
  <2> SUFFICES ASSUME NEW q \in Procs, InPersist(q)'
               PROVE  Turn(q)' \in (storageDone' + 1)..storageIssued'
    OBVIOUS
  <2>1. q # p /\ InPersist(q) /\ Turn(q)' = Turn(q)
    BY <1>1, <1>2
  <2>2. Turn(q) \in (storageDone + 1)..storageIssued /\ Turn(q) # storageDone + 1
    BY <2>1, <1>2 DEF TurnsInv
  <2> QED BY <2>1, <2>2, <1>2, <1>3 DEF TurnsInv
<1>5. \A q, r \in Procs : InPersist(q)' /\ InPersist(r)' /\ Turn(q)' = Turn(r)' => q = r
  BY <1>1, <1>2 DEF TurnsInv
<1>6. \A n \in (storageDone' + 1)..storageIssued' :
        \E q \in Procs : InPersist(q)' /\ Turn(q)' = n
  <2> SUFFICES ASSUME NEW n \in (storageDone' + 1)..storageIssued'
               PROVE  \E q \in Procs : InPersist(q)' /\ Turn(q)' = n
    OBVIOUS
  <2>1. n \in (storageDone + 1)..storageIssued /\ n # storageDone + 1
    BY <1>2 DEF TurnsInv
  <2>2. PICK q \in Procs : InPersist(q) /\ Turn(q) = n
    BY <2>1 DEF TurnsInv
  <2> QED BY <2>1, <2>2, <1>1, <1>2
<1>7. \A q \in Procs : HoldsStorageMu(q)' => Turn(q)' = storageDone' + 1
  <2> SUFFICES ASSUME NEW q \in Procs, HoldsStorageMu(q)' PROVE FALSE
    OBVIOUS
  <2>1. q # p /\ HoldsStorageMu(q)
    BY <1>1, <1>2
  <2>2. InPersist(q) /\ Turn(q) = storageDone + 1
    BY <2>1 DEF TurnsInv, HoldsStorageMu, InPersist
  <2> QED BY <2>1, <2>2, <1>2 DEF TurnsInv
<1> QED BY <1>2, <1>3, <1>4, <1>5, <1>6, <1>7 DEF TurnsInv

-----------------------------------------------------------------------------
(* The steps that every storage has.                                       *)

LEMMA MemoryStepKeeps ==
    ASSUME TurnsInv, NEW p \in Procs, MemoryStep(p)
    PROVE  TurnsInv'
PROOF
<1>0. DOMAIN call = Procs
  BY DEF TurnsInv
<1>1. ASSUME NEW id \in Ids, NEW size \in Sizes, BeginRecord(p, id, size)
      PROVE  StaysOutside(p)
  BY <1>0, <1>1 DEF BeginRecord, StaysOutside, OnlyMoves, InPersist, Idle, storageVars
<1>2. CASE PutAfterClose(p)
  <2>1. StaysOutside(p)
    BY <1>0, <1>2 DEF PutAfterClose, StaysOutside, OnlyMoves, InPersist, Idle, storageVars
  <2> QED BY <2>1, StayingOutsideKeeps
<1>3. CASE PutTooLarge(p)
  <2>1. call[p].at = "put" /\ storageDone' = storageDone
    BY <1>3 DEF PutTooLarge
  <2>2. PICK k : IssueBatch(p, DeleteRecords(memory, k))
    BY <1>3 DEF PutTooLarge
  <2>3. TakesNumber(p) \/ StaysOutside(p)
    BY <1>0, <2>1, <2>2
       DEF IssueBatch, TakesNumber, StaysOutside, OnlyMoves, InPersist, Idle, Turn
  <2> QED BY <2>3, StayingOutsideKeeps, TakingNumberKeeps
<1>4. CASE Put(p)
  <2>1. call[p].at = "put" /\ storageDone' = storageDone
    BY <1>4 DEF Put
  <2>2. \E records : IssueBatch(p, records)
    BY <1>4 DEF Put
  <2>3. TakesNumber(p) \/ StaysOutside(p)
    BY <1>0, <2>1, <2>2
       DEF IssueBatch, TakesNumber, StaysOutside, OnlyMoves, InPersist, Idle, Turn
  <2> QED BY <2>3, StayingOutsideKeeps, TakingNumberKeeps
<1>5. CASE Read(p)
  <2>1. call[p] = Idle /\ storageDone' = storageDone
    BY <1>5 DEF Read
  <2>2. PICK k : IssueBatch(p, DeleteRecords(memory, k))
    BY <1>5 DEF Read
  <2>3. TakesNumber(p) \/ StaysOutside(p)
    BY <1>0, <2>1, <2>2
       DEF IssueBatch, TakesNumber, StaysOutside, OnlyMoves, InPersist, Idle, Turn
  <2> QED BY <2>3, StayingOutsideKeeps, TakingNumberKeeps
<1>6. CASE Clear(p)
  <2>1. call[p] = Idle /\ storageDone' = storageDone
    BY <1>6 DEF Clear
  <2>2. IssueBatch(p, <<ClearRecord(nextCursor')>>)
    BY <1>6 DEF Clear
  <2>3. TakesNumber(p) \/ StaysOutside(p)
    BY <1>0, <2>1, <2>2
       DEF IssueBatch, TakesNumber, StaysOutside, OnlyMoves, InPersist, Idle, Turn
  <2> QED BY <2>3, StayingOutsideKeeps, TakingNumberKeeps
<1>7. CASE Close(p)
  <2>1. StaysOutside(p)
    BY <1>0, <1>7 DEF Close, StaysOutside, OnlyMoves, InPersist, Idle, storageVars
  <2> QED BY <2>1, StayingOutsideKeeps
<1> QED
  BY <1>1, <1>2, <1>3, <1>4, <1>5, <1>6, <1>7, StayingOutsideKeeps DEF MemoryStep

\* Handling a record, by whatever storage, keeps the turn.
LEMMA ContinueKeeps ==
    ASSUME TurnsInv, NEW p \in Procs, MayWrite(p) \/ call[p].at = "compact",
           call'[p].at \in {"io", "compact"}, call'[p].sequence = call[p].sequence,
           OnlyMoves(p), UNCHANGED <<storageIssued, storageDone>>
    PROVE  TurnsInv'
PROOF
<1>1. InPersist(p) /\ Turn(p) = storageDone + 1
  BY DEF MayWrite, HasTurn, InPersist, HoldsStorageMu, Turn, TurnsInv
<1>2. WritesInTurn(p)
  BY <1>1 DEF WritesInTurn, InPersist, Turn
<1> QED BY <1>2, WritingInTurnKeeps

LEMMA FinishPersistKeeps ==
    ASSUME TurnsInv, NEW p \in Procs, FinishPersist(p)
    PROVE  TurnsInv'
PROOF
<1>1. PassesTurn(p)
  BY DEF TurnsInv, FinishPersist, PassesTurn, OnlyMoves, HoldsStorageMu, InPersist,
         Idle, Turn, outsideVars
<1> QED BY <1>1, PassingTurnKeeps

LEMMA ReportErrorKeeps ==
    ASSUME TurnsInv, NEW p \in Procs, ReportError(p)
    PROVE  TurnsInv'
PROOF
<1>1. StaysOutside(p)
  BY DEF TurnsInv, ReportError, StaysOutside, OnlyMoves, InPersist, Idle, outsideVars
<1> QED BY <1>1, StayingOutsideKeeps

LEMMA CloseStorageKeeps ==
    ASSUME TurnsInv, NEW p \in Procs, NEW STATE broken, CloseStorage(p, broken)
    PROVE  TurnsInv'
PROOF
<1>1. StaysOutside(p)
  BY DEF TurnsInv, CloseStorage, StaysOutside, OnlyMoves, InPersist, Idle, outsideVars
<1> QED BY <1>1, StayingOutsideKeeps

LEMMA FreshProcessKeeps ==
    ASSUME FreshProcess
    PROVE  TurnsInv'
PROOF
<1>1. /\ storageIssued' = 0 /\ storageDone' = 0
      /\ DOMAIN call' = Procs
      /\ \A p \in Procs : call'[p] = Idle
  BY DEF FreshProcess
<1>2. \A p \in Procs : ~InPersist(p)' /\ ~HoldsStorageMu(p)'
  BY <1>1 DEF InPersist, HoldsStorageMu, Idle
<1> QED BY <1>1, <1>2 DEF TurnsInv

LEMMA InitTurns ==
    ASSUME PersistInit
    PROVE  TurnsInv
PROOF
<1>1. /\ storageIssued = 0 /\ storageDone = 0
      /\ DOMAIN call = Procs
      /\ \A p \in Procs : call[p] = Idle
  BY DEF PersistInit, Init
<1>2. \A p \in Procs : ~InPersist(p) /\ ~HoldsStorageMu(p)
  BY <1>1 DEF InPersist, HoldsStorageMu, Idle
<1> QED BY <1>1, <1>2 DEF TurnsInv

LEMMA UnchangedKeeps ==
    ASSUME TurnsInv, UNCHANGED <<storageIssued, storageDone, call>>
    PROVE  TurnsInv'
BY DEF TurnsInv, InPersist, HoldsStorageMu, Turn

\* What the invariant says of the properties that the runs check.
LEMMA TurnsInvSuffices ==
    ASSUME TurnsInv
    PROVE  OneWriterInTurn /\ EveryTurnHasAnOwner
PROOF
<1>1. OneWriterInTurn
  <2> SUFFICES ASSUME NEW p \in Procs, HoldsStorageMu(p)
               PROVE  /\ Turn(p) = storageDone + 1
                      /\ \A q \in Procs \ {p} : ~HoldsStorageMu(q)
    BY DEF OneWriterInTurn, Turn
  <2>1. \A q \in Procs : HoldsStorageMu(q) => InPersist(q) /\ Turn(q) = storageDone + 1
    BY DEF TurnsInv, HoldsStorageMu, InPersist
  <2> QED BY <2>1 DEF TurnsInv
<1>2. EveryTurnHasAnOwner
  <2> SUFFICES ASSUME NEW n \in (storageDone + 1)..storageIssued
               PROVE  \E p \in Procs :
                        /\ InPersist(p) /\ Turn(p) = n
                        /\ \A q \in Procs \ {p} : InPersist(q) => Turn(q) # n
    BY DEF EveryTurnHasAnOwner, Turn
  <2>1. PICK p \in Procs : InPersist(p) /\ Turn(p) = n
    BY DEF TurnsInv
  <2> QED BY <2>1 DEF TurnsInv
<1> QED BY <1>1, <1>2

-----------------------------------------------------------------------------
(* Going up to a number, and along a sequence.                             *)

LEMMA Upwards ==
    ASSUME NEW n \in Nat, NEW P, 0 \in P, \A k \in 0..(n - 1) : k \in P => (k + 1) \in P
    PROVE  n \in P
PROOF
<1> SUFFICES ASSUME n \notin P PROVE FALSE
  OBVIOUS
<1> DEFINE bad == {k \in 0..n : k \notin P}
<1>1. bad \subseteq Nat /\ bad # {}
  OBVIOUS
<1> HIDE DEF bad
<1>2. \E x \in bad : \A y \in bad : ~ (<<y, x>> \in OpToRel(<, Nat))
  BY <1>1, WFMin, NatLessThanWellFounded
<1>3. PICK x \in bad : \A y \in bad : ~ (<<y, x>> \in OpToRel(<, Nat))
  BY <1>2
<1>4. \A y \in bad : ~(y < x)
  BY <1>1, <1>3 DEF OpToRel
<1>5. x \in 0..n /\ x \notin P /\ x # 0
  BY DEF bad
<1> DEFINE y == x - 1
<1>6. y \in 0..(n - 1) /\ y + 1 = x /\ y < x /\ y \in 0..n
  BY <1>5
<1> HIDE DEF y
<1>7. y \notin P
  BY <1>5, <1>6
<1> QED BY <1>4, <1>6, <1>7 DEF bad

LEMMA ByAppending ==
    ASSUME NEW E, NEW P, <<>> \in P,
           \A s \in Seq(E) : \A e \in E : s \in P => Append(s, e) \in P
    PROVE  \A s \in Seq(E) : s \in P
PROOF
<1> SUFFICES ASSUME NEW s \in Seq(E) PROVE s \in P
  OBVIOUS
<1> DEFINE n == Len(s)
           upto(k) == SubSeq(s, 1, k)
           Q == {k \in 0..n : upto(k) \in P}
<1>1. n \in Nat /\ upto(0) = <<>> /\ upto(n) = s
  OBVIOUS
<1>2. 0 \in Q
  <2>1. 0 \in 0..n
    BY <1>1
  <2> HIDE DEF upto, n
  <2> QED BY <1>1, <2>1
<1>3. ASSUME NEW k \in 0..(n - 1), k \in Q PROVE (k + 1) \in Q
  <2> DEFINE next == k + 1
  <2>1. k \in Nat /\ next \in 1..n /\ next \in 0..n /\ next \in Nat
    BY <1>1
  <2>2. s[next] \in E /\ upto(k) \in Seq(E)
    BY <2>1
  <2>3. upto(next) = Append(upto(k), s[next])
    <3>1. /\ upto(next) \in Seq(E) /\ Len(upto(next)) = next /\ Len(upto(k)) = k
          /\ \A i \in 1..next : upto(next)[i] = s[i]
          /\ \A i \in 1..k : upto(k)[i] = s[i]
      BY <2>1
    <3> DEFINE a == upto(next)
               b == upto(k)
               e == s[next]
    <3>2. /\ Append(b, e) \in Seq(E) /\ Len(Append(b, e)) = Len(b) + 1
          /\ \A i \in 1..Len(b) : Append(b, e)[i] = b[i]
          /\ Append(b, e)[Len(b) + 1] = e
      <4> HIDE DEF b, e, upto, next
      <4> QED BY <2>2, AppendProperties DEF b, e
    <3>3. Len(a) = Len(Append(b, e))
      BY <3>1, <3>2
    <3>4. ASSUME NEW i \in 1..Len(a) PROVE a[i] = Append(b, e)[i]
      <4>1. i \in 1..k \/ i = next
        BY <2>1, <3>1
      <4>2. i \in 1..next
        BY <3>1
      <4> HIDE DEF a, b, e, upto
      <4>3. CASE i \in 1..k
        BY <3>1, <3>2, <4>2, <4>3 DEF a, b
      <4>4. CASE i = next
        BY <3>1, <3>2, <4>2, <4>4 DEF a, b, e
      <4> QED BY <4>1, <4>3, <4>4
    <3> HIDE DEF b, e
    <3>5. a \in Seq(E)
      BY <3>1
    <3> HIDE DEF a
    <3>6. a = Append(b, e)
      BY <3>2, <3>3, <3>4, <3>5, SeqEqual
    <3> QED BY <3>6 DEF a, b, e
  <2> HIDE DEF upto, next
  <2>4. upto(next) \in P
    BY <1>3, <2>2, <2>3
  <2> QED BY <2>1, <2>4 DEF next
<1>4. n \in Q
  <2> HIDE DEF Q
  <2> QED BY <1>1, <1>2, <1>3, Upwards
<1> QED BY <1>1, <1>4

\* The last position of a sequence.
LEMMA LastOfPrefix ==
    ASSUME NEW k \in Nat
    PROVE  /\ Max(1..(k + 1)) = k + 1
           /\ (1..(k + 1)) \ {k + 1} = 1..k
           /\ \A T \in SUBSET (1..(k + 1)) : k + 1 \in T => Max(T) = k + 1
PROOF
<1>1. ASSUME NEW T \in SUBSET (1..(k + 1)), k + 1 \in T PROVE Max(T) = k + 1
  <2>1. \A y \in T : y \in Int /\ k + 1 >= y
    OBVIOUS
  <2>2. \A x \in T : (\A y \in T : x >= y) => x = k + 1
    BY <1>1, <2>1
  <2> QED BY <1>1, <2>1, <2>2 DEF Max
<1>2. 1..(k + 1) \in SUBSET (1..(k + 1)) /\ k + 1 \in 1..(k + 1)
  OBVIOUS
<1> QED BY <1>1, <1>2

-----------------------------------------------------------------------------
(* FlattenSeq, a part at a time.                                           *)

Flattening(g, s, n) ==
    g = [i \in 1..n |-> IF i = 1 THEN s[i] ELSE g[i - 1] \o s[i]]

LEMMA FlatteningExists ==
    ASSUME NEW s, NEW n \in Nat
    PROVE  \E g : Flattening(g, s, n)
PROOF
<1> DEFINE P == {k \in 0..n : \E g : Flattening(g, s, k)}
<1>1. 0 \in P
  <2> DEFINE z == [i \in 1..0 |-> IF i = 1 THEN s[i] ELSE 0]
  <2>1. 1..0 = {} /\ 0 \in 0..n
    OBVIOUS
  <2>2. Flattening(z, s, 0)
    BY <2>1 DEF Flattening
  <2> QED BY <2>1, <2>2
<1>2. ASSUME NEW k \in 0..(n - 1), k \in P PROVE (k + 1) \in P
  <2> DEFINE last == k + 1
  <2>1. PICK g : Flattening(g, s, k)
    BY <1>2
  <2>2. /\ k \in Nat /\ last \in 0..n
        /\ \A i \in 1..last : i = last \/ i \in 1..k
        /\ \A i \in 1..last : i # 1 => i - 1 \in 1..k
        /\ last \in 1..last /\ ~(last \in 1..k)
        /\ 1..k \subseteq 1..last
    OBVIOUS
  <2> HIDE DEF last
  <2> DEFINE G == [i \in 1..last |->
                     IF i = last THEN (IF i = 1 THEN s[i] ELSE g[i - 1] \o s[i]) ELSE g[i]]
  <2>3. \A i \in 1..k : G[i] = g[i]
    BY <2>2
  <2>4. ASSUME NEW i \in 1..last
        PROVE  G[i] = IF i = 1 THEN s[i] ELSE G[i - 1] \o s[i]
    <3>1. i # 1 => G[i - 1] = g[i - 1]
      BY <2>2, <2>3
    <3>2. CASE i = last
      <4>1. G[i] = IF i = 1 THEN s[i] ELSE g[i - 1] \o s[i]
        BY <3>2
      <4> HIDE DEF G
      <4> QED BY <3>1, <4>1
    <3>3. CASE i \in 1..k
      <4>1. g[i] = IF i = 1 THEN s[i] ELSE g[i - 1] \o s[i]
        BY <2>1, <3>3 DEF Flattening
      <4>2. G[i] = g[i]
        BY <2>3, <3>3
      <4> HIDE DEF G
      <4> QED BY <3>1, <4>1, <4>2
    <3> QED BY <2>2, <3>2, <3>3
  <2>5. G = [i \in 1..last |-> G[i]]
    OBVIOUS
  <2> HIDE DEF G
  <2>6. Flattening(G, s, last)
    BY <2>4, <2>5 DEF Flattening
  <2>7. last \in P
    BY <2>2, <2>6
  <2> QED BY <2>7 DEF last
<1>3. n \in P
  <2> HIDE DEF P
  <2> QED BY <1>1, <1>2, Upwards
<1> QED BY <1>3

LEMMA FlattenAppended ==
    ASSUME NEW E, NEW s \in Seq(Seq(E)), NEW e \in Seq(E)
    PROVE  FlattenSeq(Append(s, e)) = IF s = <<>> THEN e ELSE FlattenSeq(s) \o e
PROOF
<1> DEFINE n == Len(s)
           last == n + 1
           t == Append(s, e)
           g == CHOOSE f : Flattening(f, s, n)
           h == CHOOSE f : Flattening(f, t, last)
<1>1. /\ n \in Nat /\ last \in Nat /\ Len(t) = last /\ last # 0
      /\ t[last] = e /\ \A i \in 1..n : t[i] = s[i]
      /\ s = <<>> <=> n = 0
      /\ last \in 1..last /\ last - 1 = n /\ (last = 1 <=> n = 0)
  OBVIOUS
<1>2. FlattenSeq(t) = h[last]
  BY <1>1, Zenon DEF FlattenSeq, Flattening
<1>3. n # 0 => FlattenSeq(s) = g[n]
  BY <1>1, Zenon DEF FlattenSeq, Flattening
<1>4. Flattening(g, s, n) /\ Flattening(h, t, last)
  <2> HIDE DEF n, last, t
  <2> QED BY <1>1, FlatteningExists
<1> HIDE DEF g, h, t
<1>5. ASSUME n # 0 PROVE h[n] = g[n]
  <2> DEFINE P == {k \in 0..n : k = 0 \/ h[k] = g[k]}
  <2>1. 0 \in P
    BY <1>1
  <2>2. ASSUME NEW k \in 0..(n - 1), k \in P PROVE (k + 1) \in P
    <3> DEFINE j == k + 1
    <3>1. j \in 1..n /\ j \in 1..last /\ j \in 0..n /\ j - 1 = k /\ (j = 1 <=> k = 0)
      BY <1>1
    <3>2. k # 0 => h[k] = g[k]
      BY <2>2
    <3> HIDE DEF j, last, n
    <3>3. h[j] = IF j = 1 THEN t[j] ELSE h[k] \o t[j]
      BY <1>4, <3>1 DEF Flattening
    <3>4. g[j] = IF j = 1 THEN s[j] ELSE g[k] \o s[j]
      BY <1>4, <3>1 DEF Flattening
    <3>5. j \in P
      BY <1>1, <3>1, <3>2, <3>3, <3>4
    <3> QED BY <3>5 DEF j
  <2>3. n \in P
    <3> HIDE DEF P
    <3> QED BY <1>1, <2>1, <2>2, Upwards
  <2> QED BY <1>5, <2>3
<1> HIDE DEF n, last
<1>6. h[last] = IF last = 1 THEN t[last] ELSE h[n] \o t[last]
  BY <1>1, <1>4 DEF Flattening
<1> QED BY <1>1, <1>2, <1>3, <1>5, <1>6 DEF t

\* The batches one after the other.
LEMMA Flattened ==
    ASSUME NEW E, NEW s \in Seq(Seq(E))
    PROVE  /\ FlattenSeq(<<>>) = <<>>
           /\ FlattenSeq(s) \in Seq(E)
           /\ \A e \in Seq(E) : FlattenSeq(Append(s, e)) = FlattenSeq(s) \o e
           /\ \A e \in Seq(E) : FlattenSeq(<<e>> \o s) = e \o FlattenSeq(s)
PROOF
<1> DEFINE none == <<>>
           B == Seq(E)
<1>1. FlattenSeq(<<>>) = <<>>
  <2>1. Len(<<>>) = 0
    OBVIOUS
  <2> QED BY <2>1 DEF FlattenSeq
<1>2. \A u \in Seq(B) : \A e \in B : FlattenSeq(Append(u, e)) = FlattenSeq(u) \o e
  <2> SUFFICES ASSUME NEW u \in Seq(B), NEW e \in B
               PROVE  FlattenSeq(Append(u, e)) = FlattenSeq(u) \o e
    OBVIOUS
  <2>1. FlattenSeq(Append(u, e)) = IF u = <<>> THEN e ELSE FlattenSeq(u) \o e
    BY FlattenAppended
  <2>2. <<>> \o e = e
    BY ConcatEmptySeq
  <2> HIDE DEF B
  <2>3. CASE u = <<>>
    BY <1>1, <2>1, <2>2, <2>3
  <2>4. CASE u # <<>>
    BY <2>1, <2>4
  <2> QED BY <2>3, <2>4
<1> DEFINE P == {u \in Seq(B) : FlattenSeq(u) \in B}
<1>3. <<>> \in P
  <2>1. <<>> \in Seq(B) /\ <<>> \in B
    OBVIOUS
  <2>2. FlattenSeq(<<>>) \in B
    <3> HIDE DEF B
    <3> QED BY <1>1, <2>1
  <2> HIDE DEF B
  <2> QED BY <2>1, <2>2
<1>4. ASSUME NEW u \in Seq(B), NEW e \in B, u \in P PROVE Append(u, e) \in P
  <2>1. Append(u, e) \in Seq(B)
    <3> HIDE DEF B
    <3> QED OBVIOUS
  <2>2. FlattenSeq(u) \o e \in B
    <3> DEFINE v == FlattenSeq(u)
    <3>1. v \in Seq(E) /\ e \in Seq(E)
      BY <1>4
    <3> HIDE DEF v
    <3> QED BY <3>1, ConcatProperties DEF v
  <2> HIDE DEF B
  <2> QED BY <1>2, <2>1, <2>2
<1>5. \A u \in Seq(B) : u \in P
  <2> HIDE DEF P, B
  <2> QED BY <1>3, <1>4, ByAppending
<1>6. ASSUME NEW e \in B PROVE FlattenSeq(<<e>> \o s) = e \o FlattenSeq(s)
  <2> DEFINE one == <<e>>
             Q == {u \in Seq(B) : FlattenSeq(one \o u) = e \o FlattenSeq(u)}
  <2>0. one \in Seq(B)
    <3> HIDE DEF B
    <3> QED OBVIOUS
  <2>1. none \in Q
    <3>1. one \o none = one /\ none \in Seq(B)
      <4> HIDE DEF B, one
      <4> QED BY <2>0, ConcatEmptySeq
    <3>2. FlattenSeq(one) = e
      <4>1. one = Append(none, e)
        OBVIOUS
      <4>2. FlattenSeq(Append(none, e)) = IF none = <<>> THEN e ELSE FlattenSeq(none) \o e
        <5>1. none \in Seq(Seq(E)) /\ e \in Seq(E)
          OBVIOUS
        <5> HIDE DEF none
        <5> QED BY <5>1, FlattenAppended
      <4> HIDE DEF one
      <4> QED BY <4>1, <4>2
    <3>3. e \o none = e
      BY ConcatEmptySeq
    <3>4. FlattenSeq(none) = none
      BY <1>1
    <3> HIDE DEF one, none, B
    <3> QED BY <3>1, <3>2, <3>3, <3>4
  <2>2. ASSUME NEW u \in Seq(B), NEW b \in B, u \in Q PROVE Append(u, b) \in Q
    <3>1. Append(u, b) \in Seq(B)
      <4> HIDE DEF B
      <4> QED OBVIOUS
    <3>2. one \o u \in Seq(B) /\ one \o Append(u, b) = Append(one \o u, b)
      <4> HIDE DEF B, one
      <4>1. Append(u, b) = u \o <<b>> /\ <<b>> \in Seq(B) /\ one \o u \in Seq(B)
        BY <2>0, AppendIsConcat, ConcatProperties
      <4>2. Append(one \o u, b) = (one \o u) \o <<b>>
        BY <4>1, AppendIsConcat
      <4> QED BY <2>0, <4>1, <4>2, ConcatAssociative
    <3> DEFINE v == one \o u
               fu == FlattenSeq(u)
    <3>3. FlattenSeq(Append(v, b)) = FlattenSeq(v) \o b /\ FlattenSeq(Append(u, b)) = fu \o b
      <4>1. v \in Seq(B)
        BY <3>2
      <4> HIDE DEF v, B
      <4> QED BY <1>2, <4>1
    <3>4. FlattenSeq(v) = e \o fu
      BY <2>2
    <3>5. (e \o fu) \o b = e \o (fu \o b)
      <4>1. fu \in Seq(E) /\ e \in Seq(E) /\ b \in Seq(E)
        BY <1>5
      <4> HIDE DEF fu
      <4> QED BY <4>1, ConcatAssociative
    <3> HIDE DEF one, fu, B
    <3> QED BY <3>1, <3>2, <3>3, <3>4, <3>5 DEF fu
  <2>3. s \in Q
    <3> HIDE DEF Q
    <3>1. \A u \in Seq(B) : u \in Q
      <4> HIDE DEF B
      <4> QED BY <2>1, <2>2, ByAppending DEF none
    <3> QED BY <3>1
  <2> QED BY <2>3
<1>7. s \in Seq(B)
  OBVIOUS
<1>8. FlattenSeq(s) \in Seq(E)
  BY <1>5, <1>7
<1>9. \A e \in Seq(E) : FlattenSeq(Append(s, e)) = FlattenSeq(s) \o e
  BY <1>2, <1>7
<1> QED BY <1>1, <1>6, <1>8, <1>9

-----------------------------------------------------------------------------
(* The batches of a step under mu, and what they tell the storage.         *)

Entries == [id : Ids, size : Nat, recordedAt : Nat, cursor : Nat]

\* The entries of a memory or the rows of a table, each under its own id.
Typed(table) ==
    /\ table \in [DOMAIN table -> Entries]
    /\ \A id \in DOMAIN table : table[id].id = id

Records ==
    [op : {"put"}, entry : Entries] \cup [op : {"delete"}, id : Ids]
      \cup [op : {"clear"}, cursor : Nat]

Sound(m) == Exact(m) /\ Balanced(m) /\ Typed(m.entries)

MemoryInv ==
    /\ now \in Nat /\ nextCursor \in Nat
    /\ Sound(memory)
    /\ \A p \in Procs : call[p].at = "put" =>
         call[p].id \in Ids /\ call[p].size \in Nat /\ call[p].recordedAt \in Nat

LEMMA EmptyIsSound == Sound(EmptyMemory)
PROOF
<1>1. EmptyMemory.entries = [id \in {} |-> 0]
  BY DEF EmptyMemory
<1>2. Typed([id \in {} |-> 0])
  BY DEF Typed
<1> QED BY <1>1, <1>2, EmptyExact, EmptyBalances DEF Sound

LEMMA DropIsSound ==
    ASSUME NEW m, Sound(m), NEW k \in 0..Len(m.order)
    PROVE  Sound(DropOldest(m, k))
PROOF
<1> DEFINE d == DropOldest(m, k)
           gone == {m.order[i] : i \in 1..k}
<1>1. Exact(d) /\ Balanced(d)
  BY DropExact, DropBalances DEF Sound
<1>2. d.entries = [id \in Stored(m) \ gone |-> m.entries[id]]
  BY DEF DropOldest
<1> HIDE DEF d, gone
<1>3. Typed(d.entries)
  BY <1>2 DEF Sound, Typed, Stored
<1> QED BY <1>1, <1>3 DEF Sound, d

LEMMA ForgetIsSound ==
    ASSUME NEW m, Sound(m), NEW id
    PROVE  Sound(Forget(m, id))
PROOF
<1>1. Exact(Forget(m, id)) /\ Balanced(Forget(m, id))
  BY ForgetExact, ForgetBalances DEF Sound
<1>2. Typed(Forget(m, id).entries)
  <2>1. CASE id \notin Stored(m)
    BY <2>1 DEF Forget, Sound
  <2>2. CASE id \in Stored(m)
    <3>1. Forget(m, id).entries = [x \in Stored(m) \ {id} |-> m.entries[x]]
      BY <2>2 DEF Forget
    <3> QED BY <3>1 DEF Sound, Typed, Stored
  <2> QED BY <2>1, <2>2
<1> QED BY <1>1, <1>2 DEF Sound

LEMMA ReplaceIsSound ==
    ASSUME NEW m, Sound(m), NEW entry \in Entries
    PROVE  Sound(Replace(m, entry))
PROOF
<1> DEFINE f == Forget(m, entry.id)
           r == Insert(f, entry)
<1>1. Sound(f) /\ entry.id \notin Stored(f)
  BY ForgetIsSound, ForgetExact DEF Sound
<1>2. entry.id \in Ids /\ entry.size \in Nat
  BY DEF Entries
<1> HIDE DEF f
<1>3. Exact(r) /\ Balanced(r)
  BY <1>1, <1>2, InsertExact, InsertBalances DEF Sound
<1>4. r.entries = [x \in Stored(f) \cup {entry.id} |->
                     IF x = entry.id THEN entry ELSE f.entries[x]]
  BY DEF Insert
<1> HIDE DEF r
<1>5. Typed(r.entries)
  BY <1>1, <1>4 DEF Sound, Typed, Stored
<1>6. Replace(m, entry) = r
  BY DEF Replace, f, r
<1> QED BY <1>3, <1>5, <1>6 DEF Sound

LEMMA RecordsAreTyped ==
    /\ \A entry \in Entries : PutRecord(entry) \in Records
    /\ \A cursor \in Nat : ClearRecord(cursor) \in Records
    /\ \A id \in Ids : [op |-> "delete", id |-> id] \in Records
BY DEF PutRecord, ClearRecord, Records

LEMMA DeletesAreTyped ==
    ASSUME NEW m, Exact(m), NEW k \in 0..Len(m.order)
    PROVE  DeleteRecords(m, k) \in Seq(Records)
PROOF
<1>1. Len(m.order) \in Nat /\ \A i \in 1..Len(m.order) : m.order[i] \in Ids
  BY ElementOfSeq DEF Exact
<1>2. \A i \in 1..k : m.order[i] \in Ids
  BY <1>1
<1>3. \A i \in 1..k : [op |-> "delete", id |-> m.order[i]] \in Records
  BY <1>2, RecordsAreTyped
<1> HIDE DEF Records
<1>4. [i \in 1..k |-> [op |-> "delete", id |-> m.order[i]]] \in Seq(Records)
  BY <1>1, <1>3
<1> QED BY <1>4 DEF DeleteRecords

\* The delete records of one more entry.
LEMMA DeletesInSteps ==
    ASSUME NEW m, Exact(m), NEW j \in Nat, NEW k \in 0..Len(m.order), k = j + 1
    PROVE  /\ DeleteRecords(m, j) \in Seq(Records)
           /\ DeleteRecords(m, k)
                = Append(DeleteRecords(m, j), [op |-> "delete", id |-> m.order[k]])
PROOF
<1> DEFINE s == DeleteRecords(m, j)
           t == DeleteRecords(m, k)
           R == Records
           record == [op |-> "delete", id |-> m.order[k]]
<1>0. /\ Len(m.order) \in Nat /\ j \in 0..Len(m.order) /\ k \in 1..Len(m.order)
      /\ k \in Nat
  BY DEF Exact
<1>1. m.order[k] \in Ids
  BY <1>0, ElementOfSeq DEF Exact
<1>2. record \in R
  BY <1>1, RecordsAreTyped
<1>3. s \in Seq(R) /\ t \in Seq(R)
  BY <1>0, DeletesAreTyped
<1>4. /\ Len(s) = j /\ Len(t) = k
      /\ \A i \in 1..j : s[i] = [op |-> "delete", id |-> m.order[i]]
      /\ \A i \in 1..k : t[i] = [op |-> "delete", id |-> m.order[i]]
  <2> HIDE DEF R
  <2> QED BY <1>0, <1>3 DEF DeleteRecords
<1>5. /\ Append(s, record) \in Seq(R) /\ Len(Append(s, record)) = Len(s) + 1
      /\ \A i \in 1..Len(s) : Append(s, record)[i] = s[i]
      /\ Append(s, record)[Len(s) + 1] = record
  <2> HIDE DEF s, t, R, record
  <2> QED BY <1>2, <1>3, AppendProperties
<1>6. ASSUME NEW i \in 1..k PROVE t[i] = Append(s, record)[i]
  <2> HIDE DEF s, t, R
  <2>1. i \in 1..j \/ i = k
    OBVIOUS
  <2>2. CASE i = k
    BY <1>0, <1>4, <1>5, <2>2
  <2>3. CASE i \in 1..j
    BY <1>0, <1>4, <1>5, <2>3
  <2> QED BY <2>1, <2>2, <2>3
<1>7. Len(t) = Len(Append(s, record))
  BY <1>4, <1>5
<1> HIDE DEF s, t, R, record
<1>8. t = Append(s, record)
  BY <1>3, <1>4, <1>5, <1>6, <1>7, SeqEqual
<1> QED BY <1>3, <1>8 DEF s, t, record, R

\* The ids that leave first.
Oldest(m, k) == {m.order[i] : i \in 1..k}

\* A change of memory, and the records that tell the storage of it.
Purges(records) ==
    \E k \in 0..Len(memory.order) :
        records = DeleteRecords(memory, k) /\ memory' = DropOldest(memory, k)

Puts(records) ==
    \E entry \in Entries, k \in 0..Len(memory.order) :
        \E replaced : \E e \in 0..Len(replaced.order) :
            /\ Sound(DropOldest(memory, k))
            /\ replaced = Replace(DropOldest(memory, k), entry) /\ Sound(replaced)
            /\ memory' = DropOldest(replaced, e)
            /\ entry.id \notin {replaced.order[i] : i \in 1..e}
            /\ records = DeleteRecords(memory, k) \o DeleteRecords(replaced, e)
                           \o <<PutRecord(entry)>>

Clears(records) ==
    memory' = EmptyMemory /\ \E cursor \in Nat : records = <<ClearRecord(cursor)>>

Leaves(records) == records = <<>> /\ memory' = memory

Changes(records) ==
    Leaves(records) \/ Purges(records) \/ Puts(records) \/ Clears(records)

\* The records become the batch of p, or p is done with them: there are none,
\* or no storage to tell.
Told(p, records) ==
    \/ StaysOutside(p) /\ (handle => records = <<>>)
    \/ TakesNumber(p) /\ call'[p].records = records

CallsTyped ==
    \A p \in Procs : call[p].at = "put" =>
        call[p].id \in Ids /\ call[p].size \in Nat /\ call[p].recordedAt \in Nat

LEMMA IssueTells ==
    ASSUME TurnsInv, MemoryInv, NEW p \in Procs, NEW records, IssueBatch(p, records),
           ~InPersist(p), UNCHANGED storageDone
    PROVE  Told(p, records) /\ CallsTyped'
PROOF
<1>0. DOMAIN call = Procs /\ Durable
  BY PersistAssumption DEF TurnsInv
<1>1. PICK sees \in HandleSeen :
        IF records # <<>> /\ sees
        THEN /\ storageIssued' = storageIssued + 1
             /\ call' = [call EXCEPT ![p] =
                   [at |-> "persist", sequence |-> storageIssued + 1,
                    records |-> records]]
        ELSE /\ call' = [call EXCEPT ![p] = Idle]
             /\ UNCHANGED storageIssued
  BY Zenon DEF IssueBatch
<1>2. call'[p].at # "put" /\ \A q \in Procs \ {p} : call'[q] = call[q]
  BY <1>0, <1>1 DEF Idle
<1>3. handle => sees
  <2>1. sees = handle \/ sees = Durable
    BY DEF HandleSeen
  <2> QED BY <1>0, <2>1, Zenon
<1>4. CASE records # <<>> /\ sees
  <2>1. TakesNumber(p) /\ call'[p].records = records
    BY <1>0, <1>1, <1>4 DEF TakesNumber, OnlyMoves, InPersist, Turn
  <2> QED BY <1>2, <2>1 DEF Told, CallsTyped, MemoryInv
<1>5. CASE ~(records # <<>> /\ sees)
  <2>1. StaysOutside(p)
    BY <1>0, <1>1, <1>5 DEF StaysOutside, OnlyMoves, InPersist, Idle
  <2>2. handle => records = <<>>
    BY <1>3, <1>5, Zenon
  <2> QED BY <1>2, <2>1, <2>2 DEF Told, CallsTyped, MemoryInv
<1> QED BY <1>4, <1>5

\* Every step under mu issues what it has done to memory.
LEMMA MemoryStepIssues ==
    ASSUME TurnsInv, MemoryInv, NEW p \in Procs, MemoryStep(p)
    PROVE  /\ MemoryInv'
           /\ \E records \in Seq(Records) : Changes(records) /\ Told(p, records)
PROOF
<1> DEFINE Goal == /\ MemoryInv'
                   /\ \E records \in Seq(Records) : Changes(records) /\ Told(p, records)
<1>0. DOMAIN call = Procs /\ Sound(memory) /\ Exact(memory) /\ nextCursor \in Nat
  BY DEF TurnsInv, MemoryInv, Sound
<1>1. ASSUME StaysOutside(p), CallsTyped', UNCHANGED <<memory, nextCursor, now>>
      PROVE  Goal
  <2>1. MemoryInv'
    BY <1>1 DEF MemoryInv, CallsTyped
  <2>2. <<>> \in Seq(Records) /\ Changes(<<>>) /\ Told(p, <<>>)
    BY <1>1 DEF Changes, Leaves, Told
  <2> QED BY <2>1, <2>2
<1>2. ASSUME NEW id \in Ids, NEW size \in Sizes, BeginRecord(p, id, size)
      PROVE  Goal
  <2>1. StaysOutside(p)
    BY <1>0, <1>2 DEF BeginRecord, StaysOutside, OnlyMoves, InPersist, Idle, storageVars
  <2>2. CallsTyped' /\ UNCHANGED <<memory, nextCursor, now>>
    BY <1>0, <1>2, StoreAssumption DEF BeginRecord, MemoryInv, CallsTyped, memoryVars
  <2> QED BY <1>1, <2>1, <2>2
<1>3. CASE PutAfterClose(p)
  <2>1. StaysOutside(p)
    BY <1>0, <1>3 DEF PutAfterClose, StaysOutside, OnlyMoves, InPersist, Idle, storageVars
  <2>2. CallsTyped' /\ UNCHANGED <<memory, nextCursor, now>>
    BY <1>0, <1>3 DEF PutAfterClose, MemoryInv, CallsTyped, memoryVars, Idle
  <2> QED BY <1>1, <2>1, <2>2
<1>4. CASE Close(p)
  <2>1. StaysOutside(p)
    BY <1>0, <1>4 DEF Close, StaysOutside, OnlyMoves, InPersist, Idle, storageVars
  <2>2. CallsTyped' /\ UNCHANGED <<memory, nextCursor, now>>
    BY <1>0, <1>4 DEF Close, MemoryInv, CallsTyped, memoryVars
  <2> QED BY <1>1, <2>1, <2>2
<1>5. CASE PutTooLarge(p) \/ Read(p)
  <2>1. ~InPersist(p) /\ UNCHANGED <<storageDone, nextCursor, now>>
    BY <1>5 DEF PutTooLarge, Read, InPersist, Idle
  <2>2. PICK k \in 0..Len(memory.order) :
          memory' = DropOldest(memory, k) /\ IssueBatch(p, DeleteRecords(memory, k))
    <3>1. 1..Len(memory.order) \subseteq 0..Len(memory.order)
      BY <1>0 DEF Exact
    <3> QED BY <1>5, <3>1 DEF PutTooLarge, Read
  <2>3. Told(p, DeleteRecords(memory, k)) /\ CallsTyped'
    BY <2>1, <2>2, IssueTells
  <2>4. Sound(memory')
    BY <1>0, <2>2, DropIsSound
  <2>5. DeleteRecords(memory, k) \in Seq(Records)
    BY <1>0, DeletesAreTyped
  <2>6. Changes(DeleteRecords(memory, k))
    BY <2>2 DEF Changes, Purges
  <2>7. MemoryInv'
    BY <2>1, <2>3, <2>4 DEF MemoryInv, CallsTyped
  <2> QED BY <2>3, <2>5, <2>6, <2>7
<1>6. CASE Put(p)
  <2> DEFINE entry == [id |-> call[p].id, size |-> call[p].size,
                       recordedAt |-> call[p].recordedAt, cursor |-> nextCursor + 1]
  <2>1. /\ ~InPersist(p) /\ UNCHANGED <<storageDone, now>>
        /\ call[p].id \in Ids /\ call[p].size \in Nat /\ call[p].recordedAt \in Nat
        /\ nextCursor' \in Nat
    <3>1. call[p].at = "put" /\ nextCursor' = nextCursor + 1
      BY <1>6 DEF Put
    <3> QED BY <1>0, <1>6, <3>1 DEF Put, InPersist, MemoryInv
  <2>2. entry \in Entries
    BY <1>0, <2>1 DEF Entries
  <2>3. entry = [id |-> call[p].id, size |-> call[p].size,
                 recordedAt |-> call[p].recordedAt, cursor |-> nextCursor + 1]
    OBVIOUS
  <2> HIDE DEF entry
  <2>a. PICK k \in 0..Len(memory.order) :
          \E replaced :
          \E e \in 0..Len(replaced.order) :
            /\ replaced = Replace(DropOldest(memory, k), entry)
            /\ memory' = DropOldest(replaced, e)
            /\ entry.id \notin {replaced.order[i] : i \in 1..e}
            /\ IssueBatch(p, DeleteRecords(memory, k) \o DeleteRecords(replaced, e)
                               \o <<PutRecord(entry)>>)
    BY <1>0, <1>6, <2>1, <2>3, PutIssues DEF Sound
  <2>4. PICK replaced :
          \E e \in 0..Len(replaced.order) :
            /\ replaced = Replace(DropOldest(memory, k), entry)
            /\ memory' = DropOldest(replaced, e)
            /\ entry.id \notin {replaced.order[i] : i \in 1..e}
            /\ IssueBatch(p, DeleteRecords(memory, k) \o DeleteRecords(replaced, e)
                               \o <<PutRecord(entry)>>)
    BY <2>a
  <2>5. PICK e \in 0..Len(replaced.order) :
            /\ replaced = Replace(DropOldest(memory, k), entry)
            /\ memory' = DropOldest(replaced, e)
            /\ entry.id \notin {replaced.order[i] : i \in 1..e}
            /\ IssueBatch(p, DeleteRecords(memory, k) \o DeleteRecords(replaced, e)
                               \o <<PutRecord(entry)>>)
    BY <2>4
  <2> DEFINE batch == DeleteRecords(memory, k) \o DeleteRecords(replaced, e)
                        \o <<PutRecord(entry)>>
  <2>6. Sound(DropOldest(memory, k))
    BY <1>0, DropIsSound
  <2>7. Sound(replaced)
    BY <2>2, <2>5, <2>6, ReplaceIsSound
  <2>8. Sound(memory')
    BY <2>5, <2>7, DropIsSound
  <2>9. batch \in Seq(Records)
    <3> DEFINE R == Records
               s == DeleteRecords(memory, k)
               t == DeleteRecords(replaced, e)
               record == PutRecord(entry)
    <3>1. s \in Seq(R) /\ t \in Seq(R)
      BY <1>0, <2>7, DeletesAreTyped DEF Sound
    <3>2. record \in R
      BY <2>2, RecordsAreTyped
    <3> HIDE DEF R, s, t, record
    <3>3. s \o t \o <<record>> \in Seq(R)
      BY <3>1, <3>2
    <3> QED BY <3>3 DEF R, s, t, record
  <2>10. Told(p, batch) /\ CallsTyped'
    <3> DEFINE b == batch
    <3>1. IssueBatch(p, b)
      BY <2>5
    <3> HIDE DEF b
    <3>2. Told(p, b) /\ CallsTyped'
      BY <2>1, <3>1, IssueTells
    <3> QED BY <3>2 DEF b
  <2>11. Changes(batch)
    <3>1. Puts(batch)
      BY <2>2, <2>5, <2>6, <2>7 DEF Puts
    <3> QED BY <3>1 DEF Changes
  <2>12. MemoryInv'
    BY <2>1, <2>8, <2>10 DEF MemoryInv, CallsTyped
  <2> HIDE DEF batch
  <2> QED BY <2>9, <2>10, <2>11, <2>12
<1>7. CASE Clear(p)
  <2> DEFINE batch == <<ClearRecord(nextCursor')>>
  <2>1. /\ ~InPersist(p) /\ UNCHANGED <<storageDone, now>>
        /\ nextCursor' \in Nat /\ memory' = EmptyMemory
        /\ IssueBatch(p, batch)
    BY <1>0, <1>7 DEF Clear, InPersist, Idle
  <2>2. batch \in Seq(Records)
    <3> DEFINE R == Records
               record == ClearRecord(nextCursor')
    <3>1. record \in R
      BY <2>1, RecordsAreTyped
    <3> HIDE DEF R, record
    <3>2. <<record>> \in Seq(R)
      BY <3>1
    <3> QED BY <3>2 DEF R, record
  <2>3. Changes(batch)
    BY <2>1 DEF Changes, Clears
  <2> HIDE DEF batch
  <2>4. Told(p, batch) /\ CallsTyped'
    BY <2>1, IssueTells
  <2>5. MemoryInv'
    BY <2>1, <2>4, EmptyIsSound DEF MemoryInv, CallsTyped
  <2> QED BY <2>2, <2>3, <2>4, <2>5
<1> QED
  BY <1>2, <1>3, <1>4, <1>5, <1>6, <1>7 DEF MemoryStep

\* No other step touches memory.
LEMMA OutsideKeepsMemory ==
    ASSUME MemoryInv, NEW p \in Procs, OnlyMoves(p), call'[p].at # "put",
           UNCHANGED <<memory, nextCursor, now>>
    PROVE  MemoryInv'
BY DEF MemoryInv, OnlyMoves

-----------------------------------------------------------------------------
(* What has been issued and not been written.                              *)

Waits(c, p) == c[p].at \in {"persist", "io", "compact"}

\* Pending and Unwritten as operators of the goroutines and the counters.
BatchIn(c, n) ==
    LET at == {p \in Procs : Waits(c, p) /\ c[p].sequence = n}
    IN  IF at = {} THEN <<>> ELSE c[CHOOSE p \in at : TRUE].records

UnwrittenIn(c, issued, done) ==
    FlattenSeq([i \in 1..(issued - done) |-> BatchIn(c, done + i)])

LEMMA UnwrittenIs ==
    /\ Unwritten = UnwrittenIn(call, storageIssued, storageDone)
    /\ Unwritten' = UnwrittenIn(call', storageIssued', storageDone')
BY Zenon DEF Unwritten, UnwrittenIn, Pending, BatchIn, Waits, InPersist

\* p holds the batch with number n.
HasBatch(c, p, n) == Waits(c, p) /\ c[p].sequence = n

\* The other goroutines stay where they are.
SameBut(c, d, p) == \A q \in Procs \ {p} : d[q] = c[q]

\* A batch stays as it is when another goroutine moves.
LEMMA BatchStays ==
    ASSUME NEW c, NEW d, NEW p, SameBut(c, d, p), NEW n,
           ~HasBatch(c, p, n), ~HasBatch(d, p, n)
    PROVE  BatchIn(d, n) = BatchIn(c, n)
PROOF
<1> DEFINE at(b) == {q \in Procs : Waits(b, q) /\ b[q].sequence = n}
           own == CHOOSE q \in at(c) : TRUE
<1>1. at(d) = at(c) /\ \A q \in at(c) : q \in Procs \ {p}
  BY DEF Waits, HasBatch, SameBut
<1>2. BatchIn(c, n) = IF at(c) = {} THEN <<>> ELSE c[own].records
  BY DEF BatchIn
<1>3. BatchIn(d, n) = IF at(d) = {} THEN <<>> ELSE d[CHOOSE q \in at(d) : TRUE].records
  BY DEF BatchIn
<1>4. at(c) # {} => own \in at(c)
  BY Zenon
<1> HIDE DEF at, own
<1>5. BatchIn(d, n) = IF at(c) = {} THEN <<>> ELSE d[own].records
  BY <1>1, <1>3 DEF own
<1> QED BY <1>1, <1>2, <1>4, <1>5 DEF SameBut

LEMMA BatchOfOwner ==
    ASSUME NEW c, NEW p \in Procs, Waits(c, p),
           \A q \in Procs : Waits(c, q) /\ c[q].sequence = c[p].sequence => q = p
    PROVE  BatchIn(c, c[p].sequence) = c[p].records
PROOF
<1> DEFINE at == {q \in Procs : Waits(c, q) /\ c[q].sequence = c[p].sequence}
<1>1. at = {p}
  OBVIOUS
<1>2. BatchIn(c, c[p].sequence)
        = IF at = {} THEN <<>> ELSE c[CHOOSE q \in at : TRUE].records
  BY DEF BatchIn
<1> HIDE DEF at
<1>3. at # {} /\ (CHOOSE q \in at : TRUE) = p
  BY <1>1
<1> QED BY <1>2, <1>3

LEMMA BatchIsSeq ==
    ASSUME NEW E, NEW c, \A p \in Procs : Waits(c, p) => c[p].records \in Seq(E), NEW n
    PROVE  BatchIn(c, n) \in Seq(E)
PROOF
<1> DEFINE at == {q \in Procs : Waits(c, q) /\ c[q].sequence = n}
           own == CHOOSE q \in at : TRUE
<1>1. BatchIn(c, n) = IF at = {} THEN <<>> ELSE c[own].records
  BY DEF BatchIn
<1>2. at # {} => own \in at
  BY Zenon
<1>3. at # {} => c[own].records \in Seq(E)
  <2> HIDE DEF own
  <2> QED BY <1>2
<1>4. <<>> \in Seq(E)
  OBVIOUS
<1> QED BY <1>1, <1>3, <1>4

\* The batches of an interval of turns, as a sequence of sequences.
BatchesIn(c, issued, done) == [i \in 1..(issued - done) |-> BatchIn(c, done + i)]

AreBatches(s, E, c, issued, done) ==
    /\ s \in Seq(Seq(E)) /\ Len(s) = issued - done
    /\ \A i \in 1..(issued - done) : s[i] = BatchIn(c, done + i)
    /\ UnwrittenIn(c, issued, done) = FlattenSeq(s)

BatchesOver(E, c) == \A p \in Procs : Waits(c, p) => c[p].records \in Seq(E)

LEMMA BatchesAreSeqs ==
    ASSUME NEW E, NEW c, NEW issued \in Nat, NEW done \in Nat, done <= issued,
           BatchesOver(E, c)
    PROVE  AreBatches(BatchesIn(c, issued, done), E, c, issued, done)
PROOF
<1> DEFINE B == Seq(E)
           b == BatchesIn(c, issued, done)
           n == issued - done
<1>1. \A i \in 1..n : BatchIn(c, done + i) \in B
  BY BatchIsSeq DEF BatchesOver
<1>2. n \in Nat
  OBVIOUS
<1>3. b = [i \in 1..n |-> BatchIn(c, done + i)]
  BY DEF BatchesIn
<1>4. UnwrittenIn(c, issued, done) = FlattenSeq(b)
  BY Zenon DEF UnwrittenIn, BatchesIn
<1> HIDE DEF B, b, n
<1>5. b \in Seq(B) /\ Len(b) = n /\ \A i \in 1..n : b[i] = BatchIn(c, done + i)
  BY <1>1, <1>2, <1>3
<1> QED BY <1>4, <1>5 DEF B, b, n, AreBatches

LEMMA UnwrittenGrows ==
    ASSUME NEW E, NEW c, NEW issued \in Nat, NEW done \in Nat, done <= issued,
           BatchesOver(E, c)
    PROVE  /\ UnwrittenIn(c, issued, done) \in Seq(E)
           /\ UnwrittenIn(c, issued + 1, done)
                = UnwrittenIn(c, issued, done) \o BatchIn(c, issued + 1)
PROOF
<1> DEFINE next == issued + 1
           n == issued - done
           s == BatchesIn(c, issued, done)
           t == BatchesIn(c, next, done)
           e == BatchIn(c, next)
           B == Seq(E)
<1>1. next \in Nat /\ done <= next /\ n \in Nat /\ next - done = n + 1
      /\ done + (n + 1) = next
  OBVIOUS
<1>2. /\ s \in Seq(B) /\ Len(s) = n /\ \A i \in 1..n : s[i] = BatchIn(c, done + i)
      /\ UnwrittenIn(c, issued, done) = FlattenSeq(s)
  BY BatchesAreSeqs DEF AreBatches
<1>3. /\ t \in Seq(B) /\ Len(t) = n + 1
      /\ \A i \in 1..(n + 1) : t[i] = BatchIn(c, done + i)
      /\ UnwrittenIn(c, next, done) = FlattenSeq(t)
  <2>1. /\ t \in Seq(B) /\ Len(t) = next - done
        /\ \A i \in 1..(next - done) : t[i] = BatchIn(c, done + i)
        /\ UnwrittenIn(c, next, done) = FlattenSeq(t)
    <3> HIDE DEF next
    <3> QED BY <1>1, BatchesAreSeqs DEF AreBatches
  <2> HIDE DEF next, n, t, B
  <2> QED BY <1>1, <2>1
<1>4. e \in B
  BY BatchIsSeq DEF BatchesOver
<1> HIDE DEF s, t, B, e
<1>5. t = Append(s, e)
  <2>1. /\ Append(s, e) \in Seq(B) /\ Len(Append(s, e)) = n + 1
        /\ \A i \in 1..n : Append(s, e)[i] = s[i]
        /\ Append(s, e)[n + 1] = e
    <3> HIDE DEF n
    <3> QED BY <1>2, <1>4, AppendProperties
  <2>2. ASSUME NEW i \in 1..(n + 1) PROVE t[i] = Append(s, e)[i]
    <3>1. i \in 1..n \/ i = n + 1
      BY <1>1
    <3>2. CASE i \in 1..n
      <4> HIDE DEF n
      <4> QED BY <1>2, <1>3, <2>1, <3>2
    <3>3. CASE i = n + 1
      <4>1. t[i] = BatchIn(c, next)
        <5>1. done + i = next
          BY <3>3
        <5> HIDE DEF next, n
        <5> QED BY <1>3, <2>2, <5>1
      <4>2. t[i] = e
        BY <4>1 DEF e
      <4> HIDE DEF n
      <4> QED BY <2>1, <3>3, <4>2
    <3> QED BY <3>1, <3>2, <3>3
  <2> HIDE DEF n
  <2> QED BY <1>3, <2>1, <2>2, SeqEqual
<1>6. FlattenSeq(s) \in Seq(E) /\ FlattenSeq(Append(s, e)) = FlattenSeq(s) \o e
  <2>1. s \in Seq(Seq(E)) /\ e \in Seq(E)
    BY <1>2, <1>4 DEF B
  <2> QED BY <2>1, Flattened
<1> QED BY <1>2, <1>3, <1>5, <1>6 DEF e

LEMMA UnwrittenStarts ==
    ASSUME NEW E, NEW c, NEW issued \in Nat, NEW done \in Nat, done < issued,
           BatchesOver(E, c)
    PROVE  UnwrittenIn(c, issued, done)
             = BatchIn(c, done + 1) \o UnwrittenIn(c, issued, done + 1)
PROOF
<1> DEFINE next == done + 1
           n == issued - done
           k == issued - next
           s == BatchesIn(c, issued, done)
           t == BatchesIn(c, issued, next)
           e == BatchIn(c, next)
           B == Seq(E)
<1>1. next \in Nat /\ next <= issued /\ n \in Nat /\ k \in Nat /\ n = k + 1 /\ done <= issued
  OBVIOUS
<1>2. /\ s \in Seq(B) /\ Len(s) = n /\ \A i \in 1..n : s[i] = BatchIn(c, done + i)
      /\ UnwrittenIn(c, issued, done) = FlattenSeq(s)
  BY <1>1, BatchesAreSeqs DEF AreBatches
<1>3. /\ t \in Seq(B) /\ Len(t) = k
      /\ \A i \in 1..k : t[i] = BatchIn(c, next + i)
      /\ UnwrittenIn(c, issued, next) = FlattenSeq(t)
  <2> HIDE DEF next
  <2> QED BY <1>1, BatchesAreSeqs DEF AreBatches
<1>4. e \in B
  BY BatchIsSeq DEF BatchesOver
<1>5. s[1] = e /\ \A i \in 1..k : s[i + 1] = t[i]
  <2>1. 1 \in 1..n
    BY <1>1
  <2>2. s[1] = BatchIn(c, done + 1)
    <3> HIDE DEF s, n
    <3> QED BY <1>2, <2>1
  <2>3. ASSUME NEW i \in 1..k PROVE s[i + 1] = t[i]
    <3> DEFINE j == i + 1
    <3>1. j \in 1..n /\ done + j = next + i
      BY <1>1
    <3> HIDE DEF s, t, n, k, j, next
    <3>2. s[j] = BatchIn(c, done + j) /\ t[i] = BatchIn(c, next + i)
      BY <1>2, <1>3, <3>1
    <3>3. s[j] = t[i]
      BY <3>1, <3>2
    <3> QED BY <3>3 DEF j
  <2> QED BY <2>2, <2>3
<1> HIDE DEF s, t, B, e, n, k
<1> DEFINE one == <<e>>
           u == one \o t
<1>6. one \in Seq(B) /\ Len(one) = 1 /\ one[1] = e
  BY <1>4
<1> HIDE DEF one
<1>7. /\ u \in Seq(B) /\ Len(u) = n /\ u[1] = e /\ \A i \in 1..k : u[i + 1] = t[i]
  <2>1. u \in Seq(B) /\ Len(u) = Len(one) + Len(t)
        /\ \A i \in 1..(Len(one) + Len(t)) :
             u[i] = IF i <= Len(one) THEN one[i] ELSE t[i - Len(one)]
    BY <1>3, <1>6, ConcatProperties
  <2> HIDE DEF u
  <2>2. /\ Len(u) = n
        /\ \A i \in 1..n : u[i] = IF i <= 1 THEN one[i] ELSE t[i - 1]
    BY <1>1, <1>3, <1>6, <2>1
  <2>3. u[1] = e
    BY <1>1, <1>6, <2>2
  <2>4. ASSUME NEW i \in 1..k PROVE u[i + 1] = t[i]
    <3> DEFINE j == i + 1
    <3>1. j \in 1..n /\ ~(j <= 1) /\ j - 1 = i
      BY <1>1
    <3> HIDE DEF j
    <3>2. u[j] = t[i]
      BY <2>2, <3>1
    <3> QED BY <3>2 DEF j
  <2> QED BY <2>1, <2>2, <2>3, <2>4
<1> HIDE DEF u
<1>8. s = u
  <2>1. ASSUME NEW i \in 1..n PROVE s[i] = u[i]
    <3>1. CASE i = 1
      BY <1>5, <1>7, <3>1
    <3>2. CASE i # 1
      <4> DEFINE j == i - 1
      <4>1. j \in 1..k /\ j + 1 = i
        BY <1>1, <3>2
      <4> HIDE DEF j
      <4>2. s[j + 1] = u[j + 1]
        BY <1>5, <1>7, <4>1
      <4> QED BY <4>1, <4>2
    <3> QED BY <3>1, <3>2
  <2> QED BY <1>2, <1>7, <2>1, SeqEqual
<1>9. FlattenSeq(u) = e \o FlattenSeq(t)
  <2>1. t \in Seq(Seq(E)) /\ e \in Seq(E)
    BY <1>3, <1>4 DEF B
  <2>2. FlattenSeq(<<e>> \o t) = e \o FlattenSeq(t)
    BY <2>1, Flattened
  <2> QED BY <2>2 DEF u, one
<1> QED BY <1>2, <1>3, <1>8, <1>9 DEF e

LEMMA UnwrittenStays ==
    ASSUME NEW c, NEW d, NEW issued, NEW done,
           \A i \in 1..(issued - done) : BatchIn(d, done + i) = BatchIn(c, done + i)
    PROVE  UnwrittenIn(d, issued, done) = UnwrittenIn(c, issued, done)
PROOF
<1>1. [i \in 1..(issued - done) |-> BatchIn(d, done + i)]
        = [i \in 1..(issued - done) |-> BatchIn(c, done + i)]
  BY Zenon
<1> QED BY <1>1, Zenon DEF UnwrittenIn

-----------------------------------------------------------------------------
(* The kinds of steps, by what they do to the records not written.         *)

BatchesOf(E) == \A p \in Procs : InPersist(p) => call[p].records \in Seq(E)

LEMMA BatchesAre ==
    /\ \A p \in Procs : /\ Waits(call, p) <=> InPersist(p)
                        /\ Waits(call', p) <=> InPersist(p)'
    /\ \A E : BatchesOf(E) <=> BatchesOver(E, call)
    /\ \A E : BatchesOf(E)' <=> BatchesOver(E, call')
BY DEF Waits, InPersist, BatchesOf, BatchesOver

\* Another goroutine moves.
LEMMA BatchesMove ==
    ASSUME NEW E, BatchesOf(E), NEW p \in Procs, OnlyMoves(p),
           InPersist(p)' => call'[p].records \in Seq(E)
    PROVE  BatchesOf(E)'
BY DEF BatchesOf, OnlyMoves, InPersist

LEMMA UnwrittenIsSeq ==
    ASSUME NEW E, TurnsInv, BatchesOf(E)
    PROVE  Unwritten \in Seq(E)
PROOF
<1>1. BatchesOver(E, call)
  BY BatchesAre
<1>2. storageIssued \in Nat /\ storageDone \in Nat /\ storageDone <= storageIssued
  BY DEF TurnsInv
<1>3. UnwrittenIn(call, storageIssued, storageDone) \in Seq(E)
  BY <1>1, <1>2, UnwrittenGrows
<1> QED BY <1>3, UnwrittenIs

LEMMA UnwrittenTakes ==
    ASSUME NEW E, TurnsInv, TurnsInv', BatchesOf(E), NEW p \in Procs, TakesNumber(p),
           call'[p].records \in Seq(E)
    PROVE  Unwritten' = Unwritten \o call'[p].records
PROOF
<1> DEFINE i == storageIssued
           d == storageDone
           next == i + 1
<1>0. i \in Nat /\ d \in Nat /\ d <= i
  BY DEF TurnsInv
<1>1. i \in Nat /\ d \in Nat /\ d <= i /\ next = storageIssued' /\ d = storageDone'
  BY DEF TurnsInv, TakesNumber
<1>2. /\ ~InPersist(p) /\ InPersist(p)' /\ call'[p].sequence = next
      /\ OnlyMoves(p)
  BY DEF TakesNumber, InPersist, Turn
<1>3. BatchesOver(E, call')
  BY <1>2, BatchesMove, BatchesAre
<1>4. UnwrittenIn(call', next, d) = UnwrittenIn(call', i, d) \o BatchIn(call', next)
  BY <1>1, <1>3, UnwrittenGrows
<1>5. BatchIn(call', next) = call'[p].records
  <2>1. \A q \in Procs : Waits(call', q) /\ call'[q].sequence = call'[p].sequence => q = p
    BY <1>2, BatchesAre DEF TurnsInv, Turn
  <2>2. Waits(call', p)
    BY <1>2, BatchesAre
  <2>3. BatchIn(call', call'[p].sequence) = call'[p].records
    BY <2>1, <2>2, BatchOfOwner
  <2> HIDE DEF next
  <2> QED BY <1>2, <2>3
<1>6. UnwrittenIn(call', i, d) = UnwrittenIn(call, i, d)
  <2>1. ASSUME NEW k \in 1..(i - d) PROVE BatchIn(call', d + k) = BatchIn(call, d + k)
    <3> DEFINE n == d + k
    <3>1. n # next
      <4> HIDE DEF i, d
      <4> QED BY <1>0
    <3>2. ~HasBatch(call, p, n) /\ ~HasBatch(call', p, n)
      <4>1. ~Waits(call, p)
        BY <1>2, BatchesAre
      <4> HIDE DEF n, next
      <4> QED BY <1>2, <3>1, <4>1 DEF HasBatch
    <3>3. SameBut(call, call', p)
      BY <1>2 DEF OnlyMoves, SameBut
    <3> HIDE DEF n
    <3>4. BatchIn(call', n) = BatchIn(call, n)
      BY <3>2, <3>3, BatchStays
    <3> QED BY <3>4 DEF n
  <2> HIDE DEF i, d
  <2> QED BY <2>1, UnwrittenStays
<1> QED BY <1>1, <1>4, <1>5, <1>6, UnwrittenIs

LEMMA UnwrittenWrites ==
    ASSUME NEW E, TurnsInv, TurnsInv', BatchesOf(E), NEW p \in Procs, WritesInTurn(p),
           call'[p].records \in Seq(E)
    PROVE  \E rest \in Seq(E) : /\ Unwritten = call[p].records \o rest
                                /\ Unwritten' = call'[p].records \o rest
PROOF
<1> DEFINE i == storageIssued
           d == storageDone
           next == d + 1
           rest == UnwrittenIn(call, i, next)
<1>0. i = storageIssued' /\ d = storageDone'
  BY DEF WritesInTurn
<1>1. i \in Nat /\ d \in Nat /\ next \in Nat /\ d < i /\ next <= i
  BY DEF TurnsInv, WritesInTurn
<1>2. /\ InPersist(p) /\ InPersist(p)' /\ OnlyMoves(p)
      /\ call[p].sequence = next /\ call'[p].sequence = next
  BY DEF WritesInTurn, Turn
<1>3. BatchesOver(E, call) /\ BatchesOver(E, call')
  BY <1>2, BatchesMove, BatchesAre
<1> HIDE DEF i, d
<1>4. UnwrittenIn(call, i, d) = BatchIn(call, next) \o rest
  BY <1>1, <1>3, UnwrittenStarts
<1>5. UnwrittenIn(call', i, d) = BatchIn(call', next) \o UnwrittenIn(call', i, next)
  BY <1>1, <1>3, UnwrittenStarts
<1>6. BatchIn(call, next) = call[p].records /\ BatchIn(call', next) = call'[p].records
  <2>1. /\ \A q \in Procs : Waits(call, q) /\ call[q].sequence = call[p].sequence => q = p
        /\ \A q \in Procs : Waits(call', q) /\ call'[q].sequence = call'[p].sequence => q = p
    BY <1>2, BatchesAre DEF TurnsInv, Turn
  <2>2. Waits(call, p) /\ Waits(call', p)
    BY <1>2, BatchesAre
  <2>3. BatchIn(call, call[p].sequence) = call[p].records
    BY <2>1, <2>2, BatchOfOwner
  <2>4. BatchIn(call', call'[p].sequence) = call'[p].records
    BY <2>1, <2>2, BatchOfOwner
  <2> HIDE DEF next
  <2> QED BY <1>2, <2>3, <2>4
<1>7. UnwrittenIn(call', i, next) = rest
  <2>1. ASSUME NEW k \in 1..(i - next) PROVE BatchIn(call', next + k) = BatchIn(call, next + k)
    <3> DEFINE n == next + k
    <3>1. n # next
      BY <1>1
    <3>2. ~HasBatch(call, p, n) /\ ~HasBatch(call', p, n)
      <4> HIDE DEF n, next
      <4> QED BY <1>2, <3>1 DEF HasBatch
    <3>3. SameBut(call, call', p)
      BY <1>2 DEF OnlyMoves, SameBut
    <3> HIDE DEF n
    <3>4. BatchIn(call', n) = BatchIn(call, n)
      BY <3>2, <3>3, BatchStays
    <3> QED BY <3>4 DEF n
  <2> HIDE DEF next
  <2> QED BY <2>1, UnwrittenStays
<1>8. rest \in Seq(E)
  <2> HIDE DEF next
  <2> QED BY <1>1, <1>3, UnwrittenGrows
<1>9. /\ Unwritten = UnwrittenIn(call, i, d)
      /\ Unwritten' = UnwrittenIn(call', i, d)
  BY <1>0, UnwrittenIs DEF i, d
<1> HIDE DEF rest
<1> QED BY <1>4, <1>5, <1>6, <1>7, <1>8, <1>9

LEMMA UnwrittenPasses ==
    ASSUME NEW E, TurnsInv, BatchesOf(E), NEW p \in Procs, PassesTurn(p),
           call[p].records = <<>>
    PROVE  Unwritten' = Unwritten
PROOF
<1> DEFINE i == storageIssued
           d == storageDone
           next == d + 1
           rest == UnwrittenIn(call, i, next)
<1>1. /\ InPersist(p) /\ ~InPersist(p)' /\ OnlyMoves(p)
      /\ call[p].sequence = next /\ storageDone' = next /\ storageIssued' = i
  BY DEF PassesTurn, InPersist, HoldsStorageMu, TurnsInv, Turn
<1>2. i \in Nat /\ d \in Nat /\ next \in Nat /\ d < i /\ next <= i
  BY <1>1 DEF TurnsInv, Turn
<1>3. BatchesOver(E, call)
  BY BatchesAre
<1>4. storageIssued' = i /\ storageDone' = next
  BY <1>1
<1> HIDE DEF i, d
<1>5. UnwrittenIn(call, i, d) = BatchIn(call, next) \o rest
  BY <1>2, <1>3, UnwrittenStarts
<1>6. BatchIn(call, next) = <<>>
  <2>1. \A q \in Procs : Waits(call, q) /\ call[q].sequence = call[p].sequence => q = p
    BY <1>1, BatchesAre DEF TurnsInv, Turn
  <2>2. Waits(call, p)
    BY <1>1, BatchesAre
  <2>3. BatchIn(call, call[p].sequence) = call[p].records
    BY <2>1, <2>2, BatchOfOwner
  <2> HIDE DEF next
  <2> QED BY <1>1, <2>3
<1>7. UnwrittenIn(call', i, next) = rest
  <2>1. ASSUME NEW k \in 1..(i - next) PROVE BatchIn(call', next + k) = BatchIn(call, next + k)
    <3> DEFINE n == next + k
    <3>1. n # next
      BY <1>2
    <3>2. ~HasBatch(call, p, n) /\ ~HasBatch(call', p, n)
      <4>1. ~Waits(call', p)
        BY <1>1, BatchesAre
      <4> HIDE DEF n, next
      <4> QED BY <1>1, <3>1, <4>1 DEF HasBatch
    <3>3. SameBut(call, call', p)
      BY <1>1 DEF OnlyMoves, SameBut
    <3> HIDE DEF n
    <3>4. BatchIn(call', n) = BatchIn(call, n)
      BY <3>2, <3>3, BatchStays
    <3> QED BY <3>4 DEF n
  <2> HIDE DEF next
  <2> QED BY <2>1, UnwrittenStays
<1>8. rest \in Seq(E)
  <2> HIDE DEF next
  <2> QED BY <1>2, <1>3, UnwrittenGrows
<1>9. Unwritten = UnwrittenIn(call, i, d) /\ Unwritten' = UnwrittenIn(call', i, next)
  <2>1. Unwritten = UnwrittenIn(call, i, d)
    BY UnwrittenIs DEF i, d
  <2>2. Unwritten' = UnwrittenIn(call', i, next)
    <3> HIDE DEF next
    <3> QED BY <1>4, UnwrittenIs
  <2> QED BY <2>1, <2>2
<1> HIDE DEF rest
<1>10. <<>> \o rest = rest
  BY <1>8, ConcatEmptySeq
<1> QED BY <1>5, <1>6, <1>7, <1>9, <1>10

LEMMA UnwrittenOutside ==
    ASSUME NEW p \in Procs, StaysOutside(p)
    PROVE  Unwritten' = Unwritten
PROOF
<1> DEFINE i == storageIssued
           d == storageDone
<1>1. /\ ~Waits(call, p) /\ ~Waits(call', p)
      /\ \A q \in Procs \ {p} : call'[q] = call[q]
      /\ storageIssued' = i /\ storageDone' = d
  BY BatchesAre DEF StaysOutside, OnlyMoves
<1>2. \A n : BatchIn(call', n) = BatchIn(call, n)
  <2> SUFFICES ASSUME NEW n PROVE BatchIn(call', n) = BatchIn(call, n)
    OBVIOUS
  <2>1. ~HasBatch(call, p, n) /\ ~HasBatch(call', p, n)
    BY <1>1 DEF HasBatch
  <2>2. SameBut(call, call', p)
    BY <1>1 DEF SameBut
  <2> QED BY <2>1, <2>2, BatchStays
<1>3. UnwrittenIn(call', i, d) = UnwrittenIn(call, i, d)
  <2> HIDE DEF i, d
  <2> QED BY <1>2, UnwrittenStays
<1> QED BY <1>1, <1>3, UnwrittenIs

LEMMA UnwrittenUnchanged ==
    ASSUME UNCHANGED <<call, storageIssued, storageDone>>
    PROVE  Unwritten' = Unwritten
BY UnwrittenIs

LEMMA NoBatches ==
    ASSUME NEW c, NEW n \in Nat
    PROVE  UnwrittenIn(c, n, n) = <<>>
PROOF
<1> DEFINE s == [i \in 1..(n - n) |-> BatchIn(c, n + i)]
<1>1. s = <<>>
  OBVIOUS
<1>2. <<>> \in Seq(Seq({0}))
  OBVIOUS
<1>3. FlattenSeq(<<>>) = <<>>
  BY <1>2, Flattened
<1>4. UnwrittenIn(c, n, n) = FlattenSeq(s)
  BY DEF UnwrittenIn
<1> HIDE DEF s
<1> QED BY <1>1, <1>3, <1>4

LEMMA UnwrittenAtStart ==
    /\ storageIssued = 0 /\ storageDone = 0 => Unwritten = <<>>
    /\ storageIssued' = 0 /\ storageDone' = 0 => Unwritten' = <<>>
PROOF
<1>1. \A c : UnwrittenIn(c, 0, 0) = <<>>
  BY NoBatches
<1>2. UnwrittenIn(call, 0, 0) = <<>> /\ UnwrittenIn(call', 0, 0) = <<>>
  BY <1>1
<1> QED BY <1>2, UnwrittenIs

\* Once every call has returned nothing is left to be written.
LEMMA NothingLeft ==
    ASSUME TurnsInv, CallsReturned
    PROVE  Unwritten = <<>>
PROOF
<1>1. \A p \in Procs : ~InPersist(p)
  BY DEF CallsReturned, InPersist
<1>2. storageIssued \in Nat /\ storageDone = storageIssued
  BY <1>1 DEF TurnsInv
<1>3. UnwrittenIn(call, storageIssued, storageIssued) = <<>>
  BY <1>2, NoBatches
<1> QED BY <1>2, <1>3, UnwrittenIs

-----------------------------------------------------------------------------
(* Errors on their way to storageError.                                    *)

\* p has an error that it has not reported.
HasError(p) == (HoldsStorageMu(p) /\ call[p].failed) \/ call[p].at = "report"

Clean == ~storageError /\ \A p \in Procs : ~HasError(p)

\* While nothing has gone wrong a store that is not closed has its storage.
OpenInv ==
    /\ \A p \in Procs : call[p].at = "closing" => isClosed
    /\ Clean /\ ~isClosed => handle

LEMMA BatchMoves ==
    ASSUME DOMAIN call = Procs, NEW p \in Procs, NEW records, IssueBatch(p, records)
    PROVE  OnlyMoves(p) /\ call'[p].at \in {"persist", "idle"}
BY DEF IssueBatch, OnlyMoves, Idle

\* Under mu nothing goes wrong, and nothing is forgotten.
LEMMA MemoryStepSpares ==
    ASSUME DOMAIN call = Procs, NEW p \in Procs, MemoryStep(p)
    PROVE  /\ OnlyMoves(p) /\ ~HasError(p) /\ ~HasError(p)'
           /\ handle' = handle /\ (isClosed => isClosed')
           /\ call'[p].at = "closing" => isClosed'
           /\ call'[p].at # "compact"
PROOF
<1> DEFINE at == call[p].at
           next == call'[p].at
           Goal == /\ OnlyMoves(p)
                   /\ at \notin {"io", "compact", "report"}
                   /\ next \notin {"io", "compact", "report"}
                   /\ handle' = handle /\ (isClosed => isClosed')
                   /\ next = "closing" => isClosed'
<1>1. ASSUME NEW id \in Ids, NEW size \in Sizes, BeginRecord(p, id, size) PROVE Goal
  BY <1>1 DEF BeginRecord, OnlyMoves, Idle, storageVars
<1>2. ASSUME PutAfterClose(p) PROVE Goal
  BY <1>2 DEF PutAfterClose, OnlyMoves, Idle, storageVars
<1>3. ASSUME Close(p) PROVE Goal
  BY <1>3 DEF Close, OnlyMoves, Idle, storageVars
<1>4. ASSUME PutTooLarge(p) \/ Put(p) \/ Read(p) \/ Clear(p) PROVE Goal
  <2>1. at \notin {"io", "compact", "report"} /\ handle' = handle /\ isClosed' = isClosed
    BY <1>4 DEF PutTooLarge, Put, Read, Clear, Idle
  <2>2. \E records : IssueBatch(p, records)
    <3>1. CASE PutTooLarge(p) \/ Read(p)
      BY <3>1 DEF PutTooLarge, Read
    <3>2. CASE Put(p)
      BY <3>2 DEF Put
    <3>3. CASE Clear(p)
      BY <3>3 DEF Clear
    <3> QED BY <1>4, <3>1, <3>2, <3>3
  <2>3. OnlyMoves(p) /\ next \in {"persist", "idle"}
    BY <2>2, BatchMoves
  <2> QED BY <2>1, <2>3
<1>5. Goal
  <2> HIDE DEF Goal
  <2> QED BY <1>1, <1>2, <1>3, <1>4 DEF MemoryStep
<1> QED BY <1>5 DEF HasError, HoldsStorageMu

\* Nobody else's errors change.
LEMMA ErrorsOfOthers ==
    ASSUME NEW p \in Procs, OnlyMoves(p)
    PROVE  /\ \A q \in Procs \ {p} : HasError(q)' <=> HasError(q)
           /\ \A q \in Procs \ {p} : call'[q].at = call[q].at
BY DEF OnlyMoves, HasError, HoldsStorageMu

LEMMA MemoryStepKeepsOpen ==
    ASSUME DOMAIN call = Procs, OpenInv, NEW p \in Procs, MemoryStep(p),
           UNCHANGED storageError
    PROVE  OpenInv' /\ (Clean' <=> Clean)
PROOF
<1>1. /\ OnlyMoves(p) /\ ~HasError(p) /\ ~HasError(p)'
      /\ handle' = handle /\ (isClosed => isClosed')
      /\ call'[p].at = "closing" => isClosed'
  BY MemoryStepSpares
<1>2. /\ \A q \in Procs \ {p} : HasError(q)' <=> HasError(q)
      /\ \A q \in Procs \ {p} : call'[q].at = call[q].at
  BY <1>1, ErrorsOfOthers
<1>3. Clean' <=> Clean
  BY <1>1, <1>2 DEF Clean
<1> QED BY <1>1, <1>2, <1>3 DEF OpenInv

\* A goroutine that goes on keeps its errors, until it has reported them.
LEMMA GoingOnKeepsOpen ==
    ASSUME OpenInv, NEW p \in Procs, OnlyMoves(p), call'[p].at # "closing",
           UNCHANGED isClosed, storageError => storageError',
           HasError(p) => HasError(p)' \/ storageError',
           handle' = handle \/ isClosed \/ HasError(p)'
    PROVE  OpenInv' /\ (Clean' => Clean)
PROOF
<1>1. /\ \A q \in Procs \ {p} : HasError(q)' <=> HasError(q)
      /\ \A q \in Procs \ {p} : call'[q].at = call[q].at
  BY ErrorsOfOthers
<1>2. Clean' => Clean
  BY <1>1 DEF Clean
<1>3. Clean' => ~HasError(p)'
  BY DEF Clean
<1>4. Clean' /\ ~isClosed' => handle'
  BY <1>2, <1>3 DEF OpenInv
<1>5. \A q \in Procs : call'[q].at = "closing" => isClosed'
  BY <1>1 DEF OpenInv
<1> QED BY <1>2, <1>4, <1>5 DEF OpenInv

LEMMA StaysClean ==
    ASSUME Clean, NEW p \in Procs, OnlyMoves(p), ~HasError(p)', UNCHANGED storageError
    PROVE  Clean'
BY ErrorsOfOthers DEF Clean

\* The end of persist, the report of its error, and the end of close.
LEMMA LeavingTells ==
    ASSUME DOMAIN call = Procs, OpenInv, NEW p \in Procs,
           FinishPersist(p) \/ ReportError(p) \/ \E broken : CloseStorage(p, broken)
    PROVE  OpenInv' /\ (Clean' => Clean)
PROOF
<1>1. CASE FinishPersist(p)
  <2>1. /\ OnlyMoves(p) /\ UNCHANGED <<isClosed, storageError, handle>>
        /\ call[p].at = "io"
        /\ call'[p] = IF call[p].failed THEN [at |-> "report"] ELSE Idle
    BY <1>1 DEF FinishPersist, OnlyMoves, outsideVars, faultVars
  <2>2. HasError(p) => HasError(p)'
    <3>1. HasError(p) <=> call[p].failed
      BY <2>1 DEF HasError, HoldsStorageMu
    <3>2. call[p].failed => call'[p].at = "report"
      BY <2>1
    <3> QED BY <3>1, <3>2 DEF HasError
  <2>3. call'[p].at # "closing"
    BY <2>1 DEF Idle
  <2> QED BY <2>1, <2>2, <2>3, GoingOnKeepsOpen
<1>2. CASE ReportError(p)
  <2>1. /\ OnlyMoves(p) /\ UNCHANGED <<isClosed, handle>> /\ storageError'
        /\ call'[p].at # "closing"
    BY <1>2 DEF ReportError, OnlyMoves, outsideVars, Idle
  <2> QED BY <2>1, GoingOnKeepsOpen
<1>3. ASSUME NEW broken, CloseStorage(p, broken)
      PROVE  OpenInv' /\ (Clean' => Clean)
  <2>1. /\ OnlyMoves(p) /\ UNCHANGED <<isClosed, storageError>>
        /\ call[p].at = "closing" /\ call'[p].at # "closing"
    BY <1>3 DEF CloseStorage, OnlyMoves, outsideVars, Idle
  <2>2. isClosed /\ ~HasError(p)
    BY <2>1 DEF OpenInv, HasError, HoldsStorageMu
  <2> QED BY <2>1, <2>2, GoingOnKeepsOpen
<1> QED BY <1>1, <1>2, <1>3

LEMMA FreshIsOpen ==
    ASSUME FreshProcess
    PROVE  OpenInv' /\ (Clean' <=> ~storageError')
PROOF
<1>1. handle' /\ \A p \in Procs : call'[p] = Idle
  BY DEF FreshProcess
<1>2. \A p \in Procs : call'[p].at = "idle"
  BY <1>1 DEF Idle
<1> QED BY <1>1, <1>2 DEF OpenInv, Clean, HasError, HoldsStorageMu

LEMMA InitIsOpen ==
    ASSUME PersistInit
    PROVE  OpenInv /\ Clean
PROOF
<1>1. ~storageError /\ handle /\ \A p \in Procs : call[p] = Idle
  BY PersistAssumption DEF PersistInit, Init
<1>2. \A p \in Procs : call[p].at = "idle"
  BY <1>1 DEF Idle
<1> QED BY <1>1, <1>2 DEF OpenInv, Clean, HasError, HoldsStorageMu

LEMMA UnchangedIsOpen ==
    ASSUME OpenInv, UNCHANGED <<call, isClosed, handle, storageError>>
    PROVE  OpenInv' /\ (Clean' <=> Clean)
BY DEF OpenInv, Clean, HasError, HoldsStorageMu

\* What the start has loaded, without what it trims.
LEMMA InitMemory ==
    ASSUME PersistInit
    PROVE  MemoryInv /\ memory = EmptyMemory
PROOF
<1>1. /\ memory = EmptyMemory /\ now = 0 /\ nextCursor = 0
      /\ \A p \in Procs : call[p].at # "put"
  BY DEF PersistInit, Init, Idle
<1> QED BY <1>1, EmptyIsSound DEF MemoryInv

\* A goroutine leaves persist, or close, and with it the storage.
Left(p, E) ==
    /\ OnlyMoves(p) /\ call'[p].at \notin {"persist", "io", "compact"}
    /\ TurnsInv' /\ MemoryInv' /\ OpenInv' /\ BatchesOf(E)'
    /\ Clean' => Clean
    /\ Unwritten' = Unwritten
    /\ memory' = memory
    /\ handle' => handle
    /\ faults \in Nat => faults' \in Nat /\ (faults' = 0 => faults = 0)

LEMMA LeavingLeft ==
    ASSUME NEW E, TurnsInv, MemoryInv, OpenInv, BatchesOf(E), NEW p \in Procs,
           NEW STATE broken,
           FinishPersist(p) \/ ReportError(p) \/ CloseStorage(p, broken)
    PROVE  Left(p, E)
PROOF
<1>1. DOMAIN call = Procs
  BY DEF TurnsInv
<1>2. OpenInv' /\ (Clean' => Clean)
  BY <1>1, LeavingTells
<1>3. TurnsInv'
  BY FinishPersistKeeps, ReportErrorKeeps, CloseStorageKeeps
<1>4. OnlyMoves(p) /\ call'[p].at \in {"idle", "report"}
  <2>1. CASE FinishPersist(p)
    BY <1>1, <2>1 DEF FinishPersist, OnlyMoves, Idle
  <2>2. CASE ReportError(p)
    BY <1>1, <2>2 DEF ReportError, OnlyMoves, Idle
  <2>3. CASE CloseStorage(p, broken)
    BY <1>1, <2>3 DEF CloseStorage, OnlyMoves, Idle
  <2> QED BY <2>1, <2>2, <2>3
<1>5. UNCHANGED <<memory, nextCursor, now, storageIssued>>
  BY DEF FinishPersist, ReportError, CloseStorage, outsideVars, memoryVars
<1>6. MemoryInv'
  BY <1>4, <1>5, OutsideKeepsMemory
<1>7. BatchesOf(E)'
  <2>1. ~InPersist(p)'
    BY <1>4 DEF InPersist
  <2> QED BY <1>4, <2>1, BatchesMove
<1>8. Unwritten' = Unwritten
  <2>1. CASE FinishPersist(p)
    <3>1. PassesTurn(p) /\ call[p].records = <<>>
      BY <1>1, <2>1 DEF FinishPersist, PassesTurn, OnlyMoves, HoldsStorageMu, InPersist,
                        Idle, Turn, outsideVars
    <3> QED BY <3>1, UnwrittenPasses
  <2>2. CASE ReportError(p)
    <3>1. StaysOutside(p)
      BY <1>1, <2>2 DEF ReportError, StaysOutside, OnlyMoves, InPersist, Idle, outsideVars
    <3> QED BY <3>1, UnwrittenOutside
  <2>3. CASE CloseStorage(p, broken)
    <3>1. StaysOutside(p)
      BY <1>1, <2>3 DEF CloseStorage, StaysOutside, OnlyMoves, InPersist, Idle, outsideVars
    <3> QED BY <3>1, UnwrittenOutside
  <2> QED BY <2>1, <2>2, <2>3
<1>9. handle' => handle
  <2>1. CASE FinishPersist(p) \/ ReportError(p)
    <3>1. handle' = handle
      BY <2>1 DEF FinishPersist, ReportError
    <3> QED BY <3>1
  <2>2. CASE CloseStorage(p, broken)
    BY <2>2 DEF CloseStorage
  <2> QED BY <2>1, <2>2
<1>10. faults \in Nat => faults' \in Nat /\ (faults' = 0 => faults = 0)
  <2>1. faults' = faults \/ faults' = faults + 1
    BY DEF FinishPersist, ReportError, CloseStorage, Fault, faultVars
  <2> QED BY <2>1
<1> QED BY <1>2, <1>3, <1>4, <1>5, <1>6, <1>7, <1>8, <1>9, <1>10 DEF Left

\* Leaving without a failure adds no error.
LEMMA LeavingStaysClean ==
    ASSUME DOMAIN call = Procs, NEW p \in Procs, NEW STATE broken, Clean,
           FinishPersist(p) \/ ReportError(p) \/ CloseStorage(p, broken),
           faults \in Nat, faults' = 0, ~(handle /\ broken)
    PROVE  Clean'
PROOF
<1>1. CASE FinishPersist(p)
  <2>1. OnlyMoves(p) /\ UNCHANGED storageError
    BY <1>1 DEF FinishPersist, OnlyMoves, faultVars
  <2>2. call[p].at = "io" /\ call'[p] = IF call[p].failed THEN [at |-> "report"] ELSE Idle
    BY <1>1 DEF FinishPersist
  <2>3. ~call[p].failed
    BY <2>2 DEF Clean, HasError, HoldsStorageMu
  <2>4. call'[p].at = "idle"
    BY <2>2, <2>3 DEF Idle
  <2>5. ~HasError(p)'
    BY <2>4 DEF HasError, HoldsStorageMu
  <2> QED BY <2>1, <2>5, StaysClean
<1>2. CASE ReportError(p)
  BY <1>2 DEF ReportError, Clean, HasError
<1>3. CASE CloseStorage(p, broken)
  <2>1. OnlyMoves(p) /\ UNCHANGED storageError
    BY <1>3 DEF CloseStorage, OnlyMoves, Idle
  <2>2. faults' # faults + 1
    OBVIOUS
  <2>3. call'[p] = Idle
    BY <1>3, <2>2 DEF CloseStorage, Fault
  <2>4. ~HasError(p)'
    BY <2>3 DEF HasError, HoldsStorageMu, Idle
  <2> QED BY <2>1, <2>4, StaysClean
<1> QED BY <1>1, <1>2, <1>3

\* The least number of a set, and the greatest of a bounded one.
LEMMA LeastExists ==
    ASSUME NEW S, S \subseteq Nat, S # {}
    PROVE  \E x \in S : \A y \in S : x <= y
PROOF
<1>1. \E x \in S : \A y \in S : ~ (<<y, x>> \in OpToRel(<, Nat))
  BY WFMin, NatLessThanWellFounded
<1>2. PICK x \in S : \A y \in S : ~ (<<y, x>> \in OpToRel(<, Nat))
  BY <1>1
<1>3. \A y \in S : ~(y < x)
  BY <1>2 DEF OpToRel
<1>4. \A y \in S : x <= y
  BY <1>3
<1> QED BY <1>4

LEMMA GreatestExists ==
    ASSUME NEW S, S \subseteq Nat, S # {}, NEW b \in Nat, \A x \in S : x <= b
    PROVE  Max(S) \in S /\ \A y \in S : Max(S) >= y
PROOF
<1> DEFINE bounds == {u \in Nat : \A x \in S : x <= u}
<1>1. bounds \subseteq Nat /\ bounds # {}
  OBVIOUS
<1> HIDE DEF bounds
<1>2. PICK u \in bounds : \A v \in bounds : u <= v
  BY <1>1, LeastExists
<1>3. u \in Nat /\ \A x \in S : x <= u
  BY DEF bounds
<1>4. u \in S
  <2> SUFFICES ASSUME u \notin S PROVE FALSE
    OBVIOUS
  <2> DEFINE v == u - 1
  <2>a. PICK x \in S : TRUE
    OBVIOUS
  <2>b. \A y \in S : y \in Nat /\ y <= u /\ y # u
    BY <1>3
  <2>c. u \in Nat /\ x \in Nat /\ x <= u /\ x # u
    BY <1>3, <2>b
  <2>d. v \in Nat /\ v < u
    BY <2>c
  <2>e. \A y \in S : y <= v
    <3> SUFFICES ASSUME NEW y \in S PROVE y <= v
      OBVIOUS
    <3>1. y \in Nat /\ y <= u /\ y # u
      BY <2>b
    <3> QED BY <2>c, <3>1
  <2>1. v \in Nat /\ v < u /\ \A y \in S : y <= v
    BY <2>d, <2>e
  <2> HIDE DEF v
  <2>2. v \in bounds
    BY <2>1 DEF bounds
  <2> QED BY <1>2, <1>3, <2>1, <2>2
<1>5. \A y \in S : u >= y
  BY <1>3
<1>6. \E x \in S : \A y \in S : x >= y
  BY <1>4, <1>5
<1> QED BY <1>6, Zenon DEF Max

\* p, with storageMu, goes on with what is left of its batch.
GoesOn(p, left, failed, E) ==
    /\ TurnsInv' /\ MemoryInv' /\ BatchesOf(E)'
    /\ OnlyMoves(p) /\ WritesInTurn(p)
    /\ call'[p].at = "io" /\ call'[p].records = left
    /\ HasError(p)' <=> failed \/ HasError(p)
    /\ \A q \in Procs : call'[q].at # "compact"
    /\ \E rest \in Seq(E) : /\ Unwritten = call[p].records \o rest
                               /\ Unwritten' = left \o rest

LEMMA WriterGoesOn ==
    ASSUME NEW E, TurnsInv, MemoryInv, BatchesOf(E), NEW p \in Procs,
           MayWrite(p) \/ call[p].at = "compact",
           NEW left \in Seq(E), NEW failed \in BOOLEAN, Continue(p, left, failed),
           UNCHANGED <<outsideVars, storageDone>>
    PROVE  GoesOn(p, left, failed, E)
PROOF
<1>1. DOMAIN call = Procs /\ MemoryInv /\ BatchesOf(E) /\ storageDone' = storageDone
  BY DEF TurnsInv
<1>2. /\ storageIssued' = storageIssued
      /\ UNCHANGED <<memory, nextCursor, now>>
  BY DEF outsideVars, memoryVars
<1>3. call' = [call EXCEPT ![p] =
        [at |-> "io", sequence |-> call[p].sequence, records |-> left,
         failed |-> failed \/ HasFailed(p)]]
  BY DEF Continue
<1>4. OnlyMoves(p)
  BY <1>1, <1>3 DEF OnlyMoves
<1>5. call'[p] = [at |-> "io", sequence |-> call[p].sequence, records |-> left,
                  failed |-> failed \/ HasFailed(p)]
  BY <1>1, <1>3
<1>6. /\ call'[p].at = "io" /\ call'[p].sequence = call[p].sequence
      /\ call'[p].records = left
  BY <1>5
<1>7. call'[p].failed = (failed \/ HasFailed(p))
  <2> DEFINE f == failed \/ HasFailed(p)
  <2>1. call'[p] = [at |-> "io", sequence |-> call[p].sequence, records |-> left,
                    failed |-> f]
    BY <1>5, Zenon
  <2> HIDE DEF f
  <2>2. call'[p].failed = f
    BY <2>1
  <2> QED BY <2>2, Zenon DEF f
<1>8. call[p].at \in {"persist", "io", "compact"}
  BY DEF MayWrite, HasTurn
<1>9. TurnsInv'
  BY <1>1, <1>2, <1>4, <1>6, ContinueKeeps
<1>10. InPersist(p) /\ InPersist(p)'
  BY <1>6, <1>8 DEF InPersist
<1>11. Turn(p) = storageDone + 1
  BY <1>8 DEF TurnsInv, MayWrite, HasTurn, HoldsStorageMu, Turn
<1>12. WritesInTurn(p)
  BY <1>1, <1>2, <1>4, <1>6, <1>10, <1>11 DEF WritesInTurn, Turn
<1>13. MemoryInv'
  BY <1>1, <1>2, <1>4, <1>6, OutsideKeepsMemory
<1>14. BatchesOf(E)' /\ \E rest \in Seq(E) : /\ Unwritten = call[p].records \o rest
                                                   /\ Unwritten' = left \o rest
  <2>1. call'[p].records \in Seq(E)
    BY <1>6
  <2>2. BatchesOf(E)'
    BY <1>4, <2>1, BatchesMove
  <2>3. \E rest \in Seq(E) : /\ Unwritten = call[p].records \o rest
                             /\ Unwritten' = call'[p].records \o rest
    BY <1>9, <1>12, <2>1, UnwrittenWrites
  <2> QED BY <1>6, <2>2, <2>3
<1>15. HasError(p)' <=> failed \/ HasError(p)
  <2>1. HasError(p)' <=> call'[p].failed
    BY <1>6 DEF HasError, HoldsStorageMu
  <2>2. HasError(p) <=> HasFailed(p)
    BY <1>8 DEF HasError, HoldsStorageMu, HasFailed
  <2> QED BY <1>7, <2>1, <2>2, Zenon
<1>16. \A q \in Procs : call'[q].at # "compact"
  <2> SUFFICES ASSUME NEW q \in Procs, q # p PROVE call'[q].at # "compact"
    BY <1>6
  <2>1. call'[q] = call[q]
    BY <1>4 DEF OnlyMoves
  <2>2. CASE HoldsStorageMu(p)
    <3>1. ~HoldsStorageMu(q)
      BY <2>2, TurnsInvSuffices DEF OneWriterInTurn
    <3> QED BY <2>1, <3>1 DEF HoldsStorageMu
  <2>3. CASE ~HoldsStorageMu(p)
    <3>1. StorageMuFree
      BY <2>3 DEF MayWrite, HoldsStorageMu
    <3> QED BY <2>1, <3>1 DEF StorageMuFree, HoldsStorageMu
  <2> QED BY <2>2, <2>3
<1> QED BY <1>4, <1>6, <1>9, <1>12, <1>13, <1>14, <1>15, <1>16 DEF GoesOn

\* What is known of the errors then.
LEMMA GoesOnKeepsOpen ==
    ASSUME OpenInv, NEW p \in Procs, NEW left, NEW E, NEW failed \in BOOLEAN,
           GoesOn(p, left, failed, E), UNCHANGED <<isClosed, storageError>>,
           handle' = handle \/ failed
    PROVE  /\ OpenInv' /\ (Clean' => Clean /\ ~failed)
           /\ Clean /\ ~failed => Clean'
PROOF
<1>1. /\ OnlyMoves(p) /\ call'[p].at = "io"
      /\ HasError(p)' <=> failed \/ HasError(p)
  BY DEF GoesOn
<1>2. OpenInv' /\ (Clean' => Clean)
  BY <1>1, GoingOnKeepsOpen
<1>3. Clean' => ~failed
  BY <1>1 DEF Clean
<1>4. Clean /\ ~failed => Clean'
  <2> SUFFICES ASSUME Clean, ~failed PROVE Clean'
    OBVIOUS
  <2>1. ~HasError(p)'
    BY <1>1 DEF Clean
  <2> QED BY <1>1, <2>1, StaysClean
<1> QED BY <1>2, <1>3, <1>4
=============================================================================
