------------------------- MODULE JournalStoreProofs --------------------------
(***************************************************************************)
(* The journal, for every number of goroutines, entries, failures and      *)
(* crashes: one writer at a time and no number that nobody owns; the file, *)
(* followed by what is still to be written, replays to memory, and a file  *)
(* that does not has been reported.  The replay is a fold; what it makes of *)
(* a memory that differs in some ids is a matter of which ids its records  *)
(* touch (Alike), and so a snapshot may run ahead of records that follow it. *)
(***************************************************************************)
EXTENDS JournalStore, PersistProofs

LEMMA RecordKeeps ==
    ASSUME TurnsInv, NEW p \in Procs,
           \/ AppendRecord(p) \/ AppendFails(p) \/ AppendNowhere(p)
           \/ TakeSnapshot(p) \/ InstallSnapshot(p) \/ CompactionFails(p)
    PROVE  TurnsInv'
PROOF
<1>0. DOMAIN call = Procs
  BY DEF TurnsInv
<1>1. CASE AppendRecord(p)
  <2>1. \E records, failed : Continue(p, records, failed)
    BY <1>1 DEF AppendRecord
  <2> QED BY <1>0, <1>1, <2>1, ContinueKeeps
        DEF AppendRecord, NextIsRecord, Continue, OnlyMoves, outsideVars
<1>2. CASE AppendFails(p)
  BY <1>0, <1>2, ContinueKeeps
     DEF AppendFails, NextIsRecord, Continue, OnlyMoves, outsideVars
<1>3. CASE AppendNowhere(p)
  BY <1>0, <1>3, ContinueKeeps DEF AppendNowhere, Continue, OnlyMoves, outsideVars
<1>4. CASE TakeSnapshot(p)
  BY <1>0, <1>4, ContinueKeeps DEF TakeSnapshot, MayWrite, OnlyMoves, outsideVars
<1>5. CASE InstallSnapshot(p)
  BY <1>0, <1>5, ContinueKeeps DEF InstallSnapshot, Continue, OnlyMoves, outsideVars
<1>6. CASE CompactionFails(p)
  <2>1. \E records, failed : Continue(p, records, failed)
    BY <1>6 DEF CompactionFails
  <2> QED BY <1>0, <1>6, <2>1, ContinueKeeps
        DEF CompactionFails, Continue, OnlyMoves, outsideVars
<1> QED BY <1>1, <1>2, <1>3, <1>4, <1>5, <1>6

LEMMA JournalNextKeeps ==
    ASSUME TurnsInv, JournalNext
    PROVE  TurnsInv'
PROOF
<1>1. ASSUME NEW p \in Procs, MemoryStep(p)
      PROVE  TurnsInv'
  BY <1>1, MemoryStepKeeps
<1>2. ASSUME NEW p \in Procs, JournalStep(p)
      PROVE  TurnsInv'
  <2>1. CASE FinishPersist(p)
    BY <2>1, FinishPersistKeeps
  <2>2. CASE ReportError(p)
    BY <2>2, ReportErrorKeeps
  <2>3. CASE CloseJournal(p)
    BY <2>3, CloseStorageKeeps DEF CloseJournal
  <2> QED BY <1>2, <2>1, <2>2, <2>3, RecordKeeps DEF JournalStep
<1>3. CASE StreamStep \/ Tick
  <2>1. UNCHANGED <<storageIssued, storageDone, call>>
    BY <1>3 DEF StreamStep, Subscribe, Unsubscribe, Receive, Tick, storageVars
  <2> QED BY <2>1, UnchangedKeeps
<1>4. CASE Restart
  BY <1>4, FreshProcessKeeps DEF Restart
<1> QED BY <1>1, <1>2, <1>3, <1>4 DEF JournalNext

\* Every step of the journal keeps the turns (persist, store.go).
LEMMA TurnsAlways == JournalSpec => []TurnsInv
PROOF
<1>1. JournalInit => TurnsInv
  BY InitTurns DEF JournalInit
<1>2. TurnsInv /\ [JournalNext]_allVars => TurnsInv'
  <2>1. ASSUME TurnsInv, UNCHANGED allVars
        PROVE  TurnsInv'
    BY <2>1, UnchangedKeeps DEF allVars, vars, storageVars
  <2> QED BY <2>1, JournalNextKeeps
<1> QED BY <1>1, <1>2, PTL DEF JournalSpec

\* At most one goroutine is inside the journal, and it is the one whose turn
\* it is, whatever fails and whenever the process dies (persist and
\* appendJournal, store.go: the wait on storageCond under storageMu).
THEOREM JournalHasOneWriter == JournalSpec => []OneWriterInTurn
PROOF
<1>1. TurnsInv => OneWriterInTurn
  BY TurnsInvSuffices
<1> QED BY <1>1, TurnsAlways, PTL

\* Every batch that was issued and not written waits in exactly one
\* goroutine, so nobody waits behind a number that will never come
\* (storageBatchLocked and persist, store.go).
THEOREM JournalTurnsAreOwned == JournalSpec => []EveryTurnHasAnOwner
PROOF
<1>1. TurnsInv => EveryTurnHasAnOwner
  BY TurnsInvSuffices
<1> QED BY <1>1, TurnsAlways, PTL

-----------------------------------------------------------------------------
(* Replaying one record after the other.                                   *)

Replaying(m, records) == FoldLeft(ReplayRecord, m, records)

\* The fold as a function of the positions it has gone through.
ReplayingBy(g, m, s, D) ==
    g = [T \in SUBSET D |-> IF T = {} THEN m
           ELSE ReplayRecord(g[T \ {Max(T)}], s[Max(T)])]

LEMMA ReplayingFolds ==
    ASSUME NEW m, NEW s
    PROVE  Replaying(m, s) = (CHOOSE g : ReplayingBy(g, m, s, DOMAIN s))[DOMAIN s]
BY DEF Replaying, FoldLeft, MapThenFoldSet, ReplayingBy

LEMMA ReplayingExists ==
    ASSUME NEW m, NEW s, NEW n \in Nat
    PROVE  \E g : ReplayingBy(g, m, s, 1..n)
PROOF
<1> DEFINE P == {k \in 0..n : \E g : ReplayingBy(g, m, s, 1..k)}
<1>1. 0 \in P
  <2> DEFINE z == [T \in SUBSET {} |-> m]
  <2>1. 1..0 = {}
    OBVIOUS
  <2>2. ReplayingBy(z, m, s, {})
    BY DEF ReplayingBy
  <2> QED BY <2>1, <2>2
<1>2. ASSUME NEW k \in 0..(n - 1), k \in P PROVE (k + 1) \in P
  <2>1. PICK g : ReplayingBy(g, m, s, 1..k)
    BY <1>2
  <2> DEFINE last == k + 1
             G == [T \in SUBSET (1..last) |->
                     IF last \in T THEN ReplayRecord(g[T \ {last}], s[last]) ELSE g[T]]
  <2>2. /\ 1..k \subseteq 1..last /\ last \notin 1..k
        /\ \A T \in SUBSET (1..last) : T \ {last} \in SUBSET (1..k)
        /\ \A T \in SUBSET (1..last) : last \in T => Max(T) = last
    <3>1. k \in Nat
      OBVIOUS
    <3>2. 1..k \subseteq 1..last /\ last \notin 1..k /\ (1..last) \ {last} = 1..k
      BY <3>1
    <3>3. \A T \in SUBSET (1..last) : T \ {last} \in SUBSET (1..k)
      BY <3>2
    <3> QED BY <3>1, <3>2, <3>3, LastOfPrefix
  <2> HIDE DEF last
  <2>3. ASSUME NEW T \in SUBSET (1..last)
        PROVE  G[T] = IF T = {} THEN m ELSE ReplayRecord(G[T \ {Max(T)}], s[Max(T)])
    <3>1. CASE last \in T
      <4>1. Max(T) = last /\ T # {}
        BY <3>1, <2>2
      <4>2. G[T \ {last}] = g[T \ {last}]
        BY <2>2
      <4>3. G[T] = ReplayRecord(g[T \ {last}], s[last])
        BY <3>1
      <4> HIDE DEF G
      <4> QED BY <4>1, <4>2, <4>3
    <3>2. CASE last \notin T
      <4>1. T \in SUBSET (1..k) /\ T \ {Max(T)} \in SUBSET (1..k)
        BY <3>2, <2>2
      <4>2. G[T] = g[T] /\ G[T \ {Max(T)}] = g[T \ {Max(T)}]
        BY <3>2, <4>1, <2>2
      <4> HIDE DEF G
      <4> QED BY <2>1, <4>1, <4>2 DEF ReplayingBy
    <3> QED BY <3>1, <3>2
  <2>4. G = [T \in SUBSET (1..last) |-> G[T]]
    OBVIOUS
  <2> HIDE DEF G
  <2>5. ReplayingBy(G, m, s, 1..last)
    BY <2>3, <2>4 DEF ReplayingBy
  <2> QED BY <2>5 DEF last
<1>3. n \in P
  <2> HIDE DEF P
  <2> QED BY <1>1, <1>2, Upwards
<1> QED BY <1>3

\* What one more record does.
LEMMA ReplayingUnfolds ==
    ASSUME NEW E, NEW m, NEW s \in Seq(E), NEW e \in E
    PROVE  /\ Replaying(m, <<>>) = m
           /\ Replaying(m, Append(s, e)) = ReplayRecord(Replaying(m, s), e)
PROOF
<1> DEFINE n == Len(s)
           last == n + 1
           t == Append(s, e)
           g == CHOOSE f : ReplayingBy(f, m, s, 1..n)
           h == CHOOSE f : ReplayingBy(f, m, t, 1..last)
           z == CHOOSE f : ReplayingBy(f, m, <<>>, 1..0)
<1>1. /\ n \in Nat /\ last \in Nat /\ DOMAIN s = 1..n /\ DOMAIN t = 1..last
      /\ t[last] = e /\ \A i \in 1..n : t[i] = s[i]
      /\ 1..0 = {} /\ DOMAIN <<>> = 1..0
      /\ \A i \in 0..n : 1..i \in SUBSET (1..n) /\ 1..i \in SUBSET (1..last)
      /\ last \in 1..last /\ 1..last \in SUBSET (1..last) /\ 1..last # {}
      /\ \A k \in 0..(n - 1) :
           k \in Nat /\ k + 1 \in 0..n /\ k + 1 \in 1..n /\ k + 1 \in 1..(k + 1)
  OBVIOUS
<1>2. /\ Replaying(m, s) = g[1..n] /\ Replaying(m, t) = h[1..last]
      /\ Replaying(m, <<>>) = z[1..0]
  <2> HIDE DEF n, last, t
  <2> QED BY <1>1, ReplayingFolds
<1>3. /\ ReplayingBy(g, m, s, 1..n) /\ ReplayingBy(h, m, t, 1..last)
      /\ ReplayingBy(z, m, <<>>, 1..0)
  <2>1. 0 \in Nat
    OBVIOUS
  <2> HIDE DEF n, last, t
  <2> QED BY <1>1, <2>1, ReplayingExists
<1> HIDE DEF g, h, z, n, t
<1>4. z[1..0] = m
  BY <1>1, <1>3 DEF ReplayingBy
<1>5. /\ Max(1..last) = last /\ (1..last) \ {last} = 1..n
      /\ \A k \in Nat : Max(1..(k + 1)) = k + 1 /\ (1..(k + 1)) \ {k + 1} = 1..k
  BY <1>1, LastOfPrefix
<1>6. h[1..last] = ReplayRecord(h[1..n], e)
  <2>1. /\ 1..last # {} /\ 1..last \in SUBSET (1..last) /\ t[last] = e
        /\ Max(1..last) = last /\ (1..last) \ {last} = 1..n
    BY <1>1, <1>5
  <2>2. ReplayingBy(h, m, t, 1..last)
    BY <1>3
  <2> HIDE DEF last
  <2> QED BY <2>1, <2>2 DEF ReplayingBy
<1>7. h[1..n] = g[1..n]
  <2> DEFINE P == {k \in 0..n : h[1..k] = g[1..k]}
  <2>1. 0 \in P
    <3>1. {} \in SUBSET (1..n) /\ {} \in SUBSET (1..last)
      OBVIOUS
    <3>2. h[{}] = m /\ g[{}] = m
      <4> HIDE DEF last
      <4> QED BY <1>3, <3>1 DEF ReplayingBy
    <3> QED BY <1>1, <3>2
  <2>2. ASSUME NEW k \in 0..(n - 1), k \in P PROVE (k + 1) \in P
    <3> DEFINE j == k + 1
    <3>1. k \in Nat /\ j \in 0..n /\ j \in 1..n /\ j \in 1..j
      BY <1>1
    <3>2. Max(1..j) = j /\ (1..j) \ {j} = 1..k
      BY <1>5, <3>1
    <3> HIDE DEF j, last
    <3> DEFINE upto == 1..j
    <3>3. /\ upto # {} /\ upto \in SUBSET (1..n) /\ upto \in SUBSET (1..last)
          /\ s[j] = t[j] /\ Max(upto) = j /\ upto \ {j} = 1..k
      BY <1>1, <3>1, <3>2
    <3>4. ReplayingBy(g, m, s, 1..n) /\ ReplayingBy(h, m, t, 1..last)
      BY <1>3
    <3> HIDE DEF upto
    <3>5. h[upto] = ReplayRecord(h[1..k], t[j])
      BY <3>3, <3>4 DEF ReplayingBy
    <3>6. g[upto] = ReplayRecord(g[1..k], s[j])
      BY <3>3, <3>4 DEF ReplayingBy
    <3>7. j \in P
      BY <2>2, <3>1, <3>3, <3>5, <3>6 DEF upto
    <3> QED BY <3>7 DEF j
  <2>3. n \in P
    <3> HIDE DEF P
    <3> QED BY <1>1, <2>1, <2>2, Upwards
  <2> QED BY <2>3
<1> QED BY <1>2, <1>4, <1>6, <1>7 DEF t

LEMMA ReplayingOfNone ==
    ASSUME NEW m
    PROVE  Replaying(m, <<>>) = m
PROOF
<1>1. <<>> \in Seq({0}) /\ 0 \in {0}
  OBVIOUS
<1> QED BY <1>1, ReplayingUnfolds

\* One part of the records after the other.
LEMMA ReplayingInParts ==
    ASSUME NEW E, NEW m, NEW s \in Seq(E), NEW t \in Seq(E)
    PROVE  Replaying(m, s \o t) = Replaying(Replaying(m, s), t)
PROOF
<1> DEFINE P == {u \in Seq(E) : Replaying(m, s \o u) = Replaying(Replaying(m, s), u)}
<1>1. <<>> \in P
  <2>1. s \o <<>> = s /\ <<>> \in Seq(E)
    BY ConcatEmptySeq
  <2>2. Replaying(Replaying(m, s), <<>>) = Replaying(m, s)
    BY ReplayingOfNone
  <2> QED BY <2>1, <2>2
<1>2. ASSUME NEW u \in Seq(E), NEW e \in E, u \in P
      PROVE  Append(u, e) \in P
  <2>1. s \o Append(u, e) = Append(s \o u, e) /\ s \o u \in Seq(E) /\ Append(u, e) \in Seq(E)
    <3>1. Append(u, e) = u \o <<e>> /\ <<e>> \in Seq(E) /\ s \o u \in Seq(E)
      BY AppendIsConcat, ConcatProperties
    <3>2. Append(s \o u, e) = (s \o u) \o <<e>>
      BY <3>1, AppendIsConcat
    <3> QED BY <3>1, <3>2, ConcatAssociative
  <2>2. Replaying(m, Append(s \o u, e)) = ReplayRecord(Replaying(m, s \o u), e)
    <3> DEFINE su == s \o u
    <3>1. su \in Seq(E)
      BY <2>1
    <3> HIDE DEF su
    <3>2. Replaying(m, Append(su, e)) = ReplayRecord(Replaying(m, su), e)
      BY <3>1, ReplayingUnfolds
    <3> QED BY <3>2 DEF su
  <2>3. Replaying(Replaying(m, s), Append(u, e))
          = ReplayRecord(Replaying(Replaying(m, s), u), e)
    BY ReplayingUnfolds
  <2> QED BY <1>2, <2>1, <2>2, <2>3
<1>3. t \in P
  <2> HIDE DEF P
  <2> QED BY <1>1, <1>2, ByAppending
<1> QED BY <1>3

LEMMA ReplayingOfOne ==
    ASSUME NEW m, NEW e
    PROVE  Replaying(m, <<e>>) = ReplayRecord(m, e)
PROOF
<1> DEFINE none == <<>>
           E == {e}
<1>1. Append(none, e) = <<e>>
  OBVIOUS
<1>0. none \in Seq(E) /\ e \in E
  OBVIOUS
<1> HIDE DEF none, E
<1>2. Replaying(m, Append(none, e)) = ReplayRecord(Replaying(m, none), e)
  BY <1>0, ReplayingUnfolds
<1> QED BY <1>1, <1>2, ReplayingOfNone DEF none

-----------------------------------------------------------------------------
(* The order of memory as a relation: who stands before whom.              *)

Before(m, x, y) ==
    \E i, j \in 1..Len(m.order) : i < j /\ m.order[i] = x /\ m.order[j] = y

LEMMA BeforeIsTotal ==
    ASSUME NEW m, Exact(m)
    PROVE  /\ \A x, y \in Stored(m) : x # y => Before(m, x, y) \/ Before(m, y, x)
           /\ \A x, y : Before(m, x, y) => /\ x \in Stored(m) /\ y \in Stored(m) /\ x # y
                                           /\ ~Before(m, y, x)
PROOF
<1> DEFINE n == Len(m.order)
           at(i) == m.order[i]
<1>1. /\ n \in Nat
      /\ \A x : x \in Stored(m) <=> \E i \in 1..n : at(i) = x
      /\ \A i, j \in 1..n : at(i) = at(j) => i = j
  BY DEF Exact
<1>2. \A x, y : Before(m, x, y) <=> \E i, j \in 1..n : i < j /\ at(i) = x /\ at(j) = y
  BY DEF Before
<1> HIDE DEF n, at
<1>3. ASSUME NEW x \in Stored(m), NEW y \in Stored(m), x # y
      PROVE  Before(m, x, y) \/ Before(m, y, x)
  <2>1. PICK i \in 1..n, j \in 1..n : at(i) = x /\ at(j) = y
    BY <1>1
  <2>2. i < j \/ j < i
    BY <1>1, <1>3, <2>1
  <2> QED BY <1>2, <2>1, <2>2
<1>4. ASSUME NEW x, NEW y, Before(m, x, y)
      PROVE  x \in Stored(m) /\ y \in Stored(m) /\ x # y /\ ~Before(m, y, x)
  <2>1. PICK i \in 1..n, j \in 1..n : i < j /\ at(i) = x /\ at(j) = y
    BY <1>2, <1>4
  <2>2. x # y /\ x \in Stored(m) /\ y \in Stored(m)
    BY <1>1, <2>1
  <2>3. ASSUME Before(m, y, x) PROVE FALSE
    <3>1. PICK k \in 1..n, l \in 1..n : k < l /\ at(k) = y /\ at(l) = x
      BY <1>2, <2>3
    <3>2. k = j /\ l = i
      BY <1>1, <2>1, <3>1
    <3> QED BY <1>1, <2>1, <3>1, <3>2
  <2> QED BY <2>2, <2>3
<1> QED BY <1>3, <1>4

\* The same entries, in an order that does not contradict that of another
\* memory, are in the same order.
LEMMA BeforeRestricts ==
    ASSUME NEW m, Exact(m), NEW d, Exact(d), Stored(d) \subseteq Stored(m),
           \A x, y : Before(d, x, y) => Before(m, x, y)
    PROVE  \A x, y : Before(d, x, y)
                       <=> Before(m, x, y) /\ x \in Stored(d) /\ y \in Stored(d)
BY BeforeIsTotal

\* A memory without some of its entries.
Pruned(d, m, gone) ==
    /\ Stored(d) = Stored(m) \ gone
    /\ \A x \in Stored(d) : d.entries[x] = m.entries[x]
    /\ \A x, y : Before(d, x, y) <=> Before(m, x, y) /\ x \notin gone /\ y \notin gone

LEMMA DropPrunes ==
    ASSUME NEW m, Exact(m), NEW k \in 0..Len(m.order)
    PROVE  Exact(DropOldest(m, k))
           /\ Pruned(DropOldest(m, k), m, {m.order[i] : i \in 1..k})
PROOF
<1> DEFINE d == DropOldest(m, k)
           gone == {m.order[i] : i \in 1..k}
           n == Len(m.order)
<1>1. /\ Exact(d) /\ n \in Nat /\ Len(d.order) = n - k
      /\ \A i \in 1..(n - k) : i + k \in 1..n /\ d.order[i] = m.order[i + k]
  BY DropExact DEF Exact
<1>2. Stored(d) = Stored(m) \ gone /\ \A x \in Stored(d) : d.entries[x] = m.entries[x]
  BY DEF DropOldest, Stored
<1> HIDE DEF d, gone, n
<1>3. ASSUME NEW x, NEW y, Before(d, x, y)
      PROVE  Before(m, x, y)
  <2>1. PICK i \in 1..(n - k), j \in 1..(n - k) : i < j /\ d.order[i] = x /\ d.order[j] = y
    BY <1>1, <1>3 DEF Before
  <2>2. i + k \in 1..n /\ j + k \in 1..n /\ i + k < j + k
    BY <1>1, <2>1
  <2>3. m.order[i + k] = x /\ m.order[j + k] = y
    BY <1>1, <2>1
  <2> QED BY <2>2, <2>3 DEF Before, n
<1>4. \A x, y : Before(d, x, y) <=> Before(m, x, y) /\ x \in Stored(d) /\ y \in Stored(d)
  BY <1>1, <1>2, <1>3, BeforeRestricts
<1>5. \A x, y : Before(m, x, y) => x \in Stored(m) /\ y \in Stored(m)
  BY BeforeIsTotal
<1>6. Pruned(d, m, gone)
  BY <1>2, <1>4, <1>5 DEF Pruned
<1> QED BY <1>1, <1>6 DEF d, gone

LEMMA ForgetPrunes ==
    ASSUME NEW m, Exact(m), NEW id
    PROVE  Exact(Forget(m, id)) /\ Pruned(Forget(m, id), m, {id})
PROOF
<1> DEFINE f == Forget(m, id)
<1>1. /\ Exact(f) /\ Stored(f) = Stored(m) \ {id}
      /\ \A x \in Stored(m) \ {id} : f.entries[x] = m.entries[x]
      /\ \A i, j \in 1..Len(f.order) : i < j =>
           \E a, b \in 1..Len(m.order) :
             a < b /\ f.order[i] = m.order[a] /\ f.order[j] = m.order[b]
  BY ForgetExact
<1> HIDE DEF f
<1>2. ASSUME NEW x, NEW y, Before(f, x, y)
      PROVE  Before(m, x, y)
  <2>1. PICK i \in 1..Len(f.order), j \in 1..Len(f.order) :
          i < j /\ f.order[i] = x /\ f.order[j] = y
    BY <1>2 DEF Before
  <2>2. PICK a \in 1..Len(m.order), b \in 1..Len(m.order) :
          a < b /\ f.order[i] = m.order[a] /\ f.order[j] = m.order[b]
    BY <1>1, <2>1
  <2> QED BY <2>1, <2>2 DEF Before
<1>3. \A x, y : Before(f, x, y) <=> Before(m, x, y) /\ x \in Stored(f) /\ y \in Stored(f)
  BY <1>1, <1>2, BeforeRestricts
<1>4. \A x, y : Before(m, x, y) => x \in Stored(m) /\ y \in Stored(m)
  BY BeforeIsTotal
<1>5. Pruned(f, m, {id})
  BY <1>1, <1>3, <1>4 DEF Pruned
<1> QED BY <1>1, <1>5 DEF f

\* A replaced entry goes behind all others.
LEMMA ReplaceGoesLast ==
    ASSUME NEW m, Exact(m), NEW entry, entry.id \in Ids
    PROVE  /\ Exact(Replace(m, entry))
           /\ \A x, y : Before(Replace(m, entry), x, y) <=>
                \/ Before(m, x, y) /\ x # entry.id /\ y # entry.id
                \/ x \in Stored(m) \ {entry.id} /\ y = entry.id
PROOF
<1> DEFINE id == entry.id
           f == Forget(m, id)
           r == Insert(f, entry)
           n == Len(f.order)
           last == n + 1
<1>1. Exact(f) /\ Pruned(f, m, {id})
  BY ForgetPrunes
<1>2. Stored(f) = Stored(m) \ {id}
  BY <1>1 DEF Pruned
<1> HIDE DEF f
<1>3. /\ Exact(r) /\ Stored(r) = Stored(f) \cup {id}
      /\ Len(r.order) = last
      /\ \A i \in 1..n : r.order[i] = f.order[i]
      /\ r.order[last] = id
  BY <1>1, <1>2, InsertExact
<1>4. n \in Nat /\ \A i \in 1..n : f.order[i] \in Stored(f)
  BY <1>1 DEF Exact
<1>5. \A x \in Stored(f) : \E i \in 1..n : f.order[i] = x
  BY <1>1 DEF Exact
<1>6. \A i : i \in 1..last <=> i \in 1..n \/ i = last
  BY <1>4
<1>7. last \notin 1..n /\ \A i \in 1..n : i < last
  BY <1>4
<1>8. ASSUME NEW x, NEW y
      PROVE  Before(r, x, y) <=> Before(f, x, y) \/ (x \in Stored(f) /\ y = id)
  <2>1. ASSUME Before(r, x, y)
        PROVE  Before(f, x, y) \/ (x \in Stored(f) /\ y = id)
    <3>1. PICK i \in 1..last, j \in 1..last : i < j /\ r.order[i] = x /\ r.order[j] = y
      BY <1>3, <2>1 DEF Before
    <3>2. i \in 1..n
      BY <1>4, <3>1
    <3>3. x = f.order[i] /\ x \in Stored(f)
      BY <1>3, <1>4, <3>1, <3>2
    <3>4. CASE j = last
      BY <1>3, <3>1, <3>3, <3>4
    <3>5. CASE j \in 1..n
      <4>1. y = f.order[j]
        BY <1>3, <3>1, <3>5
      <4> HIDE DEF last, id
      <4> QED BY <3>1, <3>2, <3>3, <3>5, <4>1 DEF Before
    <3> HIDE DEF n, last
    <3> QED BY <1>6, <3>4, <3>5
  <2>2. ASSUME Before(f, x, y) PROVE Before(r, x, y)
    <3>1. PICK i \in 1..n, j \in 1..n : i < j /\ f.order[i] = x /\ f.order[j] = y
      BY <2>2 DEF Before
    <3>2. i \in 1..last /\ j \in 1..last /\ r.order[i] = x /\ r.order[j] = y
      <4> HIDE DEF n, last, r
      <4> QED BY <1>3, <1>6, <3>1
    <3> HIDE DEF r, n
    <3> QED BY <1>3, <3>1, <3>2 DEF Before
  <2>3. ASSUME x \in Stored(f), y = id PROVE Before(r, x, y)
    <3>1. PICK i \in 1..n : f.order[i] = x
      BY <1>5, <2>3
    <3>2. /\ i \in 1..last /\ last \in 1..last /\ i < last
          /\ r.order[i] = x /\ r.order[last] = y
      <4> HIDE DEF n, last, r
      <4> QED BY <1>3, <1>6, <1>7, <2>3, <3>1
    <3> HIDE DEF r, last
    <3> QED BY <1>3, <3>2 DEF Before
  <2> QED BY <2>1, <2>2, <2>3
<1>9. \A x, y : Before(f, x, y) <=> Before(m, x, y) /\ x # id /\ y # id
  BY <1>1 DEF Pruned
<1>10. Replace(m, entry) = r
  BY DEF Replace, f
<1> HIDE DEF r, id
<1>11. \A x, y : Before(r, x, y) <=>
         (Before(m, x, y) /\ x # id /\ y # id) \/ (x \in Stored(m) \ {id} /\ y = id)
  BY <1>2, <1>8, <1>9
<1> QED BY <1>3, <1>10, <1>11 DEF id

LEMMA NoneBefore ==
    /\ Exact(EmptyMemory) /\ Stored(EmptyMemory) = {}
    /\ \A x, y : ~Before(EmptyMemory, x, y)
PROOF
<1>1. Exact(EmptyMemory) /\ Stored(EmptyMemory) = {}
  BY EmptyExact
<1> QED BY <1>1, BeforeIsTotal

\* The same entries in the same order: one list goes on as the other.
LEMMA OrderFollows ==
    ASSUME NEW m, Exact(m), NEW n, Exact(n), Stored(m) = Stored(n),
           \A x, y : Before(m, x, y) <=> Before(n, x, y)
    PROVE  /\ Len(m.order) <= Len(n.order)
           /\ \A i \in 1..Len(m.order) : m.order[i] = n.order[i]
PROOF
<1> DEFINE a(i) == m.order[i]
           b(i) == n.order[i]
           la == Len(m.order)
           lb == Len(n.order)
<1>1. /\ la \in Nat /\ lb \in Nat
      /\ \A i, j \in 1..la : a(i) = a(j) => i = j
      /\ \A i, j \in 1..lb : b(i) = b(j) => i = j
      /\ \A i \in 1..la : \E j \in 1..lb : b(j) = a(i)
      /\ \A i \in 1..lb : \E j \in 1..la : a(j) = b(i)
  <2>1. /\ la \in Nat /\ lb \in Nat
        /\ \A i, j \in 1..la : a(i) = a(j) => i = j
        /\ \A i, j \in 1..lb : b(i) = b(j) => i = j
    BY DEF Exact
  <2>2. /\ \A x : x \in Stored(m) <=> \E i \in 1..la : a(i) = x
        /\ \A x : x \in Stored(n) <=> \E i \in 1..lb : b(i) = x
    BY DEF Exact
  <2> HIDE DEF a, b, la, lb
  <2> QED BY <2>1, <2>2
<1>2. ASSUME NEW i \in 1..lb, NEW j \in 1..lb, i < j, NEW k \in 1..la, a(k) = b(i),
             NEW l \in 1..la, a(l) = b(j)
      PROVE  k < l
  <2>1. Before(n, b(i), b(j))
    BY <1>2 DEF Before
  <2>2. Before(m, a(k), a(l))
    <3> HIDE DEF a, b
    <3> QED BY <1>2, <2>1
  <2>3. PICK s \in 1..la, t \in 1..la : s < t /\ a(s) = a(k) /\ a(t) = a(l)
    BY <2>2 DEF Before
  <2>4. s = k /\ t = l
    <3> HIDE DEF a, b, la, lb
    <3> QED BY <1>1, <1>2, <2>3
  <2> QED BY <2>3, <2>4
<1> DEFINE P == {k \in 0..la : k <= lb /\ \A i \in 1..k : a(i) = b(i)}
<1> HIDE DEF a, b, la, lb
<1>3. 0 \in P
  BY <1>1
<1>4. ASSUME NEW k \in 0..(la - 1), k \in P PROVE (k + 1) \in P
  <2> DEFINE s == k + 1
  <2>1. /\ k \in Nat /\ s \in 1..la /\ s \in 0..la /\ k <= lb /\ k < la /\ k < s
        /\ \A i \in 1..k : a(i) = b(i)
    BY <1>1, <1>4
  <2> HIDE DEF s
  <2>2. PICK j \in 1..lb : b(j) = a(s)
    BY <1>1, <2>1
  <2>3. ~(j \in 1..k)
    <3>1. SUFFICES ASSUME j \in 1..k PROVE FALSE
      OBVIOUS
    <3>2. a(j) = b(j)
      BY <2>1, <3>1
    <3>3. j \in 1..la /\ j < s /\ s \in 1..la
      BY <1>1, <2>1, <3>1
    <3>4. j = s
      BY <1>1, <2>2, <3>2, <3>3
    <3> QED BY <3>3, <3>4
  <2>4. s \in 1..lb /\ s <= lb /\ ~(j < s)
    BY <1>1, <2>1, <2>2, <2>3 DEF s
  <2>5. j = s
    <3>1. SUFFICES ASSUME s < j PROVE FALSE
      BY <1>1, <2>1, <2>2, <2>4
    <3>2. PICK l \in 1..la : a(l) = b(s)
      BY <1>1, <2>4
    <3>3. l < s
      BY <1>2, <2>1, <2>2, <2>4, <3>1, <3>2
    <3>4. l \in 1..k
      BY <2>1, <3>2, <3>3 DEF s
    <3>5. b(l) = b(s) /\ l \in 1..lb
      BY <1>1, <2>1, <3>2, <3>4
    <3>6. l = s
      BY <1>1, <2>4, <3>5
    <3> QED BY <2>1, <3>3, <3>6
  <2>6. \A i \in 1..s : i \in 1..k \/ i = s
    BY <2>1 DEF s
  <2>7. s \in P
    BY <2>1, <2>2, <2>4, <2>5, <2>6
  <2> QED BY <2>7 DEF s
<1>5. la \in P
  <2> HIDE DEF P
  <2> QED BY <1>1, <1>3, <1>4, Upwards
<1> QED BY <1>5 DEF a, b, la, lb

LEMMA SameOrder ==
    ASSUME NEW m, Exact(m), NEW n, Exact(n), Stored(m) = Stored(n),
           \A x, y : Before(m, x, y) <=> Before(n, x, y)
    PROVE  m.order = n.order
PROOF
<1>1. /\ Len(m.order) <= Len(n.order)
      /\ \A i \in 1..Len(m.order) : m.order[i] = n.order[i]
  BY OrderFollows
<1>2. Len(n.order) <= Len(m.order)
  BY OrderFollows
<1>3. m.order \in Seq(Ids) /\ n.order \in Seq(Ids)
  BY DEF Exact
<1>4. Len(m.order) = Len(n.order)
  BY <1>1, <1>2, <1>3
<1> QED BY <1>1, <1>3, <1>4, SeqEqual

-----------------------------------------------------------------------------
(* Two memories that differ in some ids at most.                           *)

Jobs == Records \cup {Compaction}

Alike(m, n, T) ==
    /\ Sound(m) /\ Sound(n)
    /\ \A x : x \notin T => /\ x \in Stored(m) <=> x \in Stored(n)
                            /\ x \in Stored(m) => m.entries[x] = n.entries[x]
    /\ \A x, y : x \notin T /\ y \notin T => (Before(m, x, y) <=> Before(n, x, y))

\* The ids of which a record tells all there is to know.
Touches(r) ==
    CASE r.op = "clear"   -> Ids
      [] r.op = "delete"  -> {r.id}
      [] r.op = "put"     -> {r.entry.id}
      [] r.op = "compact" -> {}

LEMMA StoredAreIds ==
    ASSUME NEW m, Exact(m)
    PROVE  Stored(m) \subseteq Ids
PROOF
<1>1. \A i \in 1..Len(m.order) : m.order[i] \in Ids
  BY ElementOfSeq DEF Exact
<1>2. \A x : x \in Stored(m) <=> \E i \in 1..Len(m.order) : m.order[i] = x
  BY DEF Exact
<1> QED BY <1>1, <1>2

LEMMA AlikeItself ==
    ASSUME NEW m, Sound(m), NEW T
    PROVE  Alike(m, m, T)
BY DEF Alike

LEMMA AlikeBothWays ==
    ASSUME NEW m, NEW n, NEW T, Alike(m, n, T)
    PROVE  Alike(n, m, T)
BY DEF Alike

LEMMA AlikeOnwards ==
    ASSUME NEW m, NEW n, NEW o, NEW S, NEW T, Alike(m, n, S), Alike(n, o, T)
    PROVE  Alike(m, o, S \cup T)
BY DEF Alike

\* Nothing but the same entries in the same order.
LEMMA AlikeIsSame ==
    ASSUME NEW m, NEW n, Alike(m, n, {})
    PROVE  m.entries = n.entries /\ m.order = n.order
PROOF
<1>1. /\ Exact(m) /\ Exact(n)
      /\ \A x : x \in Stored(m) <=> x \in Stored(n)
      /\ \A x \in Stored(m) : m.entries[x] = n.entries[x]
      /\ \A x, y : Before(m, x, y) <=> Before(n, x, y)
  BY DEF Alike, Sound
<1>2. Stored(m) = Stored(n)
  BY <1>1
<1>3. m.order = n.order
  BY <1>1, <1>2, SameOrder
<1> DEFINE S == Stored(m)
<1>4. /\ m.entries = [x \in S |-> m.entries[x]]
      /\ n.entries = [x \in S |-> n.entries[x]]
  BY <1>2 DEF Alike, Sound, Typed, Stored
<1> HIDE DEF S
<1>5. [x \in S |-> m.entries[x]] = [x \in S |-> n.entries[x]]
  BY <1>1 DEF S
<1> QED BY <1>3, <1>4, <1>5

LEMMA RecordIsOne ==
    ASSUME NEW r \in Jobs
    PROVE  \/ r.op = "clear"
           \/ r.op = "delete" /\ r.id \in Ids
           \/ r.op = "put" /\ r.entry \in Entries /\ r.entry.id \in Ids
           \/ r.op = "compact"
BY DEF Jobs, Records, Compaction, Entries

\* What a record makes of a memory, by its kind.
LEMMA ReplayedRecord ==
    ASSUME NEW m, NEW r
    PROVE  /\ r.op = "clear" => ReplayRecord(m, r) = EmptyMemory /\ Touches(r) = Ids
           /\ r.op = "delete" => ReplayRecord(m, r) = Forget(m, r.id) /\ Touches(r) = {r.id}
           /\ r.op = "put" => /\ ReplayRecord(m, r) = Replace(m, r.entry)
                              /\ Touches(r) = {r.entry.id}
           /\ r.op = "compact" => ReplayRecord(m, r) = m /\ Touches(r) = {}
BY DEF ReplayRecord, Touches

LEMMA ReplayedIsSound ==
    ASSUME NEW m, Sound(m), NEW r \in Jobs
    PROVE  Sound(ReplayRecord(m, r))
BY RecordIsOne, ReplayedRecord, EmptyIsSound, ForgetIsSound, ReplaceIsSound

\* What replaying a put leaves.
LEMMA PutReplayed ==
    ASSUME NEW m, Sound(m), NEW entry \in Entries
    PROVE  /\ Sound(Replace(m, entry))
           /\ \A x : x \in Stored(Replace(m, entry)) <=> x \in Stored(m) \/ x = entry.id
           /\ Replace(m, entry).entries[entry.id] = entry
           /\ \A x \in Stored(m) : x # entry.id =>
                Replace(m, entry).entries[x] = m.entries[x]
           /\ \A x, y : Before(Replace(m, entry), x, y) <=>
                \/ Before(m, x, y) /\ x # entry.id /\ y # entry.id
                \/ x \in Stored(m) /\ x # entry.id /\ y = entry.id
PROOF
<1>1. Exact(m) /\ entry.id \in Ids
  BY DEF Sound, Entries
<1>2. \A x, y : Before(Replace(m, entry), x, y) <=>
        \/ Before(m, x, y) /\ x # entry.id /\ y # entry.id
        \/ x \in Stored(m) \ {entry.id} /\ y = entry.id
  BY <1>1, ReplaceGoesLast
<1>3. Sound(Replace(m, entry))
  BY ReplaceIsSound
<1> QED BY <1>2, <1>3, ReplaceLeaves

\* A record makes two memories more alike ...
LEMMA RecordBringsCloser ==
    ASSUME NEW m, NEW n, NEW T, Alike(m, n, T), NEW r \in Jobs
    PROVE  Alike(ReplayRecord(m, r), ReplayRecord(n, r), T \ Touches(r))
PROOF
<1>1. Sound(m) /\ Sound(n) /\ Exact(m) /\ Exact(n)
  BY DEF Alike, Sound
<1>2. CASE r.op = "clear"
  <2>1. Alike(EmptyMemory, EmptyMemory, T \ Touches(r))
    BY EmptyIsSound, AlikeItself
  <2> QED BY <1>2, <2>1, ReplayedRecord
<1>3. CASE r.op = "compact"
  <2>1. T \ Touches(r) = T
    BY <1>3, ReplayedRecord
  <2> QED BY <1>3, <2>1, ReplayedRecord
<1>4. CASE r.op = "delete"
  <2> DEFINE id == r.id
             f == Forget(m, id)
             g == Forget(n, id)
  <2>1. Sound(f) /\ Pruned(f, m, {id}) /\ Sound(g) /\ Pruned(g, n, {id})
    BY <1>1, ForgetPrunes, ForgetIsSound
  <2>2. ReplayRecord(m, r) = f /\ ReplayRecord(n, r) = g /\ Touches(r) = {id}
    BY <1>4, ReplayedRecord
  <2> HIDE DEF id, f, g
  <2>3. Alike(f, g, T \ {id})
    BY <2>1 DEF Alike, Pruned
  <2> QED BY <2>2, <2>3
<1>5. CASE r.op = "put" /\ r.entry \in Entries
  <2> DEFINE entry == r.entry
             id == entry.id
             f == Replace(m, entry)
             g == Replace(n, entry)
  <2>1. /\ Sound(f) /\ Sound(g)
        /\ \A x : x \in Stored(f) <=> x \in Stored(m) \/ x = id
        /\ \A x : x \in Stored(g) <=> x \in Stored(n) \/ x = id
        /\ f.entries[id] = g.entries[id]
        /\ \A x \in Stored(m) : x # id => f.entries[x] = m.entries[x]
        /\ \A x \in Stored(n) : x # id => g.entries[x] = n.entries[x]
        /\ \A x, y : Before(f, x, y) <=>
             (Before(m, x, y) /\ x # id /\ y # id) \/ (x \in Stored(m) /\ x # id /\ y = id)
        /\ \A x, y : Before(g, x, y) <=>
             (Before(n, x, y) /\ x # id /\ y # id) \/ (x \in Stored(n) /\ x # id /\ y = id)
    BY <1>1, <1>5, PutReplayed
  <2>2. ReplayRecord(m, r) = f /\ ReplayRecord(n, r) = g /\ Touches(r) = {id}
    BY <1>5, ReplayedRecord
  <2> HIDE DEF id, f, g
  <2>3. \A x : x \notin T => /\ x \in Stored(m) <=> x \in Stored(n)
                             /\ x \in Stored(m) => m.entries[x] = n.entries[x]
    BY DEF Alike
  <2>4. \A x, y : x \notin T /\ y \notin T => (Before(m, x, y) <=> Before(n, x, y))
    BY DEF Alike
  <2>5. \A x : x \notin T \ {id} => /\ x \in Stored(f) <=> x \in Stored(g)
                                    /\ x \in Stored(f) => f.entries[x] = g.entries[x]
    BY <2>1, <2>3
  <2>6. \A x, y : x \notin T \ {id} /\ y \notin T \ {id}
                    => (Before(f, x, y) <=> Before(g, x, y))
    BY <2>1, <2>3, <2>4
  <2>7. Alike(f, g, T \ {id})
    BY <2>1, <2>5, <2>6 DEF Alike
  <2> QED BY <2>2, <2>7
<1> QED BY <1>2, <1>3, <1>4, <1>5, RecordIsOne

\* ... and changes no more than it touches.
LEMMA RecordTouches ==
    ASSUME NEW m, Sound(m), NEW r \in Jobs
    PROVE  Alike(m, ReplayRecord(m, r), Touches(r))
PROOF
<1>1. Exact(m)
  BY DEF Sound
<1>2. CASE r.op = "clear"
  <2>1. Stored(m) \subseteq Ids /\ \A x, y : Before(m, x, y) => x \in Stored(m)
    BY <1>1, StoredAreIds, BeforeIsTotal
  <2>2. Alike(m, EmptyMemory, Ids)
    BY <2>1, EmptyIsSound, NoneBefore DEF Alike
  <2> QED BY <1>2, <2>2, ReplayedRecord
<1>3. CASE r.op = "compact"
  BY <1>3, AlikeItself, ReplayedRecord
<1>4. CASE r.op = "delete"
  <2> DEFINE id == r.id
             f == Forget(m, id)
  <2>1. Sound(f) /\ Pruned(f, m, {id})
    BY <1>1, ForgetPrunes, ForgetIsSound
  <2>2. ReplayRecord(m, r) = f /\ Touches(r) = {id}
    BY <1>4, ReplayedRecord
  <2> HIDE DEF id, f
  <2>3. Alike(m, f, {id})
    BY <2>1 DEF Alike, Pruned
  <2> QED BY <2>2, <2>3
<1>5. CASE r.op = "put" /\ r.entry \in Entries
  <2> DEFINE entry == r.entry
             id == entry.id
             f == Replace(m, entry)
  <2>1. /\ Sound(f)
        /\ \A x : x \in Stored(f) <=> x \in Stored(m) \/ x = id
        /\ \A x \in Stored(m) : x # id => f.entries[x] = m.entries[x]
        /\ \A x, y : Before(f, x, y) <=>
             (Before(m, x, y) /\ x # id /\ y # id) \/ (x \in Stored(m) /\ x # id /\ y = id)
    BY <1>1, <1>5, PutReplayed
  <2>2. ReplayRecord(m, r) = f /\ Touches(r) = {id}
    BY <1>5, ReplayedRecord
  <2> HIDE DEF id, f
  <2>3. Alike(m, f, {id})
    BY <2>1 DEF Alike
  <2> QED BY <2>2, <2>3
<1> QED BY <1>2, <1>3, <1>4, <1>5, RecordIsOne

\* What a list of records tells all about.
Touched(t) == UNION {Touches(t[i]) : i \in 1..Len(t)}

LEMMA TouchedUnfolds ==
    ASSUME NEW E, NEW t \in Seq(E), NEW e \in E
    PROVE  Touched(<<>>) = {} /\ Touched(Append(t, e)) = Touched(t) \cup Touches(e)
PROOF
<1> DEFINE n == Len(t)
           last == n + 1
           u == Append(t, e)
<1>1. /\ n \in Nat /\ Len(u) = last /\ u[last] = e /\ \A i \in 1..n : u[i] = t[i]
      /\ \A i : i \in 1..last <=> i \in 1..n \/ i = last
      /\ Len(<<>>) = 0 /\ 1..0 = {}
  OBVIOUS
<1> HIDE DEF n, u, last
<1>2. Touched(u) = Touched(t) \cup Touches(e)
  <2>1. ASSUME NEW x PROVE x \in Touched(u) <=> x \in Touched(t) \/ x \in Touches(e)
    <3>1. x \in Touched(u) <=> \E i \in 1..last : x \in Touches(u[i])
      BY <1>1 DEF Touched
    <3>2. x \in Touched(t) <=> \E i \in 1..n : x \in Touches(t[i])
      BY DEF Touched, n
    <3> QED BY <1>1, <3>1, <3>2
  <2> QED BY <2>1
<1>3. Touched(<<>>) = {}
  BY <1>1 DEF Touched
<1> QED BY <1>2, <1>3 DEF u

\* Replaying the same records brings two memories closer ...
LEMMA ReplayingBringsCloser ==
    ASSUME NEW m, NEW n, NEW T, Alike(m, n, T), NEW t \in Seq(Jobs)
    PROVE  Alike(Replaying(m, t), Replaying(n, t), T \ Touched(t))
PROOF
<1> DEFINE R == Jobs
           P == {u \in Seq(R) : Alike(Replaying(m, u), Replaying(n, u), T \ Touched(u))}
<1>1. <<>> \in P
  <2>1. Touched(<<>>) = {}
    <3>1. <<>> \in Seq({0}) /\ 0 \in {0}
      OBVIOUS
    <3> QED BY <3>1, TouchedUnfolds
  <2>2. T \ Touched(<<>>) = T
    BY <2>1
  <2>3. Alike(Replaying(m, <<>>), Replaying(n, <<>>), T \ Touched(<<>>))
    <3>1. Replaying(m, <<>>) = m /\ Replaying(n, <<>>) = n
      BY ReplayingOfNone
    <3> DEFINE W == T \ Touched(<<>>)
    <3>2. W = T
      BY <2>2
    <3> HIDE DEF W
    <3>3. Alike(Replaying(m, <<>>), Replaying(n, <<>>), W)
      BY <3>1, <3>2
    <3> QED BY <3>3 DEF W
  <2> QED BY <2>3
<1>2. ASSUME NEW u \in Seq(R), NEW e \in R, u \in P PROVE Append(u, e) \in P
  <2> DEFINE a == Replaying(m, u)
             b == Replaying(n, u)
             S == T \ Touched(u)
             v == Append(u, e)
  <2>1. Alike(a, b, S)
    BY <1>2
  <2>2. v \in Seq(R)
    BY <1>2
  <2>3. /\ Replaying(m, v) = ReplayRecord(a, e) /\ Replaying(n, v) = ReplayRecord(b, e)
        /\ Touched(v) = Touched(u) \cup Touches(e)
    <3> HIDE DEF R
    <3> QED BY <1>2, ReplayingUnfolds, TouchedUnfolds
  <2>4. T \ Touched(v) = S \ Touches(e)
    BY <2>3
  <2> HIDE DEF a, b, S, v
  <2>5. Alike(ReplayRecord(a, e), ReplayRecord(b, e), S \ Touches(e))
    BY <1>2, <2>1, RecordBringsCloser
  <2>6. v \in P
    BY <2>2, <2>3, <2>4, <2>5
  <2> QED BY <2>6 DEF v
<1>3. t \in P
  <2> HIDE DEF P, R
  <2>1. t \in Seq(R)
    BY DEF R
  <2> QED BY <1>1, <1>2, <2>1, ByAppending
<1> QED BY <1>3

\* ... and changes no more than they touch.
LEMMA ReplayingTouches ==
    ASSUME NEW m, Sound(m), NEW t \in Seq(Jobs)
    PROVE  Alike(m, Replaying(m, t), Touched(t))
PROOF
<1> DEFINE R == Jobs
           P == {u \in Seq(R) : Alike(m, Replaying(m, u), Touched(u))}
<1>1. <<>> \in P
  <2>1. Alike(m, Replaying(m, <<>>), Touched(<<>>))
    BY AlikeItself, ReplayingOfNone
  <2> QED BY <2>1
<1>2. ASSUME NEW u \in Seq(R), NEW e \in R, u \in P PROVE Append(u, e) \in P
  <2> DEFINE a == Replaying(m, u)
             v == Append(u, e)
  <2>1. Alike(m, a, Touched(u)) /\ Sound(a)
    BY <1>2 DEF Alike
  <2>2. v \in Seq(R)
    BY <1>2
  <2>3. Replaying(m, v) = ReplayRecord(a, e) /\ Touched(v) = Touched(u) \cup Touches(e)
    <3> HIDE DEF R
    <3> QED BY <1>2, ReplayingUnfolds, TouchedUnfolds
  <2> HIDE DEF a, v
  <2>4. Alike(a, ReplayRecord(a, e), Touches(e))
    BY <1>2, <2>1, RecordTouches
  <2>5. Alike(m, ReplayRecord(a, e), Touched(u) \cup Touches(e))
    BY <2>1, <2>4, AlikeOnwards
  <2>6. v \in P
    BY <2>2, <2>3, <2>5
  <2> QED BY <2>6 DEF v
<1>3. t \in P
  <2> HIDE DEF P, R
  <2>1. t \in Seq(R)
    BY DEF R
  <2> QED BY <1>1, <1>2, <2>1, ByAppending
<1> QED BY <1>3

LEMMA ReplayingIsSound ==
    ASSUME NEW m, Sound(m), NEW t \in Seq(Jobs)
    PROVE  Sound(Replaying(m, t))
BY ReplayingTouches DEF Alike

LEMMA ReplayingKeepsAlike ==
    ASSUME NEW m, NEW n, Alike(m, n, {}), NEW t \in Seq(Jobs)
    PROVE  Alike(Replaying(m, t), Replaying(n, t), {})
PROOF
<1>1. {} \ Touched(t) = {}
  OBVIOUS
<1> QED BY <1>1, ReplayingBringsCloser

LEMMA AlikeThrough ==
    ASSUME NEW m, NEW n, NEW o, Alike(m, n, {}), Alike(n, o, {})
    PROVE  Alike(m, o, {})
PROOF
<1>1. {} \cup {} = {}
  OBVIOUS
<1> QED BY <1>1, AlikeOnwards

\* Records replayed over what they have led to lead there again: a snapshot
\* may be ahead of batches that are written after it (compactJournal, store.go).
LEMMA ReplayedAgain ==
    ASSUME NEW m, Sound(m), NEW t \in Seq(Jobs), NEW n, Alike(Replaying(m, t), n, {})
    PROVE  Alike(Replaying(n, t), n, {})
PROOF
<1> DEFINE a == Replaying(m, t)
<1>1. Alike(m, a, Touched(t))
  BY ReplayingTouches
<1>2. Alike(a, Replaying(a, t), {})
  <2>1. Touched(t) \ Touched(t) = {}
    OBVIOUS
  <2> HIDE DEF a
  <2>2. Alike(Replaying(m, t), Replaying(a, t), Touched(t) \ Touched(t))
    BY <1>1, ReplayingBringsCloser
  <2> QED BY <2>1, <2>2 DEF a
<1> HIDE DEF a
<1>3. Alike(a, n, {})
  BY DEF a
<1>4. Alike(Replaying(a, t), Replaying(n, t), {})
  BY <1>3, ReplayingKeepsAlike
<1>5. Alike(Replaying(n, t), Replaying(a, t), {}) /\ Alike(Replaying(a, t), a, {})
  BY <1>2, <1>4, AlikeBothWays
<1>6. Alike(Replaying(n, t), a, {})
  BY <1>5, AlikeThrough
<1> QED BY <1>3, <1>6, AlikeThrough

LEMMA RecordsAreJobs == \A s \in Seq(Records) : s \in Seq(Jobs)
PROOF
<1> SUFFICES ASSUME NEW s \in Seq(Records) PROVE s \in Seq(Jobs)
  OBVIOUS
<1> DEFINE R == Records
           J == Jobs
<1>1. R \subseteq J /\ s \in Seq(R)
  BY DEF Jobs
<1> HIDE DEF R, J
<1>2. s \in Seq(J)
  BY <1>1
<1> QED BY <1>2 DEF J

-----------------------------------------------------------------------------
(* What the records of a batch make of a memory.                           *)

LEMMA PrunedAlike ==
    ASSUME NEW m, NEW c, Sound(c), NEW d, Sound(d), NEW gone,
           Pruned(c, m, gone), Pruned(d, m, gone)
    PROVE  Alike(c, d, {})
BY DEF Alike, Pruned

\* Deletes take their ids, one after the other.
LEMMA DeletesReplayed ==
    ASSUME NEW m, Exact(m), NEW n, Sound(n), NEW k \in 0..Len(m.order)
    PROVE  /\ Sound(Replaying(n, DeleteRecords(m, k)))
           /\ Pruned(Replaying(n, DeleteRecords(m, k)), n, Oldest(m, k))
PROOF
<1> DEFINE batch(j) == DeleteRecords(m, j)
           after(j) == Replaying(n, batch(j))
           P == {j \in 0..k : Sound(after(j)) /\ Pruned(after(j), n, Oldest(m, j))}
<1>0. Exact(n) /\ Len(m.order) \in Nat /\ k \in Nat
  BY DEF Sound, Exact
<1>1. 0 \in P
  <2>1. 1..0 = {}
    OBVIOUS
  <2>2. batch(0) = <<>> /\ Oldest(m, 0) = {}
    BY <2>1 DEF DeleteRecords, Oldest
  <2>3. after(0) = n
    BY <2>2, ReplayingOfNone
  <2>4. Pruned(n, n, {})
    BY DEF Pruned
  <2>5. Sound(after(0)) /\ Pruned(after(0), n, Oldest(m, 0))
    <3> HIDE DEF after, batch
    <3> QED BY <2>2, <2>3, <2>4
  <2>6. 0 \in 0..k
    BY <1>0
  <2> HIDE DEF after
  <2> QED BY <2>5, <2>6
<1>2. ASSUME NEW j \in 0..(k - 1), j \in P PROVE (j + 1) \in P
  <2> DEFINE next == j + 1
             id == m.order[next]
             record == [op |-> "delete", id |-> id]
  <2>1. /\ j \in 0..Len(m.order) /\ next \in 0..Len(m.order) /\ next \in 0..k /\ j \in Nat
        /\ id \in Ids
    BY <1>0, ElementOfSeq DEF Exact
  <2>2. record \in Jobs /\ record.op = "delete" /\ record.id = id
    BY <2>1, RecordsAreTyped DEF Jobs
  <2>3. batch(j) \in Seq(Jobs) /\ batch(next) = Append(batch(j), record)
    <3>1. batch(j) \in Seq(Records) /\ batch(next) = Append(batch(j), record)
      <4> HIDE DEF next
      <4> QED BY <2>1, DeletesInSteps DEF next
    <3> QED BY <3>1, RecordsAreJobs
  <2> DEFINE a == after(j)
             b == after(next)
  <2>4. b = ReplayRecord(a, record)
    <3> DEFINE s == batch(j)
               R == Jobs
    <3>1. s \in Seq(R) /\ record \in R
      BY <2>2, <2>3
    <3> HIDE DEF R, s, record
    <3>2. Replaying(n, Append(s, record)) = ReplayRecord(Replaying(n, s), record)
      BY <3>1, ReplayingUnfolds
    <3> HIDE DEF batch, next
    <3> QED BY <2>3, <3>2 DEF s
  <2>5. b = Forget(a, id)
    <3> HIDE DEF record, a, b
    <3> QED BY <2>2, <2>4, ReplayedRecord
  <2>6. Sound(a) /\ Pruned(a, n, Oldest(m, j))
    BY <1>2
  <2>7. Oldest(m, next) = Oldest(m, j) \cup {id}
    <3>1. 1..next = 1..j \cup {next}
      OBVIOUS
    <3> HIDE DEF next
    <3> QED BY <3>1 DEF Oldest
  <2> HIDE DEF a, b, next, id, record, batch
  <2>8. Sound(b) /\ Pruned(b, a, {id})
    BY <2>5, <2>6, ForgetPrunes, ForgetIsSound DEF Sound
  <2>9. Pruned(b, n, Oldest(m, j) \cup {id})
    BY <2>6, <2>8 DEF Pruned
  <2>10. next \in P
    BY <2>1, <2>7, <2>8, <2>9 DEF b
  <2> QED BY <2>10 DEF next
<1>3. k \in P
  <2> HIDE DEF P
  <2> QED BY <1>0, <1>1, <1>2, Upwards
<1> QED BY <1>3

\* What is dropped from memory is deleted from the journal.
LEMMA DropReplayed ==
    ASSUME NEW m, Sound(m), NEW k \in 0..Len(m.order)
    PROVE  Alike(Replaying(m, DeleteRecords(m, k)), DropOldest(m, k), {})
PROOF
<1> DEFINE a == Replaying(m, DeleteRecords(m, k))
           d == DropOldest(m, k)
<1>1. Exact(m)
  BY DEF Sound
<1>2. Sound(a) /\ Pruned(a, m, Oldest(m, k))
  BY <1>1, DeletesReplayed
<1>3. Sound(d) /\ Pruned(d, m, Oldest(m, k))
  BY <1>1, DropIsSound, DropPrunes DEF Oldest
<1> HIDE DEF a, d
<1>4. Alike(a, d, {})
  BY <1>2, <1>3, PrunedAlike
<1> QED BY <1>4 DEF a, d

\* The records of a put delete what it evicts before they save the entry,
\* which memory has inserted first.
LEMMA EvictedReplayed ==
    ASSUME NEW m, Sound(m), NEW entry \in Entries,
           NEW replaced, replaced = Replace(m, entry), Sound(replaced),
           NEW e \in 0..Len(replaced.order), entry.id \notin Oldest(replaced, e)
    PROVE  Alike(Replace(Replaying(m, DeleteRecords(replaced, e)), entry),
                 DropOldest(replaced, e), {})
PROOF
<1> DEFINE id == entry.id
           a == Replaying(m, DeleteRecords(replaced, e))
           f == Replace(a, entry)
           d == DropOldest(replaced, e)
           gone == Oldest(replaced, e)
<1>1. Exact(replaced) /\ Exact(m)
  BY DEF Sound
<1>2. Sound(a) /\ Pruned(a, m, gone)
  BY <1>1, DeletesReplayed
<1>3. Sound(d) /\ Pruned(d, replaced, gone)
  BY <1>1, DropIsSound, DropPrunes DEF Oldest
<1> HIDE DEF a, d, gone
<1>4. /\ \A x : x \in Stored(replaced) <=> x \in Stored(m) \/ x = id
      /\ replaced.entries[id] = entry
      /\ \A x \in Stored(m) : x # id => replaced.entries[x] = m.entries[x]
      /\ \A x, y : Before(replaced, x, y) <=>
           (Before(m, x, y) /\ x # id /\ y # id) \/ (x \in Stored(m) /\ x # id /\ y = id)
  BY PutReplayed
<1>5. /\ Sound(f)
      /\ \A x : x \in Stored(f) <=> x \in Stored(a) \/ x = id
      /\ f.entries[id] = entry
      /\ \A x \in Stored(a) : x # id => f.entries[x] = a.entries[x]
      /\ \A x, y : Before(f, x, y) <=>
           (Before(a, x, y) /\ x # id /\ y # id) \/ (x \in Stored(a) /\ x # id /\ y = id)
  BY <1>2, PutReplayed
<1> HIDE DEF f
<1>6. id \notin gone
  BY DEF gone
<1> HIDE DEF id
<1>7. /\ \A x : x \in Stored(a) <=> x \in Stored(m) /\ x \notin gone
      /\ \A x \in Stored(a) : a.entries[x] = m.entries[x]
      /\ \A x, y : Before(a, x, y) <=> Before(m, x, y) /\ x \notin gone /\ y \notin gone
  BY <1>2 DEF Pruned
<1>8. /\ \A x : x \in Stored(d) <=> x \in Stored(replaced) /\ x \notin gone
      /\ \A x \in Stored(d) : d.entries[x] = replaced.entries[x]
      /\ \A x, y : Before(d, x, y)
                     <=> Before(replaced, x, y) /\ x \notin gone /\ y \notin gone
  BY <1>3 DEF Pruned
<1>9. \A x : x \in Stored(f) <=> x \in Stored(d)
  BY <1>4, <1>5, <1>6, <1>7, <1>8
<1>10. \A x : x \in Stored(f) => f.entries[x] = d.entries[x]
  <2>1. SUFFICES ASSUME NEW x \in Stored(f) PROVE f.entries[x] = d.entries[x]
    OBVIOUS
  <2>2. CASE x = id
    BY <1>4, <1>5, <1>8, <1>9, <2>2
  <2>3. CASE x # id
    <3>1. x \in Stored(a) /\ x \in Stored(m) /\ x \in Stored(d)
      BY <1>5, <1>7, <1>9, <2>3
    <3>2. f.entries[x] = m.entries[x] /\ d.entries[x] = m.entries[x]
      BY <1>4, <1>5, <1>7, <1>8, <2>3, <3>1
    <3> QED BY <3>2
  <2> QED BY <2>2, <2>3
<1>11. \A x, y : Before(f, x, y) <=> Before(d, x, y)
  BY <1>4, <1>5, <1>6, <1>7, <1>8
<1>12. Alike(f, d, {})
  BY <1>3, <1>5, <1>9, <1>10, <1>11 DEF Alike
<1> QED BY <1>12 DEF f, d, a

\* The records of a change make of memory what the change makes of it.
LEMMA ChangeReplayed ==
    ASSUME MemoryInv, NEW records \in Seq(Records), Changes(records)
    PROVE  Alike(Replaying(memory, records), memory', {})
PROOF
<1>0. Sound(memory)
  BY DEF MemoryInv
<1>1. CASE Leaves(records)
  <2>1. Replaying(memory, records) = memory /\ memory' = memory
    BY <1>1, ReplayingOfNone DEF Leaves
  <2> QED BY <1>0, <2>1, AlikeItself
<1>2. CASE Purges(records)
  BY <1>0, <1>2, DropReplayed DEF Purges
<1>3. CASE Clears(records)
  <2>1. PICK cursor \in Nat : records = <<ClearRecord(cursor)>>
    BY <1>3 DEF Clears
  <2> DEFINE one == ClearRecord(cursor)
  <2>2. Replaying(memory, records) = ReplayRecord(memory, one)
    BY <2>1, ReplayingOfOne
  <2>3. one.op = "clear"
    BY DEF ClearRecord
  <2> HIDE DEF one
  <2>4. Replaying(memory, records) = EmptyMemory
    BY <2>2, <2>3, ReplayedRecord
  <2>5. memory' = EmptyMemory
    BY <1>3 DEF Clears
  <2> QED BY <2>4, <2>5, EmptyIsSound, AlikeItself
<1>4. CASE Puts(records)
  <2> DEFINE Is(k, replaced, e, entry) ==
               /\ Sound(DropOldest(memory, k))
               /\ replaced = Replace(DropOldest(memory, k), entry) /\ Sound(replaced)
               /\ memory' = DropOldest(replaced, e)
               /\ entry.id \notin {replaced.order[i] : i \in 1..e}
               /\ records = DeleteRecords(memory, k) \o DeleteRecords(replaced, e)
                              \o <<PutRecord(entry)>>
  <2>a. PICK entry \in Entries, k \in 0..Len(memory.order) :
          \E replaced : \E e \in 0..Len(replaced.order) : Is(k, replaced, e, entry)
    BY <1>4 DEF Puts
  <2>1. PICK replaced : \E e \in 0..Len(replaced.order) : Is(k, replaced, e, entry)
    BY <2>a
  <2>2. PICK e \in 0..Len(replaced.order) : Is(k, replaced, e, entry)
    BY <2>1
  <2> DEFINE s == DeleteRecords(memory, k)
             t == DeleteRecords(replaced, e)
             one == PutRecord(entry)
             u == <<one>>
             d == DropOldest(memory, k)
             a == Replaying(memory, s)
             R == Jobs
  <2>3. s \in Seq(R) /\ t \in Seq(R) /\ u \in Seq(R) /\ records = (s \o t) \o u
    <3>1. Exact(memory) /\ Exact(replaced)
      BY <1>0, <2>2 DEF Sound
    <3>2. s \in Seq(Records) /\ t \in Seq(Records)
      BY <3>1, DeletesAreTyped
    <3>3. one \in R
      BY RecordsAreTyped DEF Jobs
    <3>4. u \in Seq(R)
      <4> HIDE DEF one, R
      <4> QED BY <3>3
    <3>5. records = (s \o t) \o u
      BY <2>2
    <3> HIDE DEF s, t, u
    <3> QED BY <3>2, <3>4, <3>5, RecordsAreJobs
  <2>4. Alike(a, d, {})
    BY <1>0, DropReplayed
  <2>5. /\ Sound(d) /\ replaced = Replace(d, entry) /\ Sound(replaced)
        /\ entry.id \notin Oldest(replaced, e) /\ memory' = DropOldest(replaced, e)
    BY <2>2 DEF Oldest
  <2> HIDE DEF d
  <2>6. Alike(Replace(Replaying(d, t), entry), DropOldest(replaced, e), {})
    BY <2>5, EvictedReplayed
  <2>7. one \in R /\ one.op = "put" /\ one.entry = entry
    BY RecordsAreTyped DEF PutRecord, Jobs
  <2> HIDE DEF s, a, R, t, one, u
  <2>8. Replaying(memory, records) = Replaying(Replaying(a, t), u)
    <3> DEFINE st == s \o t
    <3>1. st \in Seq(R)
      BY <2>3, ConcatProperties
    <3>2. Replaying(memory, st) = Replaying(Replaying(memory, s), t)
      BY <2>3, ReplayingInParts
    <3> HIDE DEF st
    <3>3. Replaying(memory, st \o u) = Replaying(Replaying(memory, st), u)
      BY <2>3, <3>1, ReplayingInParts
    <3> QED BY <2>3, <3>2, <3>3 DEF st, a
  <2>9. Alike(Replaying(a, t), Replaying(d, t), {})
    BY <2>3, <2>4, ReplayingKeepsAlike DEF R
  <2>10. Alike(Replaying(Replaying(a, t), u), Replaying(Replaying(d, t), u), {})
    BY <2>3, <2>9, ReplayingKeepsAlike DEF R
  <2>11. Replaying(Replaying(d, t), u) = Replace(Replaying(d, t), entry)
    <3> DEFINE b == Replaying(d, t)
    <3> HIDE DEF b
    <3>1. Replaying(b, u) = ReplayRecord(b, one)
      BY ReplayingOfOne DEF u
    <3>2. ReplayRecord(b, one) = Replace(b, entry)
      BY <2>7, ReplayedRecord
    <3> QED BY <3>1, <3>2 DEF b
  <2> HIDE DEF Is
  <2> QED BY <2>5, <2>6, <2>8, <2>10, <2>11, AlikeThrough
<1> QED BY <1>1, <1>2, <1>3, <1>4 DEF Changes

-----------------------------------------------------------------------------
(* A snapshot, replayed.                                                   *)

SnapshotPart(m, j) == [i \in 1..j |-> PutRecord(m.entries[m.order[i]])]

\* The oldest j entries of m, in their order.
StartOf(a, m, j) ==
    /\ Sound(a)
    /\ \A x : x \in Stored(a) <=> \E i \in 1..j : m.order[i] = x
    /\ \A x \in Stored(a) : a.entries[x] = m.entries[x]
    /\ \A x, y : Before(a, x, y) <=> Before(m, x, y) /\ x \in Stored(a) /\ y \in Stored(a)

LEMMA EntriesAreTyped ==
    ASSUME NEW m, Sound(m), NEW i \in 1..Len(m.order)
    PROVE  /\ m.order[i] \in Stored(m)
           /\ m.entries[m.order[i]] \in Entries
           /\ m.entries[m.order[i]].id = m.order[i]
PROOF
<1>1. \A x : x \in Stored(m) <=> \E j \in 1..Len(m.order) : m.order[j] = x
  BY DEF Sound, Exact
<1>2. \A x \in Stored(m) : m.entries[x] \in Entries /\ m.entries[x].id = x
  BY DEF Sound, Typed, Stored
<1> QED BY <1>1, <1>2

LEMMA SnapshotInSteps ==
    ASSUME NEW m, Sound(m), NEW j \in Nat, NEW k \in 0..Len(m.order), k = j + 1
    PROVE  /\ SnapshotPart(m, j) \in Seq(Records)
           /\ SnapshotPart(m, k) \in Seq(Records)
           /\ SnapshotPart(m, k)
                = Append(SnapshotPart(m, j), PutRecord(m.entries[m.order[k]]))
PROOF
<1> DEFINE s == SnapshotPart(m, j)
           t == SnapshotPart(m, k)
           R == Records
           rec(i) == PutRecord(m.entries[m.order[i]])
           record == rec(k)
<1>0. /\ Len(m.order) \in Nat /\ k \in 1..Len(m.order) /\ k \in Nat
      /\ \A i \in 1..k : i \in 1..Len(m.order)
      /\ \A i \in 1..j : i \in 1..k
  BY DEF Sound, Exact
<1>1. \A i \in 1..k : rec(i) \in R
  BY <1>0, EntriesAreTyped, RecordsAreTyped
<1>2. s = [i \in 1..j |-> rec(i)] /\ t = [i \in 1..k |-> rec(i)] /\ k \in 1..k
  BY <1>0 DEF SnapshotPart
<1> HIDE DEF s, t, R, rec
<1>3. s \in Seq(R) /\ t \in Seq(R)
  BY <1>0, <1>1, <1>2
<1>4. /\ Len(s) = j /\ Len(t) = k
      /\ \A i \in 1..j : s[i] = rec(i)
      /\ \A i \in 1..k : t[i] = rec(i)
  BY <1>0, <1>2
<1>5. record \in R
  BY <1>1, <1>2
<1> HIDE DEF record
<1>6. /\ Append(s, record) \in Seq(R) /\ Len(Append(s, record)) = Len(s) + 1
      /\ \A i \in 1..Len(s) : Append(s, record)[i] = s[i]
      /\ Append(s, record)[Len(s) + 1] = record
  BY <1>3, <1>5, AppendProperties
<1>7. ASSUME NEW i \in 1..k PROVE t[i] = Append(s, record)[i]
  <2>1. i \in 1..j \/ i = k
    OBVIOUS
  <2>2. CASE i = k
    BY <1>2, <1>4, <1>6, <2>2 DEF record
  <2>3. CASE i \in 1..j
    BY <1>0, <1>4, <1>6, <2>3
  <2> QED BY <2>1, <2>2, <2>3
<1>8. Len(t) = Len(Append(s, record))
  BY <1>4, <1>6
<1>9. t = Append(s, record)
  BY <1>3, <1>4, <1>6, <1>7, <1>8, SeqEqual
<1> QED BY <1>3, <1>9 DEF s, t, record, R, rec

\* A snapshot gives memory back, entries and order.
LEMMA SnapshotRestores ==
    ASSUME NEW m, Sound(m)
    PROVE  /\ SnapshotOf(m) \in Seq(Records)
           /\ Alike(Replaying(EmptyMemory, SnapshotOf(m)), m, {})
PROOF
<1> DEFINE n == Len(m.order)
           part(j) == SnapshotPart(m, j)
           a(j) == Replaying(EmptyMemory, part(j))
           P == {j \in 0..n : part(j) \in Seq(Records) /\ StartOf(a(j), m, j)}
<1>0. n \in Nat /\ Exact(m)
  BY DEF Sound, Exact
<1>1. 0 \in P
  <2>1. 1..0 = {} /\ 0 \in 0..n
    BY <1>0
  <2>2. part(0) = <<>>
    BY <2>1 DEF SnapshotPart
  <2>3. a(0) = EmptyMemory
    BY <2>2, ReplayingOfNone
  <2>4. StartOf(EmptyMemory, m, 0)
    BY <2>1, EmptyIsSound, NoneBefore DEF StartOf
  <2>5. part(0) \in Seq(Records) /\ StartOf(a(0), m, 0)
    <3>1. <<>> \in Seq(Records)
      OBVIOUS
    <3> HIDE DEF a, part
    <3> QED BY <2>2, <2>3, <2>4, <3>1
  <2> HIDE DEF a, part
  <2> QED BY <2>1, <2>5
<1>2. ASSUME NEW j \in 0..(n - 1), j \in P PROVE (j + 1) \in P
  <2> DEFINE next == j + 1
             id == m.order[next]
             entry == m.entries[id]
             record == PutRecord(entry)
             b == a(j)
             c == a(next)
  <2>1. /\ j \in Nat /\ next \in 0..n /\ next \in 1..n
        /\ \A i : i \in 1..next <=> i \in 1..j \/ i = next
        /\ \A i \in 1..j : i \in 1..n /\ i < next /\ i # next
    BY <1>0
  <2>2. id \in Stored(m) /\ entry \in Entries /\ entry.id = id
    <3> HIDE DEF next
    <3> QED BY <2>1, EntriesAreTyped
  <2>3. /\ part(j) \in Seq(Records) /\ part(next) \in Seq(Records)
        /\ part(next) = Append(part(j), record)
    <3> HIDE DEF next
    <3> QED BY <2>1, SnapshotInSteps DEF next
  <2>4. record \in Records /\ record.op = "put" /\ record.entry = entry
    BY <2>2, RecordsAreTyped DEF PutRecord
  <2>5. c = ReplayRecord(b, record)
    <3> DEFINE s == part(j)
               R == Records
    <3>1. s \in Seq(R) /\ record \in R
      BY <2>3, <2>4
    <3> HIDE DEF R, s, record
    <3>2. Replaying(EmptyMemory, Append(s, record))
            = ReplayRecord(Replaying(EmptyMemory, s), record)
      BY <3>1, ReplayingUnfolds
    <3> HIDE DEF part, next
    <3> QED BY <2>3, <3>2 DEF s
  <2>6. c = Replace(b, entry)
    <3> HIDE DEF record, b, c, entry
    <3> QED BY <2>4, <2>5, ReplayedRecord
  <2>7. StartOf(b, m, j)
    BY <1>2
  <2> HIDE DEF b, c, part
  <2>8. \A x, y \in 1..n : m.order[x] = m.order[y] => x = y
    BY <1>0 DEF Exact
  <2>9. id \notin Stored(b)
    <3> HIDE DEF next
    <3> QED BY <2>1, <2>7, <2>8 DEF StartOf
  <2>10. \A x \in Stored(b) : Before(m, x, id)
    <3> SUFFICES ASSUME NEW x \in Stored(b) PROVE Before(m, x, id)
      OBVIOUS
    <3>1. PICK i \in 1..j : m.order[i] = x
      BY <2>7 DEF StartOf
    <3> HIDE DEF next
    <3> QED BY <2>1, <3>1 DEF Before
  <2>11. \A x, y : Before(m, x, y) => x # y /\ ~Before(m, y, x)
    BY <1>0, BeforeIsTotal
  <2> HIDE DEF entry
  <2>12. /\ Sound(c)
         /\ \A x : x \in Stored(c) <=> x \in Stored(b) \/ x = id
         /\ c.entries[id] = entry
         /\ \A x \in Stored(b) : x # id => c.entries[x] = b.entries[x]
         /\ \A x, y : Before(c, x, y) <=>
              (Before(b, x, y) /\ x # id /\ y # id) \/ (x \in Stored(b) /\ x # id /\ y = id)
    <3>1. Sound(b)
      BY <2>7 DEF StartOf
    <3> QED BY <2>2, <2>6, <3>1, PutReplayed
  <2>13. \A x : x \in Stored(c) <=> \E i \in 1..next : m.order[i] = x
    <3>1. \A x : x \in Stored(b) <=> \E i \in 1..j : m.order[i] = x
      BY <2>7 DEF StartOf
    <3> HIDE DEF next
    <3> QED BY <2>1, <2>12, <3>1
  <2>14. \A x \in Stored(c) : c.entries[x] = m.entries[x]
    BY <2>7, <2>9, <2>12 DEF StartOf, entry
  <2>15. \A x, y : Before(b, x, y)
                     <=> Before(m, x, y) /\ x \in Stored(b) /\ y \in Stored(b)
    BY <2>7 DEF StartOf
  <2> HIDE DEF id
  <2>16. \A x, y : Before(c, x, y)
                     <=> Before(m, x, y) /\ x \in Stored(c) /\ y \in Stored(c)
    BY <2>9, <2>10, <2>11, <2>12, <2>15
  <2>17. StartOf(c, m, next)
    BY <2>12, <2>13, <2>14, <2>16 DEF StartOf
  <2>18. next \in P
    <3> HIDE DEF next
    <3> QED BY <2>1, <2>3, <2>17 DEF c, part
  <2> QED BY <2>18 DEF next
<1>3. n \in P
  <2> HIDE DEF P
  <2> QED BY <1>0, <1>1, <1>2, Upwards
<1>4. part(n) = SnapshotOf(m)
  BY DEF SnapshotPart, SnapshotOf
<1>5. SnapshotOf(m) \in Seq(Records) /\ StartOf(Replaying(EmptyMemory, SnapshotOf(m)), m, n)
  <2>1. part(n) \in Seq(Records) /\ StartOf(a(n), m, n)
    BY <1>3
  <2> HIDE DEF n, part
  <2> QED BY <1>4, <2>1
<1> DEFINE r == Replaying(EmptyMemory, SnapshotOf(m))
<1> HIDE DEF r
<1>6. StartOf(r, m, n)
  BY <1>5 DEF r
<1>7. \A x : x \in Stored(r) <=> x \in Stored(m)
  BY <1>0, <1>6 DEF StartOf, Exact
<1>8. \A x, y : Before(m, x, y) => x \in Stored(m) /\ y \in Stored(m)
  BY <1>0, BeforeIsTotal
<1>9. Alike(r, m, {})
  BY <1>6, <1>7, <1>8 DEF StartOf, Alike
<1> QED BY <1>5, <1>9 DEF r

-----------------------------------------------------------------------------
(* What the start reads.                                                   *)

LEMMA FirstBadFound ==
    ASSUME NEW E, NEW s \in Seq(E)
    PROVE  /\ FirstBad(s) = 0 <=> \A i \in 1..Len(s) : s[i] # Garbage
           /\ FirstBad(s) # 0 => /\ FirstBad(s) \in 1..Len(s)
                                 /\ \A i \in 1..(FirstBad(s) - 1) : s[i] # Garbage
PROOF
<1> DEFINE I == {i \in 1..Len(s) : s[i] = Garbage}
<1>1. FirstBad(s) = IF I # {} THEN Min(I) ELSE 0
  BY Zenon DEF FirstBad, SelectInSeq, SelectInSubSeq
<1>2. I \subseteq Nat /\ 0 \notin I /\ Len(s) \in Nat
  OBVIOUS
<1>3. CASE I = {}
  BY <1>1, <1>3
<1>4. CASE I # {}
  <2> DEFINE first == Min(I)
  <2>1. \E x \in I : \A y \in I : x <= y
    <3> HIDE DEF I
    <3> QED BY <1>2, <1>4, LeastExists
  <2>2. first \in I /\ \A y \in I : first <= y
    <3> HIDE DEF I
    <3> QED BY <2>1, Zenon DEF Min
  <2>3. FirstBad(s) = first
    BY <1>1, <1>4
  <2> HIDE DEF first
  <2>4. first \in 1..Len(s) /\ first # 0
    BY <2>2
  <2>5. \A i \in 1..(first - 1) : s[i] # Garbage
    <3> SUFFICES ASSUME NEW i \in 1..(first - 1), s[i] = Garbage PROVE FALSE
      OBVIOUS
    <3>1. i \in 1..Len(s) /\ i < first
      BY <2>4
    <3>2. i \in I
      BY <3>1
    <3> HIDE DEF I
    <3> QED BY <2>2, <2>4, <3>1, <3>2
  <2>6. ~ \A i \in 1..Len(s) : s[i] # Garbage
    BY <1>4
  <2> HIDE DEF I
  <2> QED BY <2>3, <2>4, <2>5, <2>6
<1> QED BY <1>3, <1>4

\* Whatever a failing write has left, the start keeps records only.
LEMMA LastGoodIsRecords ==
    ASSUME NEW s \in Seq(Records \cup {Garbage})
    PROVE  LastGood(s) \in Seq(Records)
PROOF
<1> DEFINE E == Records \cup {Garbage}
           R == Records
           first == FirstBad(s)
<1>1. /\ first = 0 <=> \A i \in 1..Len(s) : s[i] # Garbage
      /\ first # 0 => /\ first \in 1..Len(s)
                      /\ \A i \in 1..(first - 1) : s[i] # Garbage
  <2>1. s \in Seq(E)
    OBVIOUS
  <2> HIDE DEF E
  <2> QED BY <2>1, FirstBadFound
<1>2. \A i \in 1..Len(s) : s[i] # Garbage => s[i] \in R
  OBVIOUS
<1>3. LastGood(s) = IF first = 0 THEN s ELSE SubSeq(s, 1, first - 1)
  BY DEF LastGood, Decodable
<1>4. s \in Seq(E) /\ Len(s) \in Nat
  OBVIOUS
<1> HIDE DEF first, R, E
<1>5. CASE first = 0
  <2>1. \A i \in 1..Len(s) : s[i] \in R
    BY <1>1, <1>2, <1>5
  <2>2. s = [i \in 1..Len(s) |-> s[i]]
    BY <1>4
  <2>3. s \in Seq(R)
    BY <1>4, <2>1, <2>2
  <2> QED BY <1>3, <1>5, <2>3 DEF R
<1>6. CASE first # 0
  <2> DEFINE n == first - 1
             t == SubSeq(s, 1, n)
  <2>1. n \in Nat /\ \A i \in 1..n : i \in 1..Len(s) /\ s[i] # Garbage
    BY <1>1, <1>4, <1>6
  <2>2. \A i \in 1..n : s[i] \in R
    BY <1>2, <2>1
  <2>3. n \in 0..Len(s)
    BY <1>1, <1>4, <1>6
  <2> HIDE DEF n
  <2>4. t \in Seq(E) /\ Len(t) = n /\ \A i \in 1..n : t[i] = s[i]
    BY <1>4, <2>1, <2>3
  <2> HIDE DEF t
  <2>5. t = [i \in 1..n |-> t[i]]
    BY <2>4
  <2>6. \A i \in 1..n : t[i] \in R
    BY <2>2, <2>4
  <2>7. t \in Seq(R)
    BY <2>1, <2>5, <2>6
  <2> QED BY <1>3, <1>6, <2>7 DEF R, n, t
<1> QED BY <1>5, <1>6

LEMMA RecordsDecode ==
    ASSUME NEW s \in Seq(Records)
    PROVE  Decodable(s) /\ LastGood(s) = s
PROOF
<1> DEFINE R == Records
<1>1. Garbage \notin R
  BY DEF Garbage, Records
<1>2. s \in Seq(R)
  OBVIOUS
<1> HIDE DEF R
<1>3. \A i \in 1..Len(s) : s[i] # Garbage
  BY <1>1, <1>2, ElementOfSeq
<1>4. FirstBad(s) = 0
  BY <1>2, <1>3, FirstBadFound
<1> QED BY <1>4 DEF Decodable, LastGood

LEMMA ReplayedCursorIsNat ==
    ASSUME NEW s \in Seq(Records)
    PROVE  ReplayedCursor(s) \in Nat
PROOF
<1> DEFINE n == Len(s)
           puts == {j \in 1..n : s[j].op = "put"}
           S == {0} \cup {s[i].entry.cursor : i \in puts}
           P == {k \in 0..n : \E b \in Nat : \A i \in puts : i <= k => s[i].entry.cursor <= b}
<1>1. n \in Nat /\ puts \subseteq 1..n
  OBVIOUS
<1>2. \A i \in puts : s[i].entry.cursor \in Nat
  <2> SUFFICES ASSUME NEW i \in puts PROVE s[i].entry.cursor \in Nat
    OBVIOUS
  <2>1. s[i] \in Records /\ s[i].op = "put"
    BY ElementOfSeq
  <2>2. s[i].entry \in Entries
    BY <2>1 DEF Records
  <2> QED BY <2>2 DEF Entries
<1>3. ReplayedCursor(s) = Max(S)
  BY DEF ReplayedCursor
<1>4. 0 \in S
  OBVIOUS
<1>5. \A x \in S : x = 0 \/ \E i \in puts : x = s[i].entry.cursor
  OBVIOUS
<1> HIDE DEF puts, S
<1>6. 0 \in P
  <2>1. \A i \in puts : i \in Nat /\ i # 0
    BY <1>1
  <2>2. \A i \in puts : i <= 0 => s[i].entry.cursor <= 0
    BY <2>1
  <2>3. \E b \in Nat : \A i \in puts : i <= 0 => s[i].entry.cursor <= b
    BY <2>2
  <2>4. 0 \in 0..n
    BY <1>1
  <2> QED BY <2>3, <2>4
<1>7. ASSUME NEW k \in 0..(n - 1), k \in P PROVE (k + 1) \in P
  <2> DEFINE j == k + 1
  <2>1. PICK b \in Nat : \A i \in puts : i <= k => s[i].entry.cursor <= b
    BY <1>7
  <2>2. k \in Nat /\ j \in 0..n /\ \A i \in 1..n : i <= j => i <= k \/ i = j
    BY <1>1
  <2>3. CASE j \in puts
    <3> DEFINE c == s[j].entry.cursor
               both == b + c
    <3>1. c \in Nat
      BY <1>2, <2>3
    <3> HIDE DEF c
    <3>2. both \in Nat /\ c <= both /\ \A x \in Nat : x <= b => x <= both
      BY <3>1
    <3> HIDE DEF j, both
    <3>3. \A i \in puts : i <= j => s[i].entry.cursor <= both
      BY <1>1, <1>2, <2>1, <2>2, <3>2 DEF c
    <3>4. j \in P
      BY <2>2, <3>2, <3>3
    <3> QED BY <3>4 DEF j
  <2>4. CASE j \notin puts
    <3> HIDE DEF j
    <3>3. \A i \in puts : i <= j => s[i].entry.cursor <= b
      BY <1>1, <2>1, <2>2, <2>4
    <3>4. j \in P
      BY <2>2, <3>3
    <3> QED BY <3>4 DEF j
  <2> QED BY <2>3, <2>4
<1>8. n \in P
  <2> HIDE DEF P
  <2> QED BY <1>1, <1>6, <1>7, Upwards
<1>9. PICK b \in Nat : \A i \in puts : s[i].entry.cursor <= b
  <2>1. \E b \in Nat : \A i \in puts : i <= n => s[i].entry.cursor <= b
    BY <1>8
  <2>2. \A i \in puts : i <= n
    BY <1>1
  <2> HIDE DEF P, n
  <2> QED BY <2>1, <2>2
<1>10. S \subseteq Nat /\ S # {} /\ \A x \in S : x <= b
  BY <1>2, <1>4, <1>5, <1>9
<1>11. Max(S) \in S
  BY <1>10, GreatestExists
<1> QED BY <1>3, <1>10, <1>11

-----------------------------------------------------------------------------
(* The journal and memory.                                                 *)

\* What is in the file and what is still to be written give this memory.
Follows(file, unwritten, m) ==
    Alike(Replaying(Replaying(EmptyMemory, file), unwritten), m, {})

(***************************************************************************)
(* The inductive invariant.  JournalCatchesUp says what is true while      *)
(* nothing has failed; DivergenceReported needs the same to hold as long   *)
(* as no error is known or on its way to storageError (Clean), for the     *)
(* file and, during a compaction, for the snapshot that will replace it.   *)
(***************************************************************************)
JournalInv ==
    /\ MemoryInv /\ OpenInv
    /\ faults \in Nat
    /\ BatchesOf(Jobs)
    /\ \A p \in Procs : call[p].at = "persist" => call[p].records # <<>>
    /\ disk \in Seq(Records \cup {Garbage})
    /\ \A p \in Procs : call[p].at = "compact" => call[p].snapshot \in Seq(Records)
    /\ faults = 0 => Clean /\ disk \in Seq(Records)
    /\ Clean /\ handle => fileOpen
    /\ Clean /\ handle /\ ~trimmed =>
         /\ disk \in Seq(Records)
         /\ Follows(disk, Unwritten, memory)
         /\ \A p \in Procs : call[p].at = "compact" =>
              Follows(call[p].snapshot, Unwritten, memory)

\* What is issued is replayed as what it was issued for.
LEMMA FollowsOn ==
    ASSUME NEW file, NEW u \in Seq(Jobs), Follows(file, u, memory), MemoryInv,
           NEW records \in Seq(Records), Changes(records)
    PROVE  Follows(file, u \o records, memory')
PROOF
<1> DEFINE a == Replaying(EmptyMemory, file)
           m == Replaying(a, u)
           J == Jobs
           R == Records
<1>1. Alike(m, memory, {})
  BY DEF Follows
<1>2. Alike(Replaying(memory, records), memory', {})
  BY ChangeReplayed
<1>3. records \in Seq(J) /\ u \in Seq(J)
  BY RecordsAreJobs
<1>4. Replaying(a, u \o records) = Replaying(m, records)
  <2> HIDE DEF J, a
  <2> QED BY <1>3, ReplayingInParts DEF m
<1> HIDE DEF m, a
<1>5. Alike(Replaying(m, records), Replaying(memory, records), {})
  BY <1>1, <1>3, ReplayingKeepsAlike
<1>6. Alike(Replaying(m, records), memory', {})
  BY <1>2, <1>5, AlikeThrough
<1> QED BY <1>4, <1>6 DEF Follows, a

\* A batch that waits has something to write.
LEMMA BatchesNotEmpty ==
    ASSUME DOMAIN call = Procs, NEW p \in Procs, MemoryStep(p)
    PROVE  call'[p].at = "persist" => call'[p].records # <<>>
PROOF
<1> DEFINE Goal == call'[p].at = "persist" => call'[p].records # <<>>
<1>1. ASSUME \E records : IssueBatch(p, records) PROVE Goal
  <2>0. PICK records : IssueBatch(p, records)
    BY <1>1
  <2>1. PICK sees \in HandleSeen :
        IF records # <<>> /\ sees
        THEN /\ storageIssued' = storageIssued + 1
             /\ call' = [call EXCEPT ![p] =
                   [at |-> "persist", sequence |-> storageIssued + 1,
                    records |-> records]]
        ELSE /\ call' = [call EXCEPT ![p] = Idle]
             /\ UNCHANGED storageIssued
    BY <2>0 DEF IssueBatch
  <2>2. CASE records # <<>> /\ sees
    <3>1. call'[p] = [at |-> "persist", sequence |-> storageIssued + 1,
                      records |-> records]
      BY <2>1, <2>2
    <3> QED BY <2>2, <3>1
  <2>3. CASE ~(records # <<>> /\ sees)
    <3>1. call'[p] = Idle
      BY <2>1, <2>3
    <3> QED BY <3>1 DEF Idle
  <2> QED BY <2>2, <2>3
<1>2. ASSUME call'[p].at # "persist" PROVE Goal
  BY <1>2
<1> HIDE DEF Goal
<1>3. CASE \E id \in Ids, size \in Sizes : BeginRecord(p, id, size)
  <2>1. PICK id \in Ids, size \in Sizes : BeginRecord(p, id, size)
    BY <1>3
  <2>2. call'[p].at = "put"
    BY <2>1 DEF BeginRecord
  <2> QED BY <1>2, <2>2
<1>4. CASE PutAfterClose(p)
  <2>1. call'[p].at = "idle"
    BY <1>4 DEF PutAfterClose, Idle
  <2> QED BY <1>2, <2>1
<1>5. CASE PutTooLarge(p) \/ Put(p) \/ Read(p) \/ Clear(p)
  <2>1. \E records : IssueBatch(p, records)
    <3>1. CASE PutTooLarge(p) \/ Read(p)
      BY <3>1 DEF PutTooLarge, Read
    <3>2. CASE Put(p)
      BY <3>2 DEF Put
    <3>3. CASE Clear(p)
      BY <3>3 DEF Clear
    <3> QED BY <1>5, <3>1, <3>2, <3>3
  <2> QED BY <1>1, <2>1 DEF Goal
<1>6. CASE Close(p)
  <2>1. call'[p].at = "closing"
    BY <1>6 DEF Close
  <2> QED BY <1>2, <2>1
<1> QED BY <1>3, <1>4, <1>5, <1>6 DEF MemoryStep, Goal

\* A step under mu: the file stays behind by what the step has issued.
LEMMA MemoryStepFollows ==
    ASSUME TurnsInv, JournalInv, NEW p \in Procs, MemoryStep(p),
           UNCHANGED <<faultVars, journalVars>>
    PROVE  JournalInv'
PROOF
<1>1. DOMAIN call = Procs /\ MemoryInv /\ OpenInv /\ BatchesOf(Jobs)
  BY DEF TurnsInv, JournalInv
<1>2. TurnsInv'
  BY MemoryStepKeeps
<1>3. PICK records \in Seq(Records) : Changes(records) /\ Told(p, records)
  BY <1>1, MemoryStepIssues
<1>4. MemoryInv'
  BY <1>1, MemoryStepIssues
<1>5. UNCHANGED <<storageError, faults, disk, fileOpen, trimmed>>
  BY DEF faultVars, journalVars
<1>6. OpenInv' /\ (Clean' <=> Clean)
  BY <1>1, <1>5, MemoryStepKeepsOpen
<1>7. OnlyMoves(p) /\ handle' = handle /\ call'[p].at # "compact"
  BY <1>1, MemoryStepSpares
<1>8. records \in Seq(Jobs)
  BY RecordsAreJobs
<1>9. BatchesOf(Jobs)'
  <2>1. InPersist(p)' => call'[p].records \in Seq(Jobs)
    BY <1>3, <1>8 DEF Told, StaysOutside
  <2> DEFINE J == Jobs
  <2>2. BatchesOf(J) /\ (InPersist(p)' => call'[p].records \in Seq(J))
    BY <1>1, <2>1
  <2> HIDE DEF J
  <2>3. BatchesOf(J)'
    BY <1>7, <2>2, BatchesMove
  <2> QED BY <2>3 DEF J
<1>10. \A q \in Procs : call'[q].at = "persist" => call'[q].records # <<>>
  <2>1. call'[p].at = "persist" => call'[p].records # <<>>
    BY <1>1, BatchesNotEmpty
  <2>2. \A q \in Procs : call[q].at = "persist" => call[q].records # <<>>
    BY DEF JournalInv
  <2> QED BY <1>7, <2>1, <2>2 DEF OnlyMoves
<1>11. \A q \in Procs : call'[q].at = "compact" => q # p /\ call'[q] = call[q]
  BY <1>7 DEF OnlyMoves
<1>12. ASSUME Clean, handle PROVE Unwritten' = Unwritten \o records /\ Unwritten \in Seq(Jobs)
  <2> DEFINE J == Jobs
  <2>1. BatchesOf(J) /\ records \in Seq(J)
    BY <1>1, <1>8
  <2> HIDE DEF J
  <2>2. Unwritten \in Seq(J)
    BY <2>1, UnwrittenIsSeq
  <2>3. CASE StaysOutside(p) /\ (handle => records = <<>>)
    <3>1. Unwritten' = Unwritten
      BY <2>3, UnwrittenOutside
    <3>2. records = <<>>
      BY <1>12, <2>3
    <3>3. Unwritten \o <<>> = Unwritten
      BY <2>2
    <3> QED BY <2>2, <3>1, <3>2, <3>3 DEF J
  <2>4. CASE TakesNumber(p) /\ call'[p].records = records
    <3>1. call'[p].records \in Seq(J)
      BY <2>1, <2>4
    <3>2. Unwritten' = Unwritten \o call'[p].records
      BY <1>2, <2>1, <2>4, <3>1, UnwrittenTakes
    <3> QED BY <2>2, <2>4, <3>2 DEF J
  <2> QED BY <1>3, <2>3, <2>4 DEF Told
<1>13. ASSUME NEW file, Clean, handle, Follows(file, Unwritten, memory)
      PROVE  Follows(file, Unwritten', memory')
  <2>1. Unwritten' = Unwritten \o records /\ Unwritten \in Seq(Jobs)
    BY <1>12, <1>13
  <2>2. Follows(file, Unwritten \o records, memory')
    BY <1>1, <1>3, <1>13, <2>1, FollowsOn
  <2> QED BY <2>1, <2>2
<1>14. Clean' /\ handle' /\ ~trimmed' =>
         /\ disk' \in Seq(Records)
         /\ Follows(disk', Unwritten', memory')
         /\ \A q \in Procs : call'[q].at = "compact" =>
              Follows(call'[q].snapshot, Unwritten', memory')
  <2> SUFFICES ASSUME Clean', handle', ~trimmed'
               PROVE  /\ disk' \in Seq(Records)
                      /\ Follows(disk', Unwritten', memory')
                      /\ \A q \in Procs : call'[q].at = "compact" =>
                           Follows(call'[q].snapshot, Unwritten', memory')
    OBVIOUS
  <2>1. Clean /\ handle /\ ~trimmed
    BY <1>5, <1>6, <1>7
  <2>2. /\ disk \in Seq(Records)
        /\ Follows(disk, Unwritten, memory)
        /\ \A q \in Procs : call[q].at = "compact" =>
             Follows(call[q].snapshot, Unwritten, memory)
    BY <2>1 DEF JournalInv
  <2>3. Follows(disk', Unwritten', memory')
    BY <1>5, <1>13, <2>1, <2>2
  <2>4. ASSUME NEW q \in Procs, call'[q].at = "compact"
        PROVE  Follows(call'[q].snapshot, Unwritten', memory')
    <3>1. call'[q] = call[q] /\ call[q].at = "compact"
      BY <1>11, <2>4
    <3>2. Follows(call[q].snapshot, Unwritten, memory)
      BY <2>2, <3>1
    <3>3. Follows(call[q].snapshot, Unwritten', memory')
      BY <1>13, <2>1, <3>2
    <3> QED BY <3>1, <3>3
  <2> QED BY <1>5, <2>2, <2>3, <2>4
<1>15. \A q \in Procs : call'[q].at = "compact" => call'[q].snapshot \in Seq(Records)
  <2>1. \A q \in Procs : call[q].at = "compact" => call[q].snapshot \in Seq(Records)
    BY DEF JournalInv
  <2> QED BY <1>11, <2>1
<1>16. /\ faults' \in Nat /\ disk' \in Seq(Records \cup {Garbage})
       /\ faults' = 0 => Clean' /\ disk' \in Seq(Records)
       /\ Clean' /\ handle' => fileOpen'
  <2>1. /\ faults \in Nat /\ disk \in Seq(Records \cup {Garbage})
        /\ faults = 0 => Clean /\ disk \in Seq(Records)
        /\ Clean /\ handle => fileOpen
    BY DEF JournalInv
  <2> QED BY <1>5, <1>6, <1>7, <2>1
<1> QED BY <1>4, <1>6, <1>9, <1>10, <1>14, <1>15, <1>16 DEF JournalInv

\* p goes on with what is left of its batch; the others wait with theirs.
WentOn(p, left, failed) ==
    /\ GoesOn(p, left, failed, Jobs)
    /\ \A q \in Procs : call'[q].at = "persist" => call'[q].records # <<>>

LEMMA JournalGoesOn ==
    ASSUME TurnsInv, JournalInv, NEW p \in Procs, MayWrite(p) \/ call[p].at = "compact",
           NEW left \in Seq(Jobs), NEW failed \in BOOLEAN, Continue(p, left, failed),
           UNCHANGED <<outsideVars, storageDone>>
    PROVE  WentOn(p, left, failed)
PROOF
<1>1. GoesOn(p, left, failed, Jobs)
  <2> DEFINE J == Jobs
  <2>1. MemoryInv /\ BatchesOf(J) /\ left \in Seq(J)
    BY DEF JournalInv
  <2> HIDE DEF J
  <2>2. GoesOn(p, left, failed, J)
    BY <2>1, WriterGoesOn
  <2> QED BY <2>2 DEF J
<1>2. \A q \in Procs : call[q].at = "persist" => call[q].records # <<>>
  BY DEF JournalInv
<1>3. \A q \in Procs : call'[q].at = "persist" => call'[q].records # <<>>
  BY <1>1, <1>2 DEF GoesOn, OnlyMoves
<1> QED BY <1>1, <1>3 DEF WentOn

\* What is left when p is done with its first record.
LEMMA FirstAndRest ==
    ASSUME NEW s \in Seq(Jobs), s # <<>>
    PROVE  /\ Head(s) \in Jobs /\ Tail(s) \in Seq(Jobs)
           /\ s = <<Head(s)>> \o Tail(s)
PROOF
<1> DEFINE J == Jobs
<1>1. s \in Seq(J)
  OBVIOUS
<1> HIDE DEF J
<1>2. Head(s) \in J /\ Tail(s) \in Seq(J) /\ s = <<Head(s)>> \o Tail(s)
  BY <1>1
<1> QED BY <1>2 DEF J

LEMMA WriterHasRecord ==
    ASSUME JournalInv, NEW p \in Procs, MayWrite(p)
    PROVE  /\ call[p].records \in Seq(Jobs) /\ call[p].records # <<>>
           /\ Head(call[p].records) \in Jobs /\ Tail(call[p].records) \in Seq(Jobs)
           /\ call[p].records = <<Head(call[p].records)>> \o Tail(call[p].records)
PROOF
<1>1. call[p].records \in Seq(Jobs) /\ call[p].records # <<>>
  BY DEF MayWrite, HasTurn, InPersist, BatchesOf, JournalInv
<1> QED BY <1>1, FirstAndRest

\* A compaction changes nothing that a replay would tell.
LEMMA CompactionsAreNothing ==
    ASSUME NEW record, NEW length
    PROVE  /\ DueCompactions(record, length) \in Seq(Jobs)
           /\ \A m : Replaying(m, DueCompactions(record, length)) = m
           /\ \A m : Replaying(m, <<Compaction>>) = m
PROOF
<1> DEFINE J == Jobs
           c == Compaction
           one == <<c>>
<1>1. c \in J
  BY DEF Jobs
<1>2. \A m : ReplayRecord(m, c) = m
  BY DEF ReplayRecord, Compaction
<1>3. DueCompactions(record, length) \in {<<>>, one, <<>> \o one, one \o <<>>, one \o one,
                                          <<>> \o <<>>}
  BY DEF DueCompactions
<1> HIDE DEF J, c
<1>4. <<>> \in Seq(J) /\ one \in Seq(J)
  BY <1>1
<1>5. \A m : Replaying(m, one) = m
  BY <1>2, ReplayingOfOne
<1>6. \A m : Replaying(m, <<>>) = m
  BY ReplayingOfNone
<1> HIDE DEF one
<1>7. DueCompactions(record, length) \in {<<>>, one, one \o one}
  <2>1. <<>> \o one = one /\ one \o <<>> = one
    BY <1>4
  <2>2. <<>> \o <<>> = <<>>
    OBVIOUS
  <2> QED BY <1>3, <2>1, <2>2
<1>8. one \o one \in Seq(J) /\ \A m : Replaying(m, one \o one) = m
  <2>1. one \o one \in Seq(J)
    BY <1>4
  <2>2. ASSUME NEW m PROVE Replaying(m, one \o one) = m
    <3>1. Replaying(m, one \o one) = Replaying(Replaying(m, one), one)
      BY <1>4, ReplayingInParts
    <3> QED BY <1>5, <3>1
  <2> QED BY <2>1, <2>2
<1>9. DueCompactions(record, length) \in Seq(J)
  BY <1>4, <1>7, <1>8
<1>10. \A m : Replaying(m, DueCompactions(record, length)) = m
  BY <1>5, <1>6, <1>7, <1>8
<1> QED BY <1>5, <1>9, <1>10 DEF J, one, c

\* A goroutine that goes on without an error leaves file and batches equal to
\* memory; with an error nothing is promised.
LEMMA WentOnFollows ==
    ASSUME JournalInv, NEW p \in Procs, NEW left, NEW failed \in BOOLEAN,
           WentOn(p, left, failed), UNCHANGED <<isClosed, storageError, trimmed, memory>>,
           handle' = handle \/ failed, fileOpen' = fileOpen \/ failed,
           faults' \in Nat, disk' \in Seq(Records \cup {Garbage}),
           faults' = 0 => faults = 0 /\ ~failed /\ disk' \in Seq(Records),
           Clean /\ handle /\ ~trimmed /\ ~failed =>
             disk' \in Seq(Records) /\ Follows(disk', Unwritten', memory)
    PROVE  JournalInv'
PROOF
<1>1. OpenInv' /\ (Clean' => Clean /\ ~failed) /\ (Clean /\ ~failed => Clean')
  BY GoesOnKeepsOpen DEF WentOn, JournalInv
<1>2. /\ MemoryInv' /\ BatchesOf(Jobs)'
      /\ \A q \in Procs : call'[q].at # "compact"
      /\ \A q \in Procs : call'[q].at = "persist" => call'[q].records # <<>>
  BY DEF WentOn, GoesOn
<1>3. faults = 0 => Clean
  BY DEF JournalInv
<1>4. faults' = 0 => Clean' /\ disk' \in Seq(Records)
  BY <1>1, <1>3
<1>5. Clean' /\ handle' => Clean /\ handle /\ ~failed
  BY <1>1
<1>6. Clean' /\ handle' => fileOpen'
  <2>1. Clean /\ handle => fileOpen
    BY DEF JournalInv
  <2> SUFFICES ASSUME Clean', handle' PROVE fileOpen'
    OBVIOUS
  <2>2. Clean /\ handle /\ ~failed
    BY <1>5
  <2>3. fileOpen
    BY <2>1, <2>2
  <2>4. fileOpen' = fileOpen
    BY <2>2
  <2> QED BY <2>3, <2>4, Zenon
<1>7. Clean' /\ handle' /\ ~trimmed' =>
        disk' \in Seq(Records) /\ Follows(disk', Unwritten', memory')
  BY <1>5
<1> QED BY <1>1, <1>2, <1>4, <1>6, <1>7 DEF JournalInv

\* One after the other.
LEMMA ReplayingMoved ==
    ASSUME NEW a, NEW d \in Seq(Jobs), NEW e \in Jobs, NEW due \in Seq(Jobs),
           NEW t \in Seq(Jobs), NEW rest \in Seq(Jobs),
           \A m : Replaying(m, due) = m
    PROVE  Replaying(Replaying(a, d \o <<e>>), (due \o t) \o rest)
             = Replaying(Replaying(a, d), (<<e>> \o t) \o rest)
PROOF
<1> DEFINE J == Jobs
           one == <<e>>
           m == Replaying(a, d)
           n == Replaying(m, one)
<1>1. one \in Seq(J) /\ d \in Seq(J) /\ due \in Seq(J) /\ t \in Seq(J) /\ rest \in Seq(J)
  OBVIOUS
<1> HIDE DEF J, one
<1>2. Replaying(a, d \o one) = n
  BY <1>1, ReplayingInParts
<1>3. due \o t \in Seq(J) /\ one \o t \in Seq(J)
  BY <1>1
<1> HIDE DEF n
<1>4. Replaying(n, (due \o t) \o rest) = Replaying(Replaying(n, due \o t), rest)
  <2> DEFINE u == due \o t
  <2>1. u \in Seq(J)
    BY <1>3
  <2> HIDE DEF u
  <2>2. Replaying(n, u \o rest) = Replaying(Replaying(n, u), rest)
    BY <1>1, <2>1, ReplayingInParts
  <2> QED BY <2>2 DEF u
<1>5. Replaying(n, due \o t) = Replaying(Replaying(n, due), t)
  BY <1>1, ReplayingInParts
<1>6. Replaying(n, due) = n
  OBVIOUS
<1> HIDE DEF m
<1>7. Replaying(m, (one \o t) \o rest) = Replaying(Replaying(m, one \o t), rest)
  <2> DEFINE u == one \o t
  <2>1. u \in Seq(J)
    BY <1>3
  <2> HIDE DEF u
  <2>2. Replaying(m, u \o rest) = Replaying(Replaying(m, u), rest)
    BY <1>1, <2>1, ReplayingInParts
  <2> QED BY <2>2 DEF u
<1>8. Replaying(m, one \o t) = Replaying(Replaying(m, one), t)
  BY <1>1, ReplayingInParts
<1>9. Replaying(m, one) = n
  BY DEF n
<1> QED BY <1>2, <1>4, <1>5, <1>6, <1>7, <1>8, <1>9 DEF one, m

\* A record goes from the batch to the file.
LEMMA AppendRecordFollows ==
    ASSUME TurnsInv, JournalInv, NEW p \in Procs, AppendRecord(p)
    PROVE  JournalInv'
PROOF
<1> DEFINE record == Head(call[p].records)
           rest == Tail(call[p].records)
           due == DueCompactions(record, Len(disk'))
           left == due \o rest
           R == Records
           J == Jobs
<1>1. /\ MayWrite(p) /\ record # Compaction /\ handle /\ fileOpen
      /\ disk' = Append(disk, record)
      /\ Continue(p, left, FALSE)
      /\ UNCHANGED <<outsideVars, handle, storageDone, faultVars, fileOpen, trimmed>>
  BY DEF AppendRecord, NextIsRecord
<1>2. /\ record \in J /\ rest \in Seq(J)
      /\ call[p].records = <<record>> \o rest
  BY <1>1, WriterHasRecord
<1>3. record \in R
  BY <1>1, <1>2 DEF Jobs
<1>4. due \in Seq(J) /\ \A m : Replaying(m, due) = m
  <2> DEFINE n == Len(disk')
  <2> HIDE DEF n, record
  <2> QED BY CompactionsAreNothing DEF n
<1>5. left \in Seq(J)
  <2> HIDE DEF due, rest, J
  <2> QED BY <1>2, <1>4
<1>6. /\ UNCHANGED <<isClosed, storageError, trimmed, memory, faults, handle, fileOpen>>
      /\ UNCHANGED <<outsideVars, storageDone>>
  BY <1>1 DEF outsideVars, faultVars, memoryVars
<1> HIDE DEF record, rest, due
<1>7. WentOn(p, left, FALSE)
  <2> HIDE DEF left
  <2> QED BY <1>1, <1>5, <1>6, JournalGoesOn DEF J
<1>8. PICK more \in Seq(J) : /\ Unwritten = call[p].records \o more
                             /\ Unwritten' = left \o more
  BY <1>7 DEF WentOn, GoesOn
<1>9. /\ disk \in Seq(R \cup {Garbage}) /\ faults \in Nat
      /\ faults = 0 => disk \in Seq(R)
      /\ Clean /\ handle /\ ~trimmed =>
           disk \in Seq(R) /\ Follows(disk, Unwritten, memory)
  BY DEF JournalInv
<1> HIDE DEF R
<1>10. disk' \in Seq(R \cup {Garbage}) /\ (disk \in Seq(R) => disk' \in Seq(R))
  BY <1>1, <1>3, <1>9
<1>11. ASSUME Clean, handle, ~trimmed
       PROVE  Follows(disk', Unwritten', memory)
  <2>1. disk \in Seq(R) /\ Follows(disk, Unwritten, memory)
    BY <1>9, <1>11
  <2>2. disk \in Seq(J)
    BY <2>1, RecordsAreJobs DEF R
  <2> HIDE DEF J
  <2>3. disk' = disk \o <<record>>
    BY <1>1, <1>2, <2>2
  <2> DEFINE a == EmptyMemory
  <2> HIDE DEF a
  <2>4. Replaying(Replaying(a, disk \o <<record>>), (due \o rest) \o more)
          = Replaying(Replaying(a, disk), (<<record>> \o rest) \o more)
    BY <1>2, <1>4, <1>8, <2>2, ReplayingMoved DEF J
  <2>5. Alike(Replaying(Replaying(a, disk), Unwritten), memory, {})
    BY <2>1 DEF Follows, a
  <2>6. Alike(Replaying(Replaying(a, disk'), Unwritten'), memory, {})
    BY <1>2, <1>8, <2>3, <2>4, <2>5
  <2> QED BY <2>6 DEF Follows, a
<1> HIDE DEF left
<1>12. ((handle' = handle) \/ FALSE) /\ ((fileOpen' = fileOpen) \/ FALSE)
  BY <1>1, <1>6
<1>13. faults' \in Nat /\ (faults' = 0 => faults = 0 /\ ~FALSE /\ disk' \in Seq(Records))
  BY <1>6, <1>9, <1>10 DEF R
<1>14. Clean /\ handle /\ ~trimmed /\ ~FALSE =>
         disk' \in Seq(Records) /\ Follows(disk', Unwritten', memory)
  BY <1>9, <1>10, <1>11 DEF R
<1>15. disk' \in Seq(Records \cup {Garbage})
  BY <1>10 DEF R
<1> QED BY <1>6, <1>7, <1>12, <1>13, <1>14, <1>15, WentOnFollows

\* With an error in hand nothing is promised of the file.
LEMMA FailingFollows ==
    ASSUME TurnsInv, JournalInv, NEW p \in Procs, MayWrite(p) \/ call[p].at = "compact",
           NEW left \in Seq(Jobs), Continue(p, left, TRUE),
           UNCHANGED <<outsideVars, storageDone, storageError, trimmed>>,
           faults' \in Nat, faults' # 0, disk' \in Seq(Records \cup {Garbage})
    PROVE  JournalInv'
PROOF
<1>1. WentOn(p, left, TRUE)
  BY JournalGoesOn
<1>2. UNCHANGED <<isClosed, storageError, trimmed, memory>>
  BY DEF outsideVars, memoryVars
<1>3. (handle' = handle \/ TRUE) /\ (fileOpen' = fileOpen \/ TRUE)
  OBVIOUS
<1>4. faults' = 0 => faults = 0 /\ ~TRUE /\ disk' \in Seq(Records)
  OBVIOUS
<1>5. Clean /\ handle /\ ~trimmed /\ ~TRUE =>
        disk' \in Seq(Records) /\ Follows(disk', Unwritten', memory)
  OBVIOUS
<1> QED BY <1>1, <1>2, <1>3, <1>4, <1>5, WentOnFollows

LEMMA AppendFailsFollows ==
    ASSUME TurnsInv, JournalInv, NEW p \in Procs, AppendFails(p)
    PROVE  JournalInv'
PROOF
<1> DEFINE record == Head(call[p].records)
           rest == Tail(call[p].records)
           F == Records \cup {Garbage}
<1>1. /\ MayWrite(p) /\ record # Compaction /\ handle
      /\ Continue(p, rest, TRUE)
      /\ UNCHANGED <<outsideVars, handle, storageDone, storageError, restarts,
                     fileOpen, trimmed>>
  BY DEF AppendFails, NextIsRecord
<1>2. record \in Records /\ rest \in Seq(Jobs)
  BY <1>1, WriterHasRecord DEF Jobs
<1>3. /\ faults \in Nat /\ disk \in Seq(F) /\ (faults = 0 => Clean)
      /\ Clean /\ handle => fileOpen
  BY DEF JournalInv
<1>4. faults' \in Nat /\ faults' # 0 /\ disk' \in Seq(F)
  <2>1. CASE fileOpen
    <3>1. PICK part \in {<<>>, <<Garbage>>, <<record>>} : disk' = disk \o part
      BY <2>1 DEF AppendFails
    <3>2. faults' = faults + 1
      BY <2>1 DEF AppendFails, Fault
    <3>3. part \in Seq(F)
      <4> DEFINE g == Garbage
      <4>1. g \in F /\ record \in F
        BY <1>2
      <4> HIDE DEF F, g, record
      <4>2. <<>> \in Seq(F) /\ <<g>> \in Seq(F) /\ <<record>> \in Seq(F)
        BY <4>1
      <4> QED BY <3>1, <4>2 DEF g
    <3> HIDE DEF F
    <3>4. disk' \in Seq(F)
      BY <1>3, <3>1, <3>3
    <3> QED BY <1>3, <3>2, <3>4
  <2>2. CASE ~fileOpen
    <3>1. disk' = disk /\ faults' = faults
      BY <2>2 DEF AppendFails
    <3>2. faults # 0
      BY <1>1, <1>3, <2>2
    <3> QED BY <1>3, <3>1, <3>2
  <2> QED BY <2>1, <2>2
<1>5. UNCHANGED <<outsideVars, storageDone, storageError, trimmed>>
  BY <1>1
<1> HIDE DEF rest
<1> QED BY <1>1, <1>2, <1>4, <1>5, FailingFollows

\* Without a file there is nothing to keep.
LEMMA AppendNowhereFollows ==
    ASSUME TurnsInv, JournalInv, NEW p \in Procs, AppendNowhere(p)
    PROVE  JournalInv'
PROOF
<1> DEFINE rest == Tail(call[p].records)
<1>1. /\ MayWrite(p) /\ ~handle /\ Continue(p, rest, FALSE)
      /\ UNCHANGED <<outsideVars, handle, storageDone, faultVars, journalVars>>
  BY DEF AppendNowhere
<1>2. rest \in Seq(Jobs)
  BY <1>1, WriterHasRecord
<1>3. UNCHANGED <<outsideVars, storageDone>>
  BY <1>1
<1> HIDE DEF rest
<1>4. WentOn(p, rest, FALSE)
  BY <1>1, <1>2, <1>3, JournalGoesOn
<1>5. UNCHANGED <<isClosed, storageError, trimmed, memory>>
  BY <1>1 DEF outsideVars, memoryVars, faultVars, journalVars
<1>6. ((handle' = handle) \/ FALSE) /\ ((fileOpen' = fileOpen) \/ FALSE)
  BY <1>1 DEF journalVars
<1>7. /\ faults' \in Nat /\ disk' \in Seq(Records \cup {Garbage})
      /\ faults' = 0 => faults = 0 /\ ~FALSE /\ disk' \in Seq(Records)
  BY <1>1 DEF JournalInv, faultVars, journalVars
<1>8. Clean /\ handle /\ ~trimmed /\ ~FALSE =>
        disk' \in Seq(Records) /\ Follows(disk', Unwritten', memory)
  BY <1>1
<1> QED BY <1>4, <1>5, <1>6, <1>7, <1>8, WentOnFollows

LEMMA CompacterHasBatch ==
    ASSUME JournalInv, NEW p \in Procs, call[p].at = "compact"
    PROVE  /\ call[p].records \in Seq(Jobs) /\ call[p].snapshot \in Seq(Records)
           /\ call[p].snapshot \in Seq(Records \cup {Garbage})
PROOF
<1>1. call[p].records \in Seq(Jobs) /\ call[p].snapshot \in Seq(Records)
  BY DEF JournalInv, BatchesOf, InPersist
<1> QED BY <1>1

\* The snapshot becomes the file.
LEMMA InstallSnapshotFollows ==
    ASSUME TurnsInv, JournalInv, NEW p \in Procs, InstallSnapshot(p)
    PROVE  JournalInv'
PROOF
<1> DEFINE left == call[p].records
           J == Jobs
<1>1. /\ call[p].at = "compact" /\ disk' = call[p].snapshot
      /\ Continue(p, left, FALSE)
      /\ UNCHANGED <<outsideVars, handle, storageDone, faultVars, fileOpen, trimmed>>
  BY DEF InstallSnapshot
<1>2. left \in Seq(J) /\ disk' \in Seq(Records) /\ disk' \in Seq(Records \cup {Garbage})
  BY <1>1, CompacterHasBatch
<1>3. UNCHANGED <<outsideVars, storageDone>>
  BY <1>1
<1> HIDE DEF left
<1>4. WentOn(p, left, FALSE)
  BY <1>1, <1>2, <1>3, JournalGoesOn
<1>5. UNCHANGED <<isClosed, storageError, trimmed, memory>>
  BY <1>1 DEF outsideVars, memoryVars, faultVars
<1>6. ((handle' = handle) \/ FALSE) /\ ((fileOpen' = fileOpen) \/ FALSE)
  BY <1>1
<1>7. faults' \in Nat /\ (faults' = 0 => faults = 0 /\ ~FALSE /\ disk' \in Seq(Records))
  BY <1>1, <1>2 DEF JournalInv, faultVars
<1>8. Unwritten' = Unwritten
  <2>1. PICK more \in Seq(J) : /\ Unwritten = call[p].records \o more
                               /\ Unwritten' = left \o more
    BY <1>4 DEF WentOn, GoesOn
  <2> QED BY <2>1 DEF left
<1>9. Clean /\ handle /\ ~trimmed /\ ~FALSE =>
        disk' \in Seq(Records) /\ Follows(disk', Unwritten', memory)
  BY <1>1, <1>2, <1>8 DEF JournalInv
<1> QED BY <1>2, <1>4, <1>5, <1>6, <1>7, <1>9, WentOnFollows

LEMMA CompactionFailsFollows ==
    ASSUME TurnsInv, JournalInv, NEW p \in Procs, CompactionFails(p)
    PROVE  JournalInv'
PROOF
<1> DEFINE batch == call[p].records
           left == IF batch # <<>> /\ Head(batch) = Compaction THEN Tail(batch) ELSE batch
           J == Jobs
<1>1. /\ call[p].at = "compact" /\ Continue(p, left, TRUE)
      /\ UNCHANGED <<outsideVars, storageDone, storageError, restarts, trimmed>>
      /\ faults' = faults + 1
      /\ disk' = disk \/ disk' = call[p].snapshot
  BY DEF CompactionFails, Fault
<1>2. batch \in Seq(J) /\ call[p].snapshot \in Seq(Records \cup {Garbage})
  BY <1>1, CompacterHasBatch
<1>3. left \in Seq(J)
  BY <1>2, FirstAndRest
<1>4. /\ faults' \in Nat /\ faults' # 0
      /\ disk' \in Seq(Records \cup {Garbage})
  BY <1>1, <1>2 DEF JournalInv
<1>5. UNCHANGED <<outsideVars, storageDone, storageError, trimmed>>
  BY <1>1
<1> HIDE DEF left
<1> QED BY <1>1, <1>3, <1>4, <1>5, FailingFollows

\* The snapshot is memory with the records still to be written applied: when
\* they are written after it, they are replayed again.
LEMMA SnapshotFollows ==
    ASSUME NEW file, file \in Seq(Jobs), NEW u \in Seq(Jobs), MemoryInv,
           Follows(file, u, memory)
    PROVE  Follows(SnapshotOf(memory), u, memory)
PROOF
<1> DEFINE m == Replaying(EmptyMemory, file)
           s == SnapshotOf(memory)
           n == Replaying(EmptyMemory, s)
<1>1. Sound(memory)
  BY DEF MemoryInv
<1>2. Alike(n, memory, {})
  BY <1>1, SnapshotRestores
<1>3. Sound(m)
  BY EmptyIsSound, ReplayingIsSound
<1>4. Alike(Replaying(m, u), memory, {})
  BY DEF Follows
<1> HIDE DEF m, n
<1>5. Alike(Replaying(memory, u), memory, {})
  BY <1>3, <1>4, ReplayedAgain
<1>6. Alike(Replaying(n, u), Replaying(memory, u), {})
  BY <1>2, ReplayingKeepsAlike
<1>7. Alike(Replaying(n, u), memory, {})
  BY <1>5, <1>6, AlikeThrough
<1> QED BY <1>7 DEF Follows, n

LEMMA TakeSnapshotFollows ==
    ASSUME TurnsInv, JournalInv, NEW p \in Procs, TakeSnapshot(p)
    PROVE  JournalInv'
PROOF
<1> DEFINE rest == Tail(call[p].records)
           snapshot == SnapshotOf(memory)
           J == Jobs
<1>1. /\ call[p].at = "io" /\ call[p].records # <<>> /\ Head(call[p].records) = Compaction
      /\ handle
      /\ call' = [call EXCEPT ![p] =
           [at |-> "compact", sequence |-> call[p].sequence,
            records |-> rest, failed |-> call[p].failed, snapshot |-> snapshot]]
      /\ UNCHANGED <<outsideVars, handle, storageDone, faultVars, journalVars>>
  BY DEF TakeSnapshot
<1>2. /\ DOMAIN call = Procs /\ MemoryInv /\ OpenInv /\ BatchesOf(J)
      /\ MayWrite(p)
  BY <1>1 DEF TurnsInv, JournalInv, MayWrite
<1>3. /\ storageIssued' = storageIssued /\ storageDone' = storageDone
      /\ UNCHANGED <<memory, nextCursor, now, isClosed, handle>>
      /\ UNCHANGED <<storageError, faults, disk, fileOpen, trimmed>>
  BY <1>1 DEF outsideVars, memoryVars, faultVars, journalVars
<1>4. OnlyMoves(p)
  BY <1>1, <1>2 DEF OnlyMoves
<1> HIDE DEF rest, snapshot
<1>5. /\ call'[p].at = "compact" /\ call'[p].sequence = call[p].sequence
      /\ call'[p].records = rest /\ call'[p].failed = call[p].failed
      /\ call'[p].snapshot = snapshot
  BY <1>1, <1>2
<1>6. /\ rest \in Seq(J) /\ call[p].records = <<Compaction>> \o rest
  BY <1>1, <1>2, WriterHasRecord DEF rest
<1>7. TurnsInv'
  BY <1>2, <1>3, <1>4, <1>5, ContinueKeeps
<1>8. WritesInTurn(p)
  BY <1>1, <1>3, <1>4, <1>5
     DEF WritesInTurn, Turn, InPersist, TurnsInv, HoldsStorageMu
<1>9. MemoryInv'
  BY <1>2, <1>3, <1>4, <1>5, OutsideKeepsMemory
<1>10. BatchesOf(Jobs)' /\ \E more \in Seq(J) : /\ Unwritten = call[p].records \o more
                                                /\ Unwritten' = rest \o more
  <2>1. BatchesOf(J) /\ call'[p].records \in Seq(J)
    BY <1>2, <1>5, <1>6
  <2> HIDE DEF J
  <2>2. BatchesOf(J)'
    BY <1>4, <2>1, BatchesMove
  <2>3. \E more \in Seq(J) : /\ Unwritten = call[p].records \o more
                             /\ Unwritten' = call'[p].records \o more
    BY <1>7, <1>8, <2>1, UnwrittenWrites
  <2> QED BY <1>5, <2>2, <2>3 DEF J
<1>11. HasError(p)' <=> HasError(p)
  <2>1. HasError(p)' <=> call'[p].failed
    BY <1>5 DEF HasError, HoldsStorageMu
  <2>2. HasError(p) <=> call[p].failed
    BY <1>1 DEF HasError, HoldsStorageMu
  <2>3. call'[p].failed = call[p].failed
    BY <1>5
  <2> QED BY <2>1, <2>2, <2>3, Zenon
<1>12. OpenInv' /\ (Clean' => Clean)
  <2>1. call'[p].at # "closing"
    BY <1>5
  <2> QED BY <1>2, <1>3, <1>4, <1>11, <2>1, GoingOnKeepsOpen
<1>13. Clean => Clean'
  <2> SUFFICES ASSUME Clean PROVE Clean'
    OBVIOUS
  <2>1. ~HasError(p)'
    BY <1>11 DEF Clean
  <2> QED BY <1>3, <1>4, <2>1, StaysClean
<1>14. \A q \in Procs : call'[q].at = "persist" => call'[q].records # <<>>
  <2>1. \A q \in Procs : call[q].at = "persist" => call[q].records # <<>>
    BY DEF JournalInv
  <2> QED BY <1>4, <1>5, <2>1 DEF OnlyMoves
<1>15. \A q \in Procs : call'[q].at = "compact" => q = p
  <2> SUFFICES ASSUME NEW q \in Procs, q # p PROVE call'[q].at # "compact"
    OBVIOUS
  <2>1. ~HoldsStorageMu(q)
    BY <1>1, TurnsInvSuffices DEF OneWriterInTurn, HoldsStorageMu
  <2> QED BY <1>4, <2>1 DEF OnlyMoves, HoldsStorageMu
<1>16. \A q \in Procs : call'[q].at = "compact" => call'[q].snapshot = snapshot
  BY <1>5, <1>15
<1>17. snapshot \in Seq(Records)
  BY <1>2, SnapshotRestores DEF snapshot, MemoryInv
<1>18. ASSUME Clean, handle, ~trimmed
       PROVE  /\ disk \in Seq(Records)
              /\ Follows(disk, Unwritten', memory)
              /\ Follows(snapshot, Unwritten', memory)
  <2>1. disk \in Seq(Records) /\ Follows(disk, Unwritten, memory)
    BY <1>18 DEF JournalInv
  <2>2. PICK more \in Seq(J) : /\ Unwritten = call[p].records \o more
                               /\ Unwritten' = rest \o more
    BY <1>10
  <2> DEFINE one == <<Compaction>>
             m == Replaying(EmptyMemory, disk)
             u == rest \o more
  <2>3. one \in Seq(J) /\ Replaying(m, one) = m
    <3>1. \A n : Replaying(n, <<Compaction>>) = n
      BY CompactionsAreNothing
    <3>2. one \in Seq(J)
      <4> DEFINE c == Compaction
      <4>1. c \in J
        BY DEF Jobs
      <4> HIDE DEF J, c
      <4> QED BY <4>1 DEF c
    <3> QED BY <3>1, <3>2
  <2> HIDE DEF J, one, m
  <2>4. u \in Seq(J) /\ Unwritten = one \o u
    BY <1>6, <2>2, <2>3 DEF one
  <2> HIDE DEF u
  <2>5. Replaying(m, one \o u) = Replaying(m, u)
    <3>1. Replaying(m, one \o u) = Replaying(Replaying(m, one), u)
      BY <2>3, <2>4, ReplayingInParts
    <3> QED BY <2>3, <3>1
  <2>6. Follows(disk, u, memory)
    BY <2>1, <2>4, <2>5 DEF Follows, m
  <2>7. disk \in Seq(Jobs) /\ u \in Seq(Jobs)
    BY <2>1, <2>4, RecordsAreJobs DEF J
  <2>8. Follows(snapshot, u, memory)
    BY <1>2, <2>6, <2>7, SnapshotFollows DEF snapshot
  <2> QED BY <2>1, <2>2, <2>6, <2>8 DEF u
<1>19. Clean' /\ handle' /\ ~trimmed' =>
         /\ disk' \in Seq(Records)
         /\ Follows(disk', Unwritten', memory')
         /\ \A q \in Procs : call'[q].at = "compact" =>
              Follows(call'[q].snapshot, Unwritten', memory')
  <2> SUFFICES ASSUME Clean', handle', ~trimmed'
               PROVE  /\ disk' \in Seq(Records)
                      /\ Follows(disk', Unwritten', memory')
                      /\ \A q \in Procs : call'[q].at = "compact" =>
                           Follows(call'[q].snapshot, Unwritten', memory')
    OBVIOUS
  <2>1. Clean /\ handle /\ ~trimmed
    BY <1>3, <1>12
  <2>2. /\ disk \in Seq(Records)
        /\ Follows(disk, Unwritten', memory)
        /\ Follows(snapshot, Unwritten', memory)
    BY <1>18, <2>1
  <2> QED BY <1>3, <1>16, <2>2
<1>20. /\ faults' \in Nat /\ disk' \in Seq(Records \cup {Garbage})
       /\ faults' = 0 => Clean' /\ disk' \in Seq(Records)
       /\ Clean' /\ handle' => fileOpen'
  <2>1. /\ faults \in Nat /\ disk \in Seq(Records \cup {Garbage})
        /\ faults = 0 => Clean /\ disk \in Seq(Records)
        /\ Clean /\ handle => fileOpen
    BY DEF JournalInv
  <2> QED BY <1>3, <1>12, <1>13, <2>1
<1>21. \A q \in Procs : call'[q].at = "compact" => call'[q].snapshot \in Seq(Records)
  BY <1>16, <1>17
<1> QED BY <1>9, <1>10, <1>12, <1>14, <1>19, <1>20, <1>21 DEF JournalInv

\* The end of persist and of close.
LEMMA LeavingFollows ==
    ASSUME TurnsInv, JournalInv, NEW p \in Procs,
           \/ (FinishPersist(p) \/ ReportError(p)) /\ UNCHANGED journalVars
           \/ CloseJournal(p)
    PROVE  JournalInv'
PROOF
<1> DEFINE closed == ~fileOpen
<1>1. /\ DOMAIN call = Procs /\ MemoryInv /\ OpenInv /\ BatchesOf(Jobs)
      /\ faults \in Nat /\ disk \in Seq(Records \cup {Garbage})
      /\ faults = 0 => Clean /\ disk \in Seq(Records)
      /\ Clean /\ handle => fileOpen
  BY DEF TurnsInv, JournalInv
<1>2. FinishPersist(p) \/ ReportError(p) \/ CloseStorage(p, closed)
  BY DEF CloseJournal
<1>3. UNCHANGED <<disk, trimmed>> /\ (handle' => fileOpen' = fileOpen)
  <2>1. CASE UNCHANGED journalVars
    BY <2>1 DEF journalVars
  <2>2. CASE CloseJournal(p)
    <3>1. handle' = FALSE /\ UNCHANGED <<disk, trimmed>>
      BY <2>2 DEF CloseJournal, CloseStorage
    <3> QED BY <3>1
  <2> QED BY <2>1, <2>2
<1>4. faults' = 0 /\ Clean => Clean'
  <2> SUFFICES ASSUME faults' = 0, Clean PROVE Clean'
    OBVIOUS
  <2>1. ~(handle /\ closed)
    BY <1>1
  <2> HIDE DEF closed
  <2> QED BY <1>1, <1>2, <2>1, LeavingStaysClean
<1> HIDE DEF closed
<1>5. Left(p, Jobs)
  <2> DEFINE J == Jobs
  <2>1. BatchesOf(J)
    BY <1>1
  <2> HIDE DEF J
  <2>2. Left(p, J)
    BY <1>1, <1>2, <2>1, LeavingLeft
  <2> QED BY <2>2 DEF J
<1>6. /\ OnlyMoves(p) /\ call'[p].at \notin {"persist", "io", "compact"}
      /\ MemoryInv' /\ OpenInv' /\ BatchesOf(Jobs)'
      /\ Clean' => Clean
      /\ Unwritten' = Unwritten /\ memory' = memory
      /\ handle' => handle
      /\ faults' \in Nat /\ (faults' = 0 => faults = 0)
  BY <1>1, <1>5 DEF Left
<1>7. \A q \in Procs : call'[q].at \in {"persist", "compact"} => call'[q] = call[q]
  BY <1>6 DEF OnlyMoves
<1>8. \A q \in Procs : call'[q].at = "persist" => call'[q].records # <<>>
  BY <1>7 DEF JournalInv
<1>9. \A q \in Procs : call'[q].at = "compact" => call'[q].snapshot \in Seq(Records)
  <2>1. \A q \in Procs : call[q].at = "compact" => call[q].snapshot \in Seq(Records)
    BY DEF JournalInv
  <2> QED BY <1>7, <2>1
<1>10. /\ disk' \in Seq(Records \cup {Garbage})
       /\ faults' = 0 => Clean' /\ disk' \in Seq(Records)
  BY <1>1, <1>3, <1>4, <1>6
<1>11. Clean' /\ handle' => fileOpen'
  <2> SUFFICES ASSUME Clean', handle' PROVE fileOpen'
    OBVIOUS
  <2>1. fileOpen' = fileOpen /\ fileOpen
    BY <1>1, <1>3, <1>6
  <2> QED BY <2>1, Zenon
<1>12. Clean' /\ handle' /\ ~trimmed' =>
         /\ disk' \in Seq(Records)
         /\ Follows(disk', Unwritten', memory')
         /\ \A q \in Procs : call'[q].at = "compact" =>
              Follows(call'[q].snapshot, Unwritten', memory')
  <2> SUFFICES ASSUME Clean', handle', ~trimmed'
               PROVE  /\ disk' \in Seq(Records)
                      /\ Follows(disk', Unwritten', memory')
                      /\ \A q \in Procs : call'[q].at = "compact" =>
                           Follows(call'[q].snapshot, Unwritten', memory')
    OBVIOUS
  <2>1. Clean /\ handle /\ ~trimmed
    BY <1>3, <1>6
  <2>2. /\ disk \in Seq(Records)
        /\ Follows(disk, Unwritten, memory)
        /\ \A q \in Procs : call[q].at = "compact" =>
             Follows(call[q].snapshot, Unwritten, memory)
    BY <2>1 DEF JournalInv
  <2> QED BY <1>3, <1>6, <1>7, <2>2
<1> QED BY <1>6, <1>8, <1>9, <1>10, <1>11, <1>12 DEF JournalInv

\* What a start makes of the records it has read, when it drops nothing.
LEMMA NothingDropped ==
    ASSUME NEW m, Sound(m)
    PROVE  Alike(m, DropOldest(DropOldest(m, 0), 0), {})
PROOF
<1>0. Exact(m)
  BY DEF Sound
<1>1. ASSUME NEW d, Sound(d) PROVE Sound(DropOldest(d, 0)) /\ Alike(d, DropOldest(d, 0), {})
  <2> DEFINE c == DropOldest(d, 0)
             gone == {d.order[i] : i \in 1..0}
  <2>1. Exact(d) /\ 0 \in 0..Len(d.order) /\ gone = {}
    BY <1>1 DEF Sound, Exact
  <2>2. Sound(c)
    BY <1>1, <2>1, DropIsSound
  <2>3. Pruned(c, d, gone)
    BY <2>1, DropPrunes
  <2> HIDE DEF c
  <2>4. Pruned(d, d, {})
    BY DEF Pruned
  <2>5. Alike(d, c, {})
    BY <1>1, <2>1, <2>2, <2>3, <2>4, PrunedAlike
  <2> QED BY <2>2, <2>5 DEF c
<1>2. Sound(DropOldest(m, 0)) /\ Alike(m, DropOldest(m, 0), {})
  BY <1>1
<1>3. Alike(DropOldest(m, 0), DropOldest(DropOldest(m, 0), 0), {})
  <2> DEFINE c == DropOldest(m, 0)
  <2> HIDE DEF c
  <2>1. Sound(c)
    BY <1>2 DEF c
  <2>2. Alike(c, DropOldest(c, 0), {})
    BY <1>1, <2>1
  <2> QED BY <2>2 DEF c
<1> QED BY <1>2, <1>3, AlikeThrough

\* A start makes of the file what it finds there (openJournalStorage).
LEMMA RestartFollows ==
    ASSUME JournalInv, Restart
    PROVE  JournalInv'
PROOF
<1> DEFINE file == LastGood(disk)
           replayed == Replaying(EmptyMemory, file)
<1>1. /\ now \in Nat /\ faults \in Nat /\ disk \in Seq(Records \cup {Garbage})
      /\ faults = 0 => disk \in Seq(Records)
  BY DEF JournalInv, MemoryInv
<1>2. file \in Seq(Records)
  BY <1>1, LastGoodIsRecords
<1>3. /\ FreshProcess /\ disk' = file /\ storageError' = ~Decodable(disk)
      /\ nextCursor' = ReplayedCursor(file) /\ fileOpen' = TRUE /\ faults' = faults
  BY DEF Restart
<1>4. PICK k \in 0..Len(replayed.order) : \E e \in 0..Len(replayed.order) :
             /\ Trimmed(replayed, k, e)
             /\ memory' = DropOldest(DropOldest(replayed, k), e)
             /\ trimmed' = (k + e > 0)
  BY DEF Restart, Replay, Replaying
<1>5. PICK e \in 0..Len(replayed.order) :
             /\ Trimmed(replayed, k, e)
             /\ memory' = DropOldest(DropOldest(replayed, k), e)
             /\ trimmed' = (k + e > 0)
  BY <1>4
<1>6. Sound(replayed)
  BY <1>2, EmptyIsSound, RecordsAreJobs, ReplayingIsSound
<1> HIDE DEF replayed, file
<1>7. Sound(memory')
  <2>1. Sound(DropOldest(replayed, k))
    BY <1>6, DropIsSound
  <2>2. e \in 0..Len(DropOldest(replayed, k).order)
    BY <1>5 DEF Trimmed, EvictCount
  <2> DEFINE d == DropOldest(replayed, k)
  <2> HIDE DEF d
  <2>3. Sound(DropOldest(d, e))
    BY <2>1, <2>2, DropIsSound DEF d
  <2> QED BY <1>5, <2>3 DEF d
<1>8. /\ storageIssued' = 0 /\ storageDone' = 0 /\ now' = now
      /\ \A p \in Procs : call'[p].at = "idle"
  BY <1>3 DEF FreshProcess, Idle
<1>9. MemoryInv'
  BY <1>1, <1>2, <1>3, <1>7, <1>8, ReplayedCursorIsNat DEF MemoryInv
<1>10. OpenInv' /\ (Clean' <=> ~storageError')
  BY <1>3, FreshIsOpen
<1>11. BatchesOf(Jobs)'
  BY <1>8 DEF BatchesOf, InPersist
<1>12. Unwritten' = <<>>
  BY <1>8, UnwrittenAtStart
<1>13. disk' \in Seq(Records) /\ disk' \in Seq(Records \cup {Garbage})
  BY <1>2, <1>3
<1>14. faults' = 0 => Clean'
  <2> SUFFICES ASSUME faults' = 0 PROVE Clean'
    OBVIOUS
  <2>1. Decodable(disk)
    BY <1>1, <1>3, RecordsDecode
  <2>2. ~storageError'
    BY <1>3, <2>1
  <2> QED BY <1>10, <2>2
<1>15. ~trimmed' => Follows(disk', Unwritten', memory')
  <2> SUFFICES ASSUME ~trimmed' PROVE Follows(disk', Unwritten', memory')
    OBVIOUS
  <2>1. ~(k + e > 0)
    BY <1>5
  <2>2. k \in Nat /\ e \in Nat
    BY <1>6 DEF Sound, Exact
  <2>3. k = 0 /\ e = 0
    BY <2>1, <2>2
  <2>4. Alike(replayed, memory', {})
    BY <1>5, <1>6, <2>3, NothingDropped
  <2>5. Replaying(replayed, <<>>) = replayed
    BY ReplayingOfNone
  <2> QED BY <1>3, <1>12, <2>4, <2>5 DEF Follows, replayed
<1> QED BY <1>1, <1>3, <1>8, <1>9, <1>10, <1>11, <1>13, <1>14, <1>15 DEF JournalInv

LEMMA StutterFollows ==
    ASSUME JournalInv,
           UNCHANGED <<call, isClosed, handle, storageIssued, storageDone, memory,
                       nextCursor, faultVars, journalVars>>,
           now' \in Nat
    PROVE  JournalInv'
PROOF
<1>1. UNCHANGED <<storageError, faults, disk, fileOpen, trimmed>>
  BY DEF faultVars, journalVars
<1>2. MemoryInv'
  BY DEF JournalInv, MemoryInv
<1>3. OpenInv' /\ (Clean' <=> Clean)
  BY <1>1, UnchangedIsOpen DEF JournalInv
<1>4. BatchesOf(Jobs)'
  BY DEF JournalInv, BatchesOf, InPersist
<1>5. Unwritten' = Unwritten
  BY UnwrittenUnchanged
<1> QED BY <1>1, <1>2, <1>3, <1>4, <1>5, Zenon DEF JournalInv

LEMMA InitFollows ==
    ASSUME JournalInit
    PROVE  JournalInv
PROOF
<1>1. /\ PersistInit /\ disk = <<>> /\ fileOpen = TRUE /\ trimmed = FALSE
      /\ faults = 0 /\ storageIssued = 0 /\ storageDone = 0
      /\ \A p \in Procs : call[p].at = "idle"
  BY DEF JournalInit, PersistInit, Init, Idle
<1>2. MemoryInv /\ memory = EmptyMemory
  BY <1>1, InitMemory
<1>3. OpenInv /\ Clean
  BY <1>1, InitIsOpen
<1>4. BatchesOf(Jobs)
  BY <1>1 DEF BatchesOf, InPersist
<1>5. Unwritten = <<>>
  BY <1>1, UnwrittenAtStart
<1>6. Follows(disk, Unwritten, memory)
  <2>1. Replaying(EmptyMemory, <<>>) = EmptyMemory
    BY ReplayingOfNone
  <2>2. Alike(EmptyMemory, EmptyMemory, {})
    BY EmptyIsSound, AlikeItself
  <2> QED BY <1>1, <1>2, <1>5, <2>1, <2>2 DEF Follows
<1>7. disk \in Seq(Records) /\ disk \in Seq(Records \cup {Garbage})
  <2>1. <<>> \in Seq(Records) /\ <<>> \in Seq(Records \cup {Garbage})
    OBVIOUS
  <2> QED BY <1>1, <2>1
<1> QED BY <1>1, <1>2, <1>3, <1>4, <1>6, <1>7 DEF JournalInv

LEMMA JournalNextFollows ==
    ASSUME TurnsInv, JournalInv, JournalNext
    PROVE  JournalInv'
PROOF
<1>1. ASSUME NEW p \in Procs, MemoryStep(p), UNCHANGED <<faultVars, journalVars>>
      PROVE  JournalInv'
  BY <1>1, MemoryStepFollows
<1>2. ASSUME NEW p \in Procs, JournalStep(p)
      PROVE  JournalInv'
  <2>1. CASE AppendRecord(p)
    BY <2>1, AppendRecordFollows
  <2>2. CASE AppendFails(p)
    BY <2>2, AppendFailsFollows
  <2>3. CASE AppendNowhere(p)
    BY <2>3, AppendNowhereFollows
  <2>4. CASE TakeSnapshot(p)
    BY <2>4, TakeSnapshotFollows
  <2>5. CASE InstallSnapshot(p)
    BY <2>5, InstallSnapshotFollows
  <2>6. CASE CompactionFails(p)
    BY <2>6, CompactionFailsFollows
  <2>7. CASE (FinishPersist(p) \/ ReportError(p)) /\ UNCHANGED journalVars
    BY <2>7, LeavingFollows
  <2>8. CASE CloseJournal(p)
    BY <2>8, LeavingFollows
  <2> QED BY <1>2, <2>1, <2>2, <2>3, <2>4, <2>5, <2>6, <2>7, <2>8 DEF JournalStep
<1>3. CASE (StreamStep \/ Tick) /\ UNCHANGED <<faultVars, journalVars>>
  <2>1. UNCHANGED <<call, handle, storageIssued, storageDone, memory, nextCursor>>
    BY <1>3 DEF StreamStep, Subscribe, Unsubscribe, Receive, Tick, storageVars, memoryVars
  <2>2. isClosed' = isClosed
    BY <1>3 DEF StreamStep, Subscribe, Unsubscribe, Receive, Tick
  <2>3. now' \in Nat
    <3>1. now' = now \/ now' = now + 1
      BY <1>3 DEF StreamStep, Subscribe, Unsubscribe, Receive, Tick
    <3> QED BY <3>1 DEF JournalInv, MemoryInv
  <2> QED BY <1>3, <2>1, <2>2, <2>3, StutterFollows
<1>4. CASE Restart
  BY <1>4, RestartFollows
<1> QED BY <1>1, <1>2, <1>3, <1>4 DEF JournalNext

\* Every step of the journal keeps it.
LEMMA FollowsAlways == JournalSpec => [](TurnsInv /\ JournalInv)
PROOF
<1>1. JournalInit => JournalInv
  BY InitFollows
<1>2. TurnsInv /\ JournalInv /\ [JournalNext]_allVars => JournalInv'
  <2>1. ASSUME TurnsInv, JournalInv, UNCHANGED allVars
        PROVE  JournalInv'
    <3>1. UNCHANGED <<call, isClosed, handle, storageIssued, storageDone, memory,
                      nextCursor, faultVars, journalVars>> /\ now' = now
      BY <2>1 DEF allVars, vars, storageVars, memoryVars
    <3>2. now' \in Nat
      BY <2>1, <3>1 DEF JournalInv, MemoryInv
    <3> QED BY <2>1, <3>1, <3>2, StutterFollows
  <2> QED BY <2>1, JournalNextFollows
<1> QED BY <1>1, <1>2, TurnsAlways, PTL DEF JournalSpec

LEMMA ReplayIsReplaying ==
    ASSUME NEW s
    PROVE  Replay(s) = Replaying(EmptyMemory, s)
BY DEF Replay, Replaying

\* What is on disk and what is still to be written add up to memory at every
\* moment, for any number of goroutines and entries: between two writes of a
\* batch, while a compaction writes a snapshot that is ahead of batches still
\* waiting, after a crash and a replay (persist, appendJournal, compactJournal
\* and openJournalStorage, store.go).
THEOREM JournalFollowsMemory == JournalSpec => []JournalCatchesUp
PROOF
<1>1. ASSUME TurnsInv, JournalInv PROVE JournalCatchesUp
  <2> SUFFICES ASSUME handle, faults = 0, ~trimmed
               PROVE  LET m == Replay(disk \o Unwritten)
                      IN  m.entries = memory.entries /\ m.order = memory.order
    BY DEF JournalCatchesUp
  <2> DEFINE J == Jobs
             a == EmptyMemory
             m == Replaying(Replaying(a, disk), Unwritten)
  <2>1. disk \in Seq(Records) /\ Follows(disk, Unwritten, memory)
    BY <1>1 DEF JournalInv
  <2>2. disk \in Seq(J) /\ BatchesOf(J)
    BY <1>1, <2>1, RecordsAreJobs DEF JournalInv
  <2>3. Alike(m, memory, {})
    BY <2>1 DEF Follows
  <2>4. Replay(disk \o Unwritten) = Replaying(a, disk \o Unwritten)
    BY DEF Replay, Replaying
  <2> HIDE DEF J, a
  <2>5. Unwritten \in Seq(J)
    BY <1>1, <2>2, UnwrittenIsSeq
  <2>6. Replaying(a, disk \o Unwritten) = m
    BY <2>2, <2>5, ReplayingInParts
  <2> HIDE DEF m
  <2>7. m.entries = memory.entries /\ m.order = memory.order
    BY <2>3, AlikeIsSame
  <2> QED BY <2>4, <2>6, <2>7
<1> QED BY <1>1, FollowsAlways, PTL

\* Once every call has returned, a journal from which a restart would not
\* restore memory has been reported in storageError, however the writes and
\* compactions have failed (persist and setStorageError, store.go).
THEOREM JournalDivergenceIsReported == JournalSpec => []DivergenceReported
PROOF
<1>1. ASSUME TurnsInv, JournalInv PROVE DivergenceReported
  <2> SUFFICES ASSUME ~isClosed, ~trimmed, CallsReturned, ~storageError
               PROVE  Replay(LastGood(disk)).entries = memory.entries
    BY DEF DivergenceReported
  <2> DEFINE m == Replaying(EmptyMemory, disk)
  <2>1. Clean
    BY DEF Clean, HasError, HoldsStorageMu, CallsReturned
  <2>2. handle
    BY <1>1, <2>1 DEF JournalInv, OpenInv
  <2>3. disk \in Seq(Records) /\ Follows(disk, Unwritten, memory)
    BY <1>1, <2>1, <2>2 DEF JournalInv
  <2>4. LastGood(disk) = disk
    BY <2>3, RecordsDecode
  <2>5. Unwritten = <<>>
    BY <1>1, NothingLeft
  <2>6. Replay(LastGood(disk)) = m
    BY <2>4, ReplayIsReplaying
  <2>7. Alike(Replaying(m, <<>>), memory, {})
    BY <2>3, <2>5 DEF Follows
  <2> HIDE DEF m
  <2>8. Replaying(m, <<>>) = m
    BY ReplayingOfNone
  <2>9. m.entries = memory.entries
    BY <2>7, <2>8, AlikeIsSame
  <2> QED BY <2>6, <2>9
<1> QED BY <1>1, FollowsAlways, PTL
=============================================================================
