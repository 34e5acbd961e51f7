-------------------------- MODULE EntryStoreProofs ---------------------------
(***************************************************************************)
(* What holds of the event store for every number of goroutines, every     *)
(* set of entries and every limit: the insertion order lists exactly the   *)
(* stored entries, in cursor order, entries leave oldest first, the byte   *)
(* count is exact, the limits hold, put keeps what it accepts, and no      *)
(* subscription has a gap.                                                 *)
(***************************************************************************)
EXTENDS EntryStore, SequenceTheorems, FiniteSetTheorems, WellFoundedInduction,
        TLAPS

(***************************************************************************)
(* The inductive invariant.  Neither OrderExact nor CursorsAscend is       *)
(* inductive: that the entry put last is the newest rests on no stored     *)
(* cursor being above nextCursor, and that removing an id from the order   *)
(* removes it altogether rests on its standing there once.                 *)
(***************************************************************************)
Exact(m) ==
    /\ m.order \in Seq(Ids)
    /\ Stored(m) = {m.order[i] : i \in 1..Len(m.order)}
    /\ \A i, j \in 1..Len(m.order) : m.order[i] = m.order[j] => i = j

WellOrdered(m, last) ==
    /\ Exact(m)
    /\ \A id \in Stored(m) : m.entries[id].cursor \in 0..last
    /\ \A i, j \in 1..Len(m.order) : i < j =>
         m.entries[m.order[i]].cursor < m.entries[m.order[j]].cursor

IInv ==
    /\ nextCursor \in Nat
    /\ WellOrdered(memory, nextCursor)
    /\ \A p \in Procs : call[p].at = "put" => call[p].id \in Ids
    /\ DOMAIN call = Procs

-----------------------------------------------------------------------------
(* What the operations on memory preserve.                                 *)

\* removeOldestLocked: the order goes on listing what is stored.
LEMMA DropExact ==
    ASSUME NEW m, Exact(m), NEW k \in 0..Len(m.order)
    PROVE  /\ Exact(DropOldest(m, k))
           /\ Len(DropOldest(m, k).order) = Len(m.order) - k
           /\ \A i \in 1..(Len(m.order) - k) :
                i + k \in 1..Len(m.order) /\ DropOldest(m, k).order[i] = m.order[i + k]
PROOF
<1> DEFINE d == DropOldest(m, k)
           gone == {m.order[i] : i \in 1..k}
           n == Len(m.order)
<1>1. /\ n \in Nat
      /\ m.order \in Seq(Ids)
  BY DEF Exact
<1>2. /\ d.order = SubSeq(m.order, k + 1, n)
      /\ d.entries = [id \in Stored(m) \ gone |-> m.entries[id]]
      /\ Stored(d) = Stored(m) \ gone
  BY DEF DropOldest, Stored
<1>3. /\ d.order \in Seq(Ids)
      /\ Len(d.order) = n - k
      /\ \A i \in 1..(n - k) : d.order[i] = m.order[i + k]
  <2>1. \A i \in (k + 1)..n : m.order[i] \in Ids
    BY <1>1, ElementOfSeq
  <2>2. Len(d.order) = n - k
    BY <1>1, <1>2
  <2>3. \A i \in 1..(n - k) : d.order[i] = m.order[i + k]
    BY <1>1, <1>2
  <2>4. d.order \in Seq(Ids)
    BY <1>1, <1>2, <2>1
  <2> QED BY <2>2, <2>3, <2>4
<1> HIDE DEF d
<1>4. Stored(d) = {d.order[i] : i \in 1..Len(d.order)}
  <2>1. \A id \in Stored(d) : \E i \in 1..Len(d.order) : id = d.order[i]
    <3> SUFFICES ASSUME NEW id \in Stored(d)
                 PROVE  \E i \in 1..Len(d.order) : id = d.order[i]
      OBVIOUS
    <3>1. PICK j \in 1..n : id = m.order[j]
      BY <1>2 DEF Exact
    <3>2. j \notin 1..k
      BY <1>2, <3>1
    <3>3. j - k \in 1..(n - k) /\ (j - k) + k = j
      BY <1>1, <3>1, <3>2
    <3> QED BY <1>3, <3>1, <3>3
  <2>2. \A i \in 1..Len(d.order) : d.order[i] \in Stored(d)
    <3> SUFFICES ASSUME NEW i \in 1..Len(d.order)
                 PROVE  d.order[i] \in Stored(d)
      OBVIOUS
    <3>1. /\ i + k \in 1..n /\ d.order[i] = m.order[i + k]
          /\ \A j \in 1..k : j \in 1..n /\ j # i + k
      BY <1>1, <1>3
    <3>2. m.order[i + k] \notin gone
      BY <3>1 DEF Exact
    <3> QED BY <1>2, <3>1, <3>2 DEF Exact
  <2> QED BY <2>1, <2>2
<1>5. \A i, j \in 1..Len(d.order) : d.order[i] = d.order[j] => i = j
  <2> SUFFICES ASSUME NEW i \in 1..Len(d.order), NEW j \in 1..Len(d.order),
                      d.order[i] = d.order[j]
               PROVE  i = j
    OBVIOUS
  <2>1. i + k \in 1..n /\ j + k \in 1..n /\ m.order[i + k] = m.order[j + k]
    <3>1. i \in 1..(n - k) /\ j \in 1..(n - k)
      BY <1>3
    <3>2. d.order[i] = m.order[i + k] /\ d.order[j] = m.order[j + k]
      BY <1>3, <3>1
    <3>3. i + k \in 1..n /\ j + k \in 1..n
      BY <1>1, <3>1
    <3> QED BY <3>2, <3>3
  <2>2. i + k = j + k
    <3> DEFINE a == i + k
               b == j + k
    <3>1. a \in 1..n /\ b \in 1..n /\ m.order[a] = m.order[b]
      BY <2>1
    <3> HIDE DEF a, b
    <3>2. a = b
      BY <3>1 DEF Exact
    <3> QED BY <3>2 DEF a, b
  <2>3. i \in Int /\ j \in Int /\ k \in Int
    BY <1>1, <1>3
  <2> QED BY <2>2, <2>3
<1>6. \A i \in 1..(n - k) : i + k \in 1..n
  BY <1>1
<1> QED BY <1>3, <1>4, <1>5, <1>6 DEF Exact, d

\* Entries keep their cursors while others are dropped.
LEMMA DropLeaves ==
    ASSUME NEW m, NEW k, NEW x \in Stored(DropOldest(m, k))
    PROVE  x \in Stored(m) /\ DropOldest(m, k).entries[x] = m.entries[x]
PROOF
BY DEF DropOldest, Stored

\* Dropping entries at the front keeps the rest in order.
LEMMA DropKeeps ==
    ASSUME NEW m, NEW last \in Nat, WellOrdered(m, last), NEW k \in 0..Len(m.order)
    PROVE  WellOrdered(DropOldest(m, k), last)
PROOF
<1> DEFINE d == DropOldest(m, k)
           n == Len(m.order)
<1>1. /\ Exact(d) /\ Len(d.order) = n - k /\ n \in Nat
      /\ \A i \in 1..(n - k) : i + k \in 1..n /\ d.order[i] = m.order[i + k]
  BY DropExact DEF WellOrdered, Exact
<1>2. \A id \in Stored(d) : d.entries[id] = m.entries[id] /\ id \in Stored(m)
  BY DropLeaves
<1> HIDE DEF d
<1>3. \A i \in 1..Len(d.order) : d.order[i] \in Stored(d)
  BY <1>1 DEF Exact
<1>4. \A i, j \in 1..Len(d.order) : i < j =>
         d.entries[d.order[i]].cursor < d.entries[d.order[j]].cursor
  <2> SUFFICES ASSUME NEW i \in 1..Len(d.order), NEW j \in 1..Len(d.order), i < j
               PROVE  d.entries[d.order[i]].cursor < d.entries[d.order[j]].cursor
    OBVIOUS
  <2>1. /\ i + k \in 1..n /\ j + k \in 1..n /\ i + k < j + k
        /\ d.order[i] = m.order[i + k] /\ d.order[j] = m.order[j + k]
    <3>1. i \in 1..(n - k) /\ j \in 1..(n - k)
      BY <1>1
    <3>2. /\ i + k \in 1..n /\ d.order[i] = m.order[i + k]
          /\ j + k \in 1..n /\ d.order[j] = m.order[j + k]
      BY <1>1, <3>1
    <3>3. n \in Int /\ k \in Int
      BY <1>1
    <3>4. i \in Int /\ j \in Int
      BY <3>1, <3>3
    <3>5. i + k < j + k
      BY <3>3, <3>4
    <3> QED BY <3>2, <3>5
  <2>2. d.order[i] \in Stored(d) /\ d.order[j] \in Stored(d)
    BY <1>3
  <2> DEFINE a == i + k
             b == j + k
  <2>3. /\ a \in 1..n /\ b \in 1..n /\ a < b
        /\ d.order[i] = m.order[a] /\ d.order[j] = m.order[b]
    BY <2>1
  <2> HIDE DEF a, b, n
  <2>4. m.entries[m.order[a]].cursor < m.entries[m.order[b]].cursor
    BY <2>3 DEF WellOrdered, n
  <2> QED BY <1>2, <2>2, <2>3, <2>4
<1>5. \A id \in Stored(d) : d.entries[id].cursor \in 0..last
  BY <1>2 DEF WellOrdered, Exact
<1> QED BY <1>1, <1>4, <1>5 DEF WellOrdered, d

\* The empty store of Init and clear is in order.
LEMMA EmptyExact == Exact(EmptyMemory) /\ Stored(EmptyMemory) = {}
PROOF
<1>1. /\ EmptyMemory.order = <<>>
      /\ Stored(EmptyMemory) = {}
      /\ Len(EmptyMemory.order) = 0
  BY DEF EmptyMemory, Stored
<1>2. 1..Len(EmptyMemory.order) = {} /\ EmptyMemory.order \in Seq(Ids)
  BY <1>1
<1> HIDE DEF EmptyMemory
<1> QED BY <1>1, <1>2 DEF Exact

LEMMA EmptyInOrder ==
    ASSUME NEW last \in Nat
    PROVE  WellOrdered(EmptyMemory, last)
PROOF
<1>1. Exact(EmptyMemory) /\ Stored(EmptyMemory) = {} /\ Len(EmptyMemory.order) = 0
  BY EmptyExact DEF EmptyMemory
<1>2. 1..0 = {}
  OBVIOUS
<1> HIDE DEF EmptyMemory
<1> QED BY <1>1, <1>2 DEF WellOrdered

\* Removing an entry from the middle closes the gap (removeMemoryLocked, and
\* put when it replaces an entry).
LEMMA ForgetExact ==
    ASSUME NEW m, Exact(m), NEW id
    PROVE  /\ Exact(Forget(m, id))
           /\ Stored(Forget(m, id)) = Stored(m) \ {id}
           /\ \A x \in Stored(m) \ {id} : Forget(m, id).entries[x] = m.entries[x]
           /\ \A i, j \in 1..Len(Forget(m, id).order) : i < j =>
                \E a, b \in 1..Len(m.order) :
                  /\ a < b
                  /\ Forget(m, id).order[i] = m.order[a]
                  /\ Forget(m, id).order[j] = m.order[b]
PROOF
<1>1. CASE id \notin Stored(m)
  <2>1. Forget(m, id) = m
    BY <1>1 DEF Forget
  <2> QED BY <1>1, <2>1
<1>2. CASE id \in Stored(m)
  <2> DEFINE n == Len(m.order)
             k == CHOOSE i \in 1..n : m.order[i] = id
             f == Forget(m, id)
             from(i) == IF i < k THEN i ELSE i + 1
  <2>1. n \in Nat /\ \A i \in 1..n : m.order[i] \in Ids
    BY ElementOfSeq DEF Exact
  <2>2. k \in 1..n /\ m.order[k] = id
    BY <1>2 DEF Exact
  <2>3. /\ f.order = [i \in 1..(n - 1) |->
                        IF i < k THEN m.order[i] ELSE m.order[i + 1]]
        /\ f.entries = [x \in Stored(m) \ {id} |-> m.entries[x]]
        /\ Stored(f) = Stored(m) \ {id}
    BY <1>2 DEF Forget, Stored
  <2> HIDE DEF f, k
  <2>4. \A i \in 1..(n - 1) :
          from(i) \in 1..n /\ from(i) # k /\ f.order[i] = m.order[from(i)]
    BY <2>1, <2>2, <2>3
  <2>5. \A i, j \in 1..(n - 1) : i < j => from(i) < from(j)
    BY <2>1, <2>2
  <2>6. \A j \in 1..n : j # k => \E i \in 1..(n - 1) : j = from(i)
    <3> SUFFICES ASSUME NEW j \in 1..n, j # k
                 PROVE  \E i \in 1..(n - 1) : j = from(i)
      OBVIOUS
    <3>1. CASE j < k
      BY <3>1, <2>1, <2>2
    <3>2. CASE j > k
      <4>1. j - 1 \in 1..(n - 1) /\ j = from(j - 1)
        BY <3>2, <2>1, <2>2
      <4> QED BY <4>1
    <3> QED BY <3>1, <3>2, <2>1, <2>2
  <2> HIDE DEF from, n
  <2>7. f.order \in Seq(Ids) /\ Len(f.order) = n - 1
    <3> DEFINE size == n - 1
    <3>1. size \in Nat
      BY <2>1, <2>2
    <3>2. \A i \in 1..size : f.order[i] \in Ids
      BY <2>1, <2>4
    <3>3. f.order = [i \in 1..size |-> f.order[i]]
      BY <2>3
    <3> HIDE DEF size
    <3>4. f.order \in Seq(Ids) /\ Len(f.order) = size
      BY <3>1, <3>2, <3>3
    <3> QED BY <3>4 DEF size
  <2>8. Stored(f) = {f.order[i] : i \in 1..Len(f.order)}
    <3>1. \A x \in Stored(f) : \E i \in 1..Len(f.order) : x = f.order[i]
      <4> SUFFICES ASSUME NEW x \in Stored(f)
                   PROVE  \E i \in 1..Len(f.order) : x = f.order[i]
        OBVIOUS
      <4>1. PICK j \in 1..n : x = m.order[j]
        BY <2>3 DEF Exact, n
      <4>2. j # k
        BY <2>2, <2>3, <4>1
      <4>3. PICK i \in 1..(n - 1) : j = from(i)
        BY <2>6, <4>2
      <4> QED BY <2>4, <2>7, <4>1, <4>3
    <3>2. \A i \in 1..Len(f.order) : f.order[i] \in Stored(f)
      <4> SUFFICES ASSUME NEW i \in 1..(n - 1) PROVE f.order[i] \in Stored(f)
        BY <2>7
      <4>1. from(i) \in 1..n /\ from(i) # k /\ f.order[i] = m.order[from(i)]
        BY <2>4
      <4>2. m.order[from(i)] # id
        BY <2>2, <4>1 DEF Exact, n
      <4> QED BY <2>3, <4>1, <4>2 DEF Exact, n
    <3> QED BY <3>1, <3>2
  <2>9. \A i, j \in 1..Len(f.order) : f.order[i] = f.order[j] => i = j
    <3> SUFFICES ASSUME NEW i \in 1..(n - 1), NEW j \in 1..(n - 1),
                        f.order[i] = f.order[j]
                 PROVE  i = j
      BY <2>7
    <3>1. from(i) = from(j) /\ from(i) \in Int
      BY <2>4 DEF Exact, n
    <3> QED BY <2>1, <2>5, <3>1
  <2>10. \A x \in Stored(f) : f.entries[x] = m.entries[x] /\ x \in Stored(m)
    BY <2>3
  <2>11. \A i, j \in 1..Len(f.order) : i < j =>
           \E a, b \in 1..n : a < b /\ f.order[i] = m.order[a] /\ f.order[j] = m.order[b]
    BY <2>4, <2>5, <2>7
  <2>12. Exact(f)
    BY <2>7, <2>8, <2>9 DEF Exact
  <2>13. Stored(f) = Stored(m) \ {id} /\ \A x \in Stored(m) \ {id} : f.entries[x] = m.entries[x]
    BY <2>3, <2>10
  <2> QED BY <2>11, <2>12, <2>13 DEF f, n
<1> QED BY <1>1, <1>2

LEMMA ForgetKeeps ==
    ASSUME NEW m, NEW last \in Nat, WellOrdered(m, last), NEW id
    PROVE  WellOrdered(Forget(m, id), last) /\ id \notin Stored(Forget(m, id))
PROOF
<1> DEFINE f == Forget(m, id)
<1>0. Exact(m)
  BY DEF WellOrdered
<1>1. /\ Exact(f) /\ Stored(f) = Stored(m) \ {id}
      /\ \A x \in Stored(m) \ {id} : f.entries[x] = m.entries[x]
      /\ \A i, j \in 1..Len(f.order) : i < j =>
           \E a, b \in 1..Len(m.order) :
             a < b /\ f.order[i] = m.order[a] /\ f.order[j] = m.order[b]
  BY <1>0, ForgetExact
<1> HIDE DEF f
<1>2. \A i \in 1..Len(f.order) : f.order[i] \in Stored(f)
  BY <1>1 DEF Exact
<1>3. \A i, j \in 1..Len(f.order) : i < j =>
         f.entries[f.order[i]].cursor < f.entries[f.order[j]].cursor
  <2> SUFFICES ASSUME NEW i \in 1..Len(f.order), NEW j \in 1..Len(f.order), i < j
               PROVE  f.entries[f.order[i]].cursor < f.entries[f.order[j]].cursor
    OBVIOUS
  <2>1. PICK a \in 1..Len(m.order), b \in 1..Len(m.order) :
          a < b /\ f.order[i] = m.order[a] /\ f.order[j] = m.order[b]
    BY <1>1
  <2>2. m.entries[m.order[a]].cursor < m.entries[m.order[b]].cursor
    BY <2>1 DEF WellOrdered
  <2>3. /\ f.entries[f.order[i]] = m.entries[m.order[a]]
        /\ f.entries[f.order[j]] = m.entries[m.order[b]]
    BY <1>1, <1>2, <2>1
  <2> QED BY <2>2, <2>3
<1>4. \A x \in Stored(f) : f.entries[x].cursor \in 0..last
  BY <1>1 DEF WellOrdered
<1> QED BY <1>1, <1>3, <1>4 DEF WellOrdered, f

\* put: an entry that is not in the store and takes the next cursor becomes
\* the last of the order.
LEMMA InsertExact ==
    ASSUME NEW m, Exact(m), NEW entry, entry.id \in Ids, entry.id \notin Stored(m)
    PROVE  /\ Exact(Insert(m, entry))
           /\ Stored(Insert(m, entry)) = Stored(m) \cup {entry.id}
           /\ Insert(m, entry).entries[entry.id] = entry
           /\ \A x \in Stored(m) : Insert(m, entry).entries[x] = m.entries[x]
           /\ Len(Insert(m, entry).order) = Len(m.order) + 1
           /\ \A i \in 1..Len(m.order) : Insert(m, entry).order[i] = m.order[i]
           /\ Insert(m, entry).order[Len(m.order) + 1] = entry.id
PROOF
<1> DEFINE n == Len(m.order)
           t == Insert(m, entry)
<1>1. n \in Nat /\ m.order \in Seq(Ids) /\ \A i \in 1..n : m.order[i] \in Ids
  BY ElementOfSeq DEF Exact
<1>2. /\ t.order = Append(m.order, entry.id)
      /\ t.entries = [x \in Stored(m) \cup {entry.id} |->
                        IF x = entry.id THEN entry ELSE m.entries[x]]
      /\ Stored(t) = Stored(m) \cup {entry.id}
  BY DEF Insert, Stored
<1> HIDE DEF t
<1>3. /\ t.order \in Seq(Ids) /\ Len(t.order) = n + 1
      /\ \A i \in 1..n : t.order[i] = m.order[i]
      /\ t.order[n + 1] = entry.id
  BY <1>1, <1>2
<1>4. \A i \in 1..n : m.order[i] \in Stored(m) /\ m.order[i] # entry.id
  BY DEF Exact
<1>5. \A i \in 1..(n + 1) : i \in 1..n \/ i = n + 1
  BY <1>1
<1>6. n + 1 \in 1..(n + 1) /\ \A i \in 1..n : i \in 1..(n + 1)
  BY <1>1
<1> HIDE DEF n
<1>7. Stored(t) = {t.order[i] : i \in 1..Len(t.order)}
  <2>1. \A x \in Stored(t) : \E i \in 1..Len(t.order) : x = t.order[i]
    <3> SUFFICES ASSUME NEW x \in Stored(t)
                 PROVE  \E i \in 1..(n + 1) : x = t.order[i]
      BY <1>3
    <3>1. CASE x = entry.id
      BY <3>1, <1>3, <1>6
    <3>2. CASE x \in Stored(m)
      BY <3>2, <1>3, <1>6 DEF Exact, n
    <3> QED BY <1>2, <3>1, <3>2
  <2>2. \A i \in 1..(n + 1) : t.order[i] \in Stored(t)
    BY <1>2, <1>3, <1>4, <1>5
  <2> QED BY <1>3, <2>1, <2>2
<1>8. \A i, j \in 1..(n + 1) : t.order[i] = t.order[j] => i = j
  BY <1>3, <1>4, <1>5 DEF Exact, n
<1>9. /\ t.entries[entry.id] = entry
      /\ \A x \in Stored(m) : t.entries[x] = m.entries[x]
  BY <1>2
<1>10. Exact(t)
  BY <1>3, <1>7, <1>8 DEF Exact
<1> QED BY <1>2, <1>3, <1>9, <1>10 DEF t, n

LEMMA InsertKeeps ==
    ASSUME NEW m, NEW last \in Nat, WellOrdered(m, last),
           NEW entry, entry.id \in Ids, entry.id \notin Stored(m),
           entry.cursor = last + 1
    PROVE  WellOrdered(Insert(m, entry), last + 1)
PROOF
<1> DEFINE n == Len(m.order)
           t == Insert(m, entry)
<1>1. n \in Nat /\ Exact(m)
  BY DEF WellOrdered, Exact
<1>2. /\ Exact(t) /\ Stored(t) = Stored(m) \cup {entry.id}
      /\ t.entries[entry.id] = entry
      /\ \A x \in Stored(m) : t.entries[x] = m.entries[x]
      /\ Len(t.order) = n + 1
      /\ \A i \in 1..n : t.order[i] = m.order[i]
      /\ t.order[n + 1] = entry.id
  BY <1>1, InsertExact
<1> HIDE DEF t
<1>3. \A i \in 1..n : m.order[i] \in Stored(m)
  BY <1>1 DEF Exact
<1>4. \A i \in 1..(n + 1) : i \in 1..n \/ i = n + 1
  BY <1>1
<1> HIDE DEF n
<1>5. \A x \in Stored(t) : t.entries[x].cursor \in 0..(last + 1)
  <2>1. ASSUME NEW x \in Stored(m)
        PROVE  t.entries[x].cursor \in 0..(last + 1)
    <3>1. m.entries[x].cursor \in 0..last
      BY DEF WellOrdered
    <3>2. t.entries[x] = m.entries[x]
      BY <1>2
    <3>3. 0..last \subseteq 0..(last + 1)
      OBVIOUS
    <3> QED BY <3>1, <3>2, <3>3
  <2>2. t.entries[entry.id].cursor \in 0..(last + 1)
    BY <1>2
  <2> QED BY <1>2, <2>1, <2>2
<1>6. \A i, j \in 1..(n + 1) : i < j =>
         t.entries[t.order[i]].cursor < t.entries[t.order[j]].cursor
  <2> SUFFICES ASSUME NEW i \in 1..(n + 1), NEW j \in 1..(n + 1), i < j
               PROVE  t.entries[t.order[i]].cursor < t.entries[t.order[j]].cursor
    OBVIOUS
  <2>1. i \in 1..n
    BY <1>1 DEF n
  <2>2. t.order[i] = m.order[i] /\ m.order[i] \in Stored(m)
    BY <2>1, <1>2, <1>3
  <2>3. CASE j \in 1..n
    <3>1. t.order[j] = m.order[j] /\ m.order[j] \in Stored(m)
      BY <2>3, <1>2, <1>3
    <3>2. m.entries[m.order[i]].cursor < m.entries[m.order[j]].cursor
      BY <2>1, <2>3 DEF WellOrdered, Exact, n
    <3> QED BY <1>2, <2>2, <3>1, <3>2
  <2>4. CASE j = n + 1
    <3>1. t.entries[t.order[j]].cursor = last + 1
      BY <2>4, <1>2
    <3>2. m.entries[m.order[i]].cursor \in 0..last
      BY <2>2 DEF WellOrdered, Exact
    <3>3. t.entries[t.order[i]].cursor \in 0..last
      BY <1>2, <2>2, <3>2
    <3> QED BY <3>1, <3>3
  <2> QED BY <1>4, <2>3, <2>4
<1>7. \A i, j \in 1..Len(t.order) : i < j =>
         t.entries[t.order[i]].cursor < t.entries[t.order[j]].cursor
  BY <1>2, <1>6
<1> QED BY <1>2, <1>5, <1>7 DEF WellOrdered, t

-----------------------------------------------------------------------------
(* The steps.                                                              *)

\* The store opens empty.
LEMMA InitOrder == Init => IInv
PROOF
<1> SUFFICES ASSUME Init PROVE IInv
  OBVIOUS
<1>1. WellOrdered(memory, nextCursor)
  BY EmptyInOrder DEF Init
<1>2. \A p \in Procs : call[p].at # "put"
  BY DEF Init, Idle
<1> QED BY <1>1, <1>2 DEF Init, IInv

\* A batch leaves its caller in persist or returns to it.
LEMMA BatchCall ==
    ASSUME NEW p \in Procs, NEW records, IssueBatch(p, records), IInv
    PROVE  /\ \A q \in Procs : call'[q].at = "put" => call'[q].id \in Ids
           /\ DOMAIN call' = Procs
PROOF
<1>1. /\ call'[p].at # "put"
      /\ \A q \in Procs \ {p} : call'[q] = call[q]
      /\ DOMAIN call' = Procs
  BY DEF IssueBatch, Idle, IInv
<1> QED BY <1>1 DEF IInv

\* Purging, replacing and evicting in one put.
LEMMA PutOrder ==
    ASSUME NEW p \in Procs, IInv, Put(p)
    PROVE  IInv'
PROOF
<1> DEFINE entry == [id |-> call[p].id, size |-> call[p].size,
                     recordedAt |-> call[p].recordedAt,
                     cursor |-> nextCursor + 1]
<1>1. PICK k \in 0..Len(memory.order) :
        /\ \E e \in 0..Len(Replace(DropOldest(memory, k), entry).order) :
             /\ memory' = DropOldest(Replace(DropOldest(memory, k), entry), e)
             /\ \E records : IssueBatch(p, records)
        /\ nextCursor' = nextCursor + 1
  BY DEF Put
<1>2. /\ entry.id \in Ids /\ entry.cursor = nextCursor + 1
      /\ nextCursor \in Nat /\ nextCursor + 1 \in Nat
  BY DEF IInv, Put
<1> DEFINE purged == DropOldest(memory, k)
           known == Forget(purged, entry.id)
           replaced == Replace(purged, entry)
<1>3. PICK e \in 0..Len(replaced.order) :
        memory' = DropOldest(replaced, e) /\ \E records : IssueBatch(p, records)
  BY <1>1
<1> HIDE DEF entry
<1>4. WellOrdered(purged, nextCursor)
  BY <1>2, DropKeeps DEF IInv
<1> HIDE DEF purged
<1>5. WellOrdered(known, nextCursor) /\ entry.id \notin Stored(known)
  BY <1>2, <1>4, ForgetKeeps
<1>6. replaced = Insert(known, entry)
  BY DEF Replace
<1> HIDE DEF known, replaced
<1>7. WellOrdered(replaced, nextCursor + 1)
  BY <1>2, <1>5, <1>6, InsertKeeps
<1>8. WellOrdered(memory', nextCursor')
  BY <1>1, <1>2, <1>3, <1>7, DropKeeps
<1>9. /\ \A q \in Procs : call'[q].at = "put" => call'[q].id \in Ids
      /\ DOMAIN call' = Procs
  BY <1>3, BatchCall
<1> QED BY <1>1, <1>2, <1>8, <1>9 DEF IInv

\* Every step keeps the order.
LEMMA StepOrder == IInv /\ [Next]_vars => IInv'
PROOF
<1> SUFFICES ASSUME IInv, [Next]_vars PROVE IInv'
  OBVIOUS
<1>1. ASSUME NEW p \in Procs, MemoryStep(p) PROVE IInv'
  <2>1. ASSUME NEW id \in Ids, NEW size \in Sizes, BeginRecord(p, id, size)
        PROVE  IInv'
    <3>1. UNCHANGED <<memory, nextCursor>>
      BY <2>1 DEF BeginRecord, memoryVars
    <3>2. /\ \A q \in Procs : call'[q].at = "put" => call'[q].id \in Ids
          /\ DOMAIN call' = Procs
      BY <2>1 DEF BeginRecord, IInv
    <3> QED BY <3>1, <3>2 DEF IInv
  <2>2. ASSUME PutAfterClose(p) PROVE IInv'
    <3>1. UNCHANGED <<memory, nextCursor>>
      BY <2>2 DEF PutAfterClose, memoryVars
    <3>2. /\ \A q \in Procs : call'[q].at = "put" => call'[q].id \in Ids
          /\ DOMAIN call' = Procs
      BY <2>2 DEF PutAfterClose, IInv, Idle
    <3> QED BY <3>1, <3>2 DEF IInv
  <2>3. ASSUME PutTooLarge(p) PROVE IInv'
    <3>1. PICK k \in 0..Len(memory.order) :
            /\ memory' = DropOldest(memory, k)
            /\ IssueBatch(p, DeleteRecords(memory, k))
      BY <2>3 DEF PutTooLarge
    <3>2. nextCursor' = nextCursor
      BY <2>3 DEF PutTooLarge
    <3>3. WellOrdered(memory', nextCursor)
      BY <3>1, DropKeeps DEF IInv
    <3> QED BY <3>1, <3>2, <3>3, BatchCall DEF IInv
  <2>4. ASSUME Put(p) PROVE IInv'
    BY <2>4, PutOrder
  <2>5. ASSUME Read(p) PROVE IInv'
    <3>1. PICK k \in 1..Len(memory.order) :
            /\ memory' = DropOldest(memory, k)
            /\ IssueBatch(p, DeleteRecords(memory, k))
      BY <2>5 DEF Read
    <3>2. nextCursor' = nextCursor
      BY <2>5 DEF Read
    <3>3. WellOrdered(memory', nextCursor)
      BY <3>1, DropKeeps DEF IInv
    <3> QED BY <3>1, <3>2, <3>3, BatchCall DEF IInv
  <2>6. ASSUME Clear(p) PROVE IInv'
    <3>1. /\ memory' = EmptyMemory /\ nextCursor' = nextCursor + 1
          /\ \E records : IssueBatch(p, records)
      BY <2>6 DEF Clear
    <3>2. nextCursor' \in Nat
      BY <3>1 DEF IInv
    <3>3. WellOrdered(memory', nextCursor')
      BY <3>1, <3>2, EmptyInOrder
    <3> QED BY <3>1, <3>2, <3>3, BatchCall DEF IInv
  <2>7. ASSUME Close(p) PROVE IInv'
    <3>1. UNCHANGED <<memory, nextCursor>>
      BY <2>7 DEF Close, memoryVars
    <3>2. /\ \A q \in Procs : call'[q].at = "put" => call'[q].id \in Ids
          /\ DOMAIN call' = Procs
      BY <2>7 DEF Close, IInv
    <3> QED BY <3>1, <3>2 DEF IInv
  <2> QED BY <1>1, <2>1, <2>2, <2>3, <2>4, <2>5, <2>6, <2>7 DEF MemoryStep
<1>2. ASSUME NEW p \in Procs, Persist(p) \/ FinishClose(p) PROVE IInv'
  <2>1. UNCHANGED <<memory, nextCursor>>
    BY <1>2 DEF Persist, FinishClose, memoryVars
  <2>2. /\ \A q \in Procs : call'[q].at = "put" => call'[q].id \in Ids
        /\ DOMAIN call' = Procs
    BY <1>2 DEF Persist, FinishClose, IInv, Idle
  <2> QED BY <2>1, <2>2 DEF IInv
<1>3. ASSUME StreamStep PROVE IInv'
  <2>1. UNCHANGED <<memory, nextCursor, call>>
    BY <1>3 DEF StreamStep, Subscribe, Unsubscribe, Receive, memoryVars
  <2> QED BY <2>1 DEF IInv
<1>4. ASSUME Tick PROVE IInv'
  BY <1>4 DEF Tick, IInv, memoryVars
<1>5. ASSUME UNCHANGED vars PROVE IInv'
  BY <1>5 DEF IInv, vars, memoryVars
<1> QED BY <1>1, <1>2, <1>3, <1>4, <1>5 DEF Next

-----------------------------------------------------------------------------
(* The theorems.                                                           *)

\* The invariant holds of every reachable store.
THEOREM StoreInOrder == Spec => []IInv
PROOF
<1> QED BY InitOrder, StepOrder, PTL DEF Spec

\* The order lists every stored entry once and nothing else, so that
\* eviction, listing and compaction reach every entry.
THEOREM OrderIsExact == Spec => []OrderExact
PROOF
<1>1. IInv => OrderExact
  BY DEF IInv, WellOrdered, Exact, OrderExact
<1> QED BY StoreInOrder, <1>1, PTL

\* Walking the order backwards is newest first, as listBeforeFiltered relies
\* on.
THEOREM OrderIsByCursor == Spec => []CursorsAscend
PROOF
<1>1. IInv => CursorsAscend
  BY DEF IInv, WellOrdered, Exact, CursorsAscend
<1> QED BY StoreInOrder, <1>1, PTL

-----------------------------------------------------------------------------
(* Entries leave oldest first.                                             *)

\* Of two entries the one with the smaller cursor is dropped first.
LEMMA DropRetires ==
    ASSUME NEW m, NEW last \in Nat, WellOrdered(m, last), NEW k \in 0..Len(m.order),
           NEW a \in Stored(m), NEW b \in Stored(m),
           m.entries[b].cursor < m.entries[a].cursor,
           a \notin Stored(DropOldest(m, k))
    PROVE  b \notin Stored(DropOldest(m, k))
PROOF
<1> DEFINE gone == {m.order[i] : i \in 1..k}
           n == Len(m.order)
<1>1. Stored(DropOldest(m, k)) = Stored(m) \ gone
  BY DEF DropOldest, Stored
<1>2. n \in Nat
  BY DEF WellOrdered, Exact
<1>3. PICK i \in 1..k : a = m.order[i]
  BY <1>1
<1>4. PICK j \in 1..n : b = m.order[j]
  BY DEF WellOrdered, Exact
<1>5. i \in 1..n
  BY <1>2, <1>3
<1>6. /\ i = j \/ i < j => ~(m.entries[b].cursor < m.entries[a].cursor)
      /\ m.entries[b].cursor \in Int /\ m.entries[a].cursor \in Int
  <2>1. m.entries[b].cursor \in 0..last /\ m.entries[a].cursor \in 0..last
    BY DEF WellOrdered
  <2>2. m.entries[b].cursor \in Int /\ m.entries[a].cursor \in Int
    BY <2>1
  <2>3. i < j => m.entries[m.order[i]].cursor < m.entries[m.order[j]].cursor
    BY <1>4, <1>5 DEF WellOrdered
  <2>4. i < j => m.entries[a].cursor < m.entries[b].cursor
    BY <1>3, <1>4, <2>3
  <2>5. i = j => a = b
    BY <1>3, <1>4
  <2> QED BY <2>2, <2>4, <2>5
<1>7. j \in 1..k
  BY <1>2, <1>3, <1>4, <1>5, <1>6
<1> QED BY <1>1, <1>4, <1>7

\* What replacing an entry does to the other ones: nothing.
LEMMA ReplaceLeaves ==
    ASSUME NEW m, NEW entry
    PROVE  /\ Stored(Replace(m, entry)) = Stored(m) \cup {entry.id}
           /\ Replace(m, entry).entries[entry.id] = entry
           /\ \A x \in Stored(m) \ {entry.id} :
                Replace(m, entry).entries[x] = m.entries[x]
PROOF
<1> DEFINE f == Forget(m, entry.id)
<1>1. /\ Stored(f) = Stored(m) \ {entry.id}
      /\ \A x \in Stored(f) : f.entries[x] = m.entries[x]
  BY DEF Forget, Stored
<1> HIDE DEF f
<1>2. /\ Stored(Insert(f, entry)) = Stored(f) \cup {entry.id}
      /\ Insert(f, entry).entries[entry.id] = entry
      /\ \A x \in Stored(f) \ {entry.id} :
           Insert(f, entry).entries[x] = f.entries[x]
  BY DEF Insert, Stored
<1>3. Replace(m, entry) = Insert(f, entry)
  BY DEF Replace, f
<1> QED BY <1>1, <1>2, <1>3

\* The property, for one step.
RetiredInOrder ==
    \A a, b \in Stored(memory) :
        /\ a \notin Stored(memory')
        /\ memory.entries[b].cursor < memory.entries[a].cursor
        => \/ b \notin Stored(memory')
           \/ memory'.entries[b].cursor # memory.entries[b].cursor

\* A purge alone retires in order (the reads, and put when it refuses).
LEMMA PurgeRetires ==
    ASSUME IInv, NEW k \in 0..Len(memory.order), memory' = DropOldest(memory, k)
    PROVE  RetiredInOrder
PROOF
BY DropRetires DEF IInv, RetiredInOrder

\* So does put: an entry with a higher cursor is gone only if everything
\* below it has gone too, or is the one that was replaced.
LEMMA PutRetires ==
    ASSUME IInv, NEW p \in Procs, Put(p)
    PROVE  RetiredInOrder
PROOF
<1> DEFINE entry == [id |-> call[p].id, size |-> call[p].size,
                     recordedAt |-> call[p].recordedAt,
                     cursor |-> nextCursor + 1]
<1>1. PICK k \in 0..Len(memory.order) :
        \E e \in 0..Len(Replace(DropOldest(memory, k), entry).order) :
          memory' = DropOldest(Replace(DropOldest(memory, k), entry), e)
  BY DEF Put
<1>2. /\ entry.id \in Ids /\ entry.cursor = nextCursor + 1
      /\ nextCursor \in Nat /\ nextCursor + 1 \in Nat
  BY DEF IInv, Put
<1> DEFINE purged == DropOldest(memory, k)
           known == Forget(purged, entry.id)
           replaced == Replace(purged, entry)
<1>3. PICK e \in 0..Len(replaced.order) : memory' = DropOldest(replaced, e)
  BY <1>1
<1> HIDE DEF entry
<1>4. WellOrdered(purged, nextCursor)
  BY <1>2, DropKeeps DEF IInv
<1>5. \A x \in Stored(purged) :
        x \in Stored(memory) /\ purged.entries[x] = memory.entries[x]
  BY DropLeaves
<1>6. \A a, b \in Stored(memory) :
        (memory.entries[b].cursor < memory.entries[a].cursor /\ a \notin Stored(purged))
          => b \notin Stored(purged)
  BY <1>2, DropRetires DEF IInv
<1> HIDE DEF purged
<1>7. WellOrdered(replaced, nextCursor + 1)
  <2>1. WellOrdered(known, nextCursor) /\ entry.id \notin Stored(known)
    BY <1>2, <1>4, ForgetKeeps
  <2> HIDE DEF known
  <2>2. replaced = Insert(known, entry)
    BY DEF Replace, known
  <2> HIDE DEF replaced
  <2> QED BY <1>2, <2>1, <2>2, InsertKeeps
<1>8. /\ Stored(replaced) = Stored(purged) \cup {entry.id}
      /\ replaced.entries[entry.id] = entry
      /\ \A x \in Stored(purged) \ {entry.id} : replaced.entries[x] = purged.entries[x]
  BY ReplaceLeaves
<1> HIDE DEF known, replaced
<1>9. \A x \in Stored(memory') :
        x \in Stored(replaced) /\ memory'.entries[x] = replaced.entries[x]
  BY <1>3, DropLeaves
<1> SUFFICES ASSUME NEW a \in Stored(memory), NEW b \in Stored(memory),
                    a \notin Stored(memory'),
                    memory.entries[b].cursor < memory.entries[a].cursor,
                    b \in Stored(memory'),
                    memory'.entries[b].cursor = memory.entries[b].cursor
             PROVE  FALSE
  BY DEF RetiredInOrder
<1>10. /\ memory.entries[a].cursor \in 0..nextCursor
       /\ memory.entries[b].cursor \in 0..nextCursor
  BY DEF IInv, WellOrdered, Exact
<1>11. b # entry.id
  BY <1>2, <1>8, <1>9, <1>10
<1>12. /\ b \in Stored(purged) /\ b \in Stored(replaced)
       /\ replaced.entries[b] = memory.entries[b]
  BY <1>5, <1>8, <1>9, <1>11
<1>13. a \in Stored(purged)
  BY <1>6, <1>12
<1>14. a \in Stored(replaced) /\ replaced.entries[b].cursor < replaced.entries[a].cursor
  <2>1. CASE a = entry.id
    BY <2>1, <1>2, <1>8, <1>10, <1>12
  <2>2. CASE a # entry.id
    BY <2>2, <1>5, <1>8, <1>12, <1>13
  <2> QED BY <2>1, <2>2
<1> QED BY <1>2, <1>3, <1>7, <1>12, <1>14, DropRetires

\* First in, first out: no step removes an entry and leaves an older one,
\* except the one it replaces (evictLocked, purgeExpiredLocked).
THEOREM FirstInFirstOut == Spec => RetiresOldestFirst
PROOF
<1>1. IInv /\ [Next]_vars => RetiredInOrder
  <2> SUFFICES ASSUME IInv, [Next]_vars PROVE RetiredInOrder
    OBVIOUS
  <2>1. ASSUME memory' = memory PROVE RetiredInOrder
    BY <2>1 DEF RetiredInOrder
  <2>2. ASSUME NEW p \in Procs, PutTooLarge(p) \/ Read(p) PROVE RetiredInOrder
    <3>1. PICK k \in 0..Len(memory.order) : memory' = DropOldest(memory, k)
      BY <2>2 DEF PutTooLarge, Read
    <3> QED BY <3>1, PurgeRetires
  <2>3. ASSUME NEW p \in Procs, Clear(p) PROVE RetiredInOrder
    <3>1. Stored(memory') = {}
      BY <2>3 DEF Clear, EmptyMemory, Stored
    <3> QED BY <3>1 DEF RetiredInOrder
  <2>4. ASSUME NEW p \in Procs,
               \/ \E id \in Ids, size \in Sizes : BeginRecord(p, id, size)
               \/ PutAfterClose(p) \/ Close(p) \/ Persist(p) \/ FinishClose(p)
        PROVE  memory' = memory
    BY <2>4 DEF BeginRecord, PutAfterClose, Close, Persist, FinishClose, memoryVars
  <2>5. ASSUME StreamStep \/ Tick \/ UNCHANGED vars PROVE memory' = memory
    BY <2>5 DEF StreamStep, Subscribe, Unsubscribe, Receive, Tick, vars, memoryVars
  <2> QED BY <2>1, <2>2, <2>3, <2>4, <2>5, PutRetires DEF Next, MemoryStep
<1> QED BY StoreInOrder, <1>1, PTL DEF Spec, RetiresOldestFirst, RetiredInOrder

-----------------------------------------------------------------------------
(* Adding up sizes.  SizeOf is a fold over a set; what it computes is     *)
(* shown by induction over finite sets, on a smallest counterexample.      *)

\* A property of sets that a set has whenever its proper subsets have it holds
\* of every finite set: otherwise some smallest subset would lack it.
LEMMA SetInduction ==
    ASSUME NEW S, IsFiniteSet(S), NEW P,
           \A T \in SUBSET S : (\A U \in SUBSET T : U # T => U \in P) => T \in P
    PROVE  S \in P
PROOF
<1> SUFFICES ASSUME S \notin P PROVE FALSE
  OBVIOUS
<1> DEFINE bad == {T \in SUBSET S : T \notin P}
<1>2. FiniteSubsetsOf(S) = SUBSET S
  BY FS_FiniteSubsetsOfFinite
<1>3. IsWellFoundedOn(StrictSubsetOrdering(S), FiniteSubsetsOf(S))
  BY FS_StrictSubsetOrderingWellFounded
<1>4. \E T \in bad : \A U \in bad : ~ (<<U, T>> \in StrictSubsetOrdering(S))
  <2>1. bad \subseteq FiniteSubsetsOf(S)
    BY <1>2
  <2>2. bad # {}
    OBVIOUS
  <2> HIDE DEF bad
  <2> QED BY <1>3, <2>1, <2>2, WFMin
<1>5. PICK T \in bad : \A U \in bad : ~ (<<U, T>> \in StrictSubsetOrdering(S))
  BY <1>4
<1>8. \A U \in SUBSET T : U # T => U \notin bad
  BY <1>5 DEF StrictSubsetOrdering
<1> QED BY <1>8

\* The sizes added up, as SizeOf adds them: g gives the sum for every subset.
Folding(g, m, S) ==
  g = [T \in SUBSET S |-> IF T = {} THEN 0
         ELSE m.entries[CHOOSE x \in T : TRUE].size + g[T \ {CHOOSE x \in T : TRUE}]]

\* SizeOf is a folding function, applied.
LEMMA SizeIsFolding ==
    ASSUME NEW S, NEW m
    PROVE  SizeOf(m, S) = (CHOOSE g : Folding(g, m, S))[S]
PROOF
BY DEF SizeOf, MapThenSumSet, MapThenFoldSet, Folding

\* Two folding functions agree wherever both are defined ...
LEMMA FoldingUnique ==
    ASSUME NEW m, NEW S, NEW T, NEW g, NEW h, Folding(g, m, S), Folding(h, m, T),
           NEW U \in SUBSET S, U \in SUBSET T, IsFiniteSet(U)
    PROVE  g[U] = h[U]
PROOF
<1> DEFINE P == {V \in SUBSET U : g[V] = h[V]}
<1>1. ASSUME NEW V \in SUBSET U, \A W \in SUBSET V : W # V => W \in P PROVE V \in P
  <2> DEFINE x == CHOOSE x \in V : TRUE
  <2>1. CASE V = {}
     BY <2>1 DEF Folding
  <2>2. CASE V # {}
     <3>1. x \in V
       BY <2>2
     <3> HIDE DEF x
     <3>2. V \ {x} \in P
       BY <3>1, <1>1
     <3>3. /\ V \in SUBSET S /\ V \in SUBSET T
       OBVIOUS
     <3>4. g[V] = m.entries[x].size + g[V \ {x}]
       BY <2>2, <3>3 DEF Folding, x
     <3>5. h[V] = m.entries[x].size + h[V \ {x}]
       BY <2>2, <3>3 DEF Folding, x
     <3> QED BY <3>2, <3>4, <3>5
  <2> QED BY <2>1, <2>2
<1>2. U \in P
  <2> HIDE DEF P
  <2> QED BY <1>1, SetInduction
<1> QED BY <1>2

\* ... and there is one for every finite set.
LEMMA FoldingExists ==
    ASSUME NEW m, NEW S, IsFiniteSet(S)
    PROVE  \E g : Folding(g, m, S)
PROOF
<1> DEFINE P == {V \in SUBSET S : \E g : Folding(g, m, V)}
<1>1. ASSUME NEW V \in SUBSET S, \A W \in SUBSET V : W # V => W \in P PROVE V \in P
  <2> DEFINE c(T) == CHOOSE x \in T : TRUE
             own(W) == CHOOSE g : Folding(g, m, W)
             below(W) == own(W)[W]
             G == [W \in SUBSET V |-> IF W = {} THEN 0 ELSE IF W # V THEN below(W)
                     ELSE m.entries[c(V)].size + below(V \ {c(V)})]
  <2>0. IsFiniteSet(V)
    BY FS_Subset
  <2>1. ASSUME NEW W \in SUBSET V, W # V PROVE Folding(own(W), m, W)
    BY <1>1, <2>1
  <2>2. \A T \in SUBSET V : T # {} => c(T) \in T
    OBVIOUS
  <2> HIDE DEF c
  <2>3. below({}) = 0
    <3>1. CASE V = {}
      <4> DEFINE z == [T \in SUBSET {} |-> 0]
      <4>1. Folding(z, m, {})
        BY DEF Folding
      <4>2. Folding(own({}), m, {})
        BY <4>1
      <4> HIDE DEF own
      <4> QED BY <4>2 DEF Folding
    <3>2. CASE V # {}
      <4>2. Folding(own({}), m, {})
        BY <2>1, <3>2
      <4> HIDE DEF own
      <4> QED BY <4>2 DEF Folding
    <3> QED BY <3>1, <3>2
  <2>4. ASSUME NEW W \in SUBSET V, W # {}
        PROVE G[W] = m.entries[c(W)].size + G[W \ {c(W)}]
    <3>1. c(W) \in W
      BY <2>2, <2>4
    <3> DEFINE R == W \ {c(W)}
    <3>2. R \in SUBSET V /\ R # V /\ R \in SUBSET W /\ R # W
      BY <3>1
    <3>3. G[R] = below(R)
      BY <3>2, <2>3
    <3>4. CASE W = V
      BY <3>4, <3>3, <2>4
    <3>5. CASE W # V
      <4>1. Folding(own(W), m, W) /\ Folding(own(R), m, R)
        BY <2>1, <3>2, <3>5
      <4> HIDE DEF own
      <4>2. IsFiniteSet(R)
        BY <2>0, <3>2, FS_Subset
      <4>3. R \in SUBSET R
        OBVIOUS
      <4>4. own(W)[R] = own(R)[R]
        BY <4>1, <4>2, <4>3, <3>2, FoldingUnique
      <4>5. own(W)[W] = m.entries[c(W)].size + own(W)[R]
        BY <4>1, <2>4 DEF Folding, c
      <4>6. G[W] = own(W)[W]
        BY <3>5, <2>4
      <4> QED BY <4>4, <4>5, <4>6, <3>3
    <3> QED BY <3>4, <3>5
  <2>5. G[{}] = 0
    OBVIOUS
  <2>6. DOMAIN G = SUBSET V /\ G = [W \in SUBSET V |-> G[W]]
    OBVIOUS
  <2> HIDE DEF G
  <2>7. G = [T \in SUBSET V |-> IF T = {} THEN 0
         ELSE m.entries[c(T)].size + G[T \ {c(T)}]] BY <2>4, <2>5, <2>6
  <2>8. Folding(G, m, V)
    BY <2>7 DEF Folding, c
  <2> QED BY <2>8
<1>2. S \in P
  <2> HIDE DEF P
  <2> QED BY <1>1, SetInduction
<1> QED BY <1>2

\* What SizeOf computes: one of the entries is taken off, then the rest.
LEMMA SizeUnfolds ==
    ASSUME NEW m, NEW S, IsFiniteSet(S)
    PROVE  /\ SizeOf(m, {}) = 0
           /\ S # {} => LET x == CHOOSE x \in S : TRUE
                       IN  SizeOf(m, S) = m.entries[x].size + SizeOf(m, S \ {x})
PROOF
<1> DEFINE own(W) == CHOOSE g : Folding(g, m, W)
<1>1. Folding(own(S), m, S)
  BY FoldingExists
<1>2. Folding(own({}), m, {})
  BY FoldingExists, FS_EmptySet
<1>3. SizeOf(m, {}) = own({})[{}] /\ SizeOf(m, S) = own(S)[S]
  BY SizeIsFolding
<1>4. own({})[{}] = 0
  <2> HIDE DEF own
  <2> QED BY <1>2 DEF Folding
<1>5. ASSUME S # {}, NEW x, x = CHOOSE y \in S : TRUE
      PROVE SizeOf(m, S) = m.entries[x].size + SizeOf(m, S \ {x})
  <2>1. x \in S
    BY <1>5
  <2> DEFINE R == S \ {x}
  <2>2. IsFiniteSet(R) /\ R \in SUBSET S /\ R \in SUBSET R
    BY FS_Subset
  <2>3. Folding(own(R), m, R)
    BY <2>2, FoldingExists
  <2>4. SizeOf(m, R) = own(R)[R]
    BY SizeIsFolding
  <2> HIDE DEF own, R
  <2>5. own(S)[R] = own(R)[R]
    BY <1>1, <2>2, <2>3, FoldingUnique
  <2>6. own(S)[S] = m.entries[x].size + own(S)[R]
    BY <1>1, <1>5 DEF Folding, R
  <2> QED BY <2>4, <2>5, <2>6, <1>3 DEF R
<1> QED BY <1>3, <1>4, <1>5

\* The entries with these ids have a size.
Sized(m, S) == \A x \in S : m.entries[x].size \in Nat

\* A sum of sizes is a size.
LEMMA SizeIsNat ==
    ASSUME NEW m, NEW S, IsFiniteSet(S), Sized(m, S)
    PROVE  SizeOf(m, S) \in Nat
PROOF
<1> DEFINE P == {V \in SUBSET S : SizeOf(m, V) \in Nat}
<1>1. ASSUME NEW V \in SUBSET S, \A W \in SUBSET V : W # V => W \in P PROVE V \in P
  <2> DEFINE x == CHOOSE y \in V : TRUE
  <2>1. IsFiniteSet(V)
    BY FS_Subset
  <2>2. CASE V = {}
    <3>1. SizeOf(m, {}) = 0
      BY <2>1, SizeUnfolds
    <3> QED BY <2>2, <3>1
  <2>3. CASE V # {}
    <3>1. x \in V
      BY <2>3
    <3>2. SizeOf(m, V) = m.entries[x].size + SizeOf(m, V \ {x})
      BY <2>1, <2>3, SizeUnfolds
    <3> HIDE DEF x
    <3>3. V \ {x} \in P
      BY <1>1, <3>1
    <3> QED BY <3>1, <3>2, <3>3 DEF Sized
  <2> QED BY <2>2, <2>3
<1>2. S \in P
  <2> HIDE DEF P
  <2> QED BY <1>1, SetInduction
<1> QED BY <1>2

\* Any entry may be taken off first.
LEMMA SizeWithout ==
    ASSUME NEW m, NEW S, IsFiniteSet(S), Sized(m, S), NEW x \in S
    PROVE  SizeOf(m, S) = m.entries[x].size + SizeOf(m, S \ {x})
PROOF
<1> DEFINE P == {V \in SUBSET S :
                   \A y \in V : SizeOf(m, V) = m.entries[y].size + SizeOf(m, V \ {y})}
<1>1. ASSUME NEW V \in SUBSET S, \A W \in SUBSET V : W # V => W \in P PROVE V \in P
  <2> SUFFICES ASSUME NEW y \in V PROVE SizeOf(m, V) = m.entries[y].size + SizeOf(m, V \ {y})
    OBVIOUS
  <2> DEFINE c == CHOOSE z \in V : TRUE
  <2>1. c \in V /\ IsFiniteSet(V)
    BY FS_Subset
  <2>2. SizeOf(m, V) = m.entries[c].size + SizeOf(m, V \ {c})
    BY <2>1, SizeUnfolds
  <2> HIDE DEF c
  <2>3. CASE c = y
    BY <2>2, <2>3
  <2>4. CASE c # y
    <3>1. SizeOf(m, V \ {c}) = m.entries[y].size + SizeOf(m, (V \ {c}) \ {y})
      BY <2>1, <2>4, <1>1
    <3>2. SizeOf(m, V \ {y}) = m.entries[c].size + SizeOf(m, (V \ {y}) \ {c})
      BY <2>1, <2>4, <1>1
    <3>3. (V \ {c}) \ {y} = (V \ {y}) \ {c}
      OBVIOUS
    <3>4. SizeOf(m, (V \ {c}) \ {y}) \in Nat
      <4>1. IsFiniteSet((V \ {c}) \ {y})
        BY <2>1, FS_Subset
      <4> QED BY <4>1, SizeIsNat DEF Sized
    <3>5. m.entries[c].size \in Nat /\ m.entries[y].size \in Nat
      BY <2>1 DEF Sized
    <3> DEFINE r == SizeOf(m, (V \ {c}) \ {y})
    <3>6. SizeOf(m, V) = m.entries[c].size + (m.entries[y].size + r)
      BY <2>2, <3>1
    <3>7. SizeOf(m, V \ {y}) = m.entries[c].size + r
      BY <3>2, <3>3
    <3>8. r \in Nat
      BY <3>4
    <3> HIDE DEF r
    <3> QED BY <3>5, <3>6, <3>7, <3>8
  <2> QED BY <2>3, <2>4
<1>2. S \in P
  <2> HIDE DEF P
  <2> QED BY <1>1, SetInduction
<1> QED BY <1>2

\* The sum depends on the sizes of the entries that are added up only.
LEMMA SizeAgrees ==
    ASSUME NEW m, NEW n, NEW S, IsFiniteSet(S),
           \A x \in S : m.entries[x].size = n.entries[x].size
    PROVE  SizeOf(m, S) = SizeOf(n, S)
PROOF
<1> DEFINE P == {V \in SUBSET S : SizeOf(m, V) = SizeOf(n, V)}
<1>1. ASSUME NEW V \in SUBSET S, \A W \in SUBSET V : W # V => W \in P PROVE V \in P
  <2> DEFINE x == CHOOSE y \in V : TRUE
  <2>1. IsFiniteSet(V)
    BY FS_Subset
  <2>2. CASE V = {}
    BY <2>1, <2>2, SizeUnfolds
  <2>3. CASE V # {}
    <3>1. x \in V
      BY <2>3
    <3>2. SizeOf(m, V) = m.entries[x].size + SizeOf(m, V \ {x})
      BY <2>1, <2>3, SizeUnfolds
    <3>3. SizeOf(n, V) = n.entries[x].size + SizeOf(n, V \ {x})
      BY <2>1, <2>3, SizeUnfolds
    <3> HIDE DEF x
    <3>4. V \ {x} \in P
      BY <1>1, <3>1
    <3> QED BY <3>1, <3>2, <3>3, <3>4
  <2> QED BY <2>2, <2>3
<1>2. S \in P
  <2> HIDE DEF P
  <2> QED BY <1>1, SetInduction
<1> QED BY <1>2

\* The sum over a set is the sum over a part of it and over the rest.
LEMMA SizeSplits ==
    ASSUME NEW m, NEW S, IsFiniteSet(S), Sized(m, S), NEW T \in SUBSET S
    PROVE  SizeOf(m, S) = SizeOf(m, T) + SizeOf(m, S \ T)
PROOF
<1> DEFINE P == {V \in SUBSET T : SizeOf(m, S) = SizeOf(m, V) + SizeOf(m, S \ V)}
<1>0. IsFiniteSet(T)
  BY FS_Subset
<1>1. ASSUME NEW V \in SUBSET T, \A W \in SUBSET V : W # V => W \in P PROVE V \in P
  <2> DEFINE R == S \ V
  <2>1. IsFiniteSet(V) /\ IsFiniteSet(R)
    BY <1>0, FS_Subset
  <2>4. SizeOf(m, R) \in Nat
    BY <2>1, SizeIsNat DEF Sized
  <2>2. CASE V = {}
    <3>1. S \ V = S
      BY <2>2
    <3>2. SizeOf(m, {}) = 0
      BY <2>1, SizeUnfolds
    <3>3. SizeOf(m, S) \in Nat
      BY <2>4, <3>1
    <3>4. SizeOf(m, S) = SizeOf(m, {}) + SizeOf(m, S)
      BY <3>2, <3>3
    <3> QED BY <2>2, <3>1, <3>4
  <2>3. CASE V # {}
    <3>1. PICK x \in V : TRUE
      BY <2>3
    <3> DEFINE W == V \ {x}
    <3>2. SizeOf(m, S) = SizeOf(m, W) + SizeOf(m, S \ W)
      BY <1>1
    <3>3. S \ W = R \cup {x} /\ x \notin R /\ (R \cup {x}) \ {x} = R
      BY <3>1
    <3>4. IsFiniteSet(R \cup {x})
      BY <2>1, FS_AddElement
    <3>5. SizeOf(m, R \cup {x}) = m.entries[x].size + SizeOf(m, R)
      BY <3>3, <3>4, SizeWithout DEF Sized
    <3>6. SizeOf(m, V) = m.entries[x].size + SizeOf(m, W)
      BY <2>1, SizeWithout DEF Sized
    <3>7. IsFiniteSet(W)
      BY <2>1, FS_Subset
    <3>8. SizeOf(m, W) \in Nat /\ m.entries[x].size \in Nat
      BY <3>7, SizeIsNat DEF Sized
    <3>9. SizeOf(m, S) = SizeOf(m, V) + SizeOf(m, R)
      <4> HIDE DEF W, R
      <4> QED BY <2>4, <3>2, <3>3, <3>5, <3>6, <3>8
    <3> QED BY <3>9
  <2> QED BY <2>2, <2>3
<1>2. T \in P
  <2> HIDE DEF P
  <2> QED BY <1>0, <1>1, SetInduction
<1> QED BY <1>2

-----------------------------------------------------------------------------
(* The byte count and the limits.                                          *)

\* The byte count of a memory is the size of what it stores.
Balanced(m) ==
    /\ IsFiniteSet(Stored(m))
    /\ Sized(m, Stored(m))
    /\ m.bytes = SizeOf(m, Stored(m))

\* The empty store of Init and clear counts no bytes.
LEMMA EmptyBalances == Balanced(EmptyMemory)
PROOF
<1>1. Stored(EmptyMemory) = {} /\ EmptyMemory.bytes = 0
  BY DEF EmptyMemory, Stored
<1> HIDE DEF EmptyMemory
<1>2. IsFiniteSet({})
  BY FS_EmptySet
<1>3. SizeOf(EmptyMemory, {}) = 0
  BY <1>2, SizeUnfolds
<1> QED BY <1>1, <1>2, <1>3 DEF Balanced, Sized

\* removeOldestLocked: what it takes off the count is what it drops, so the
\* store only gets smaller.
LEMMA DropBalances ==
    ASSUME NEW m, Exact(m), Balanced(m), NEW k \in 0..Len(m.order)
    PROVE  /\ Balanced(DropOldest(m, k))
           /\ DropOldest(m, k).bytes <= m.bytes
           /\ Len(DropOldest(m, k).order) = Len(m.order) - k
PROOF
<1> DEFINE d == DropOldest(m, k)
           gone == {m.order[i] : i \in 1..k}
           rest == Stored(m) \ gone
<1>1. /\ Stored(d) = rest
      /\ d.entries = [id \in rest |-> m.entries[id]]
      /\ d.bytes = m.bytes - SizeOf(m, gone)
      /\ d.order = SubSeq(m.order, k + 1, Len(m.order))
  BY DEF DropOldest, Stored
<1>2. gone \subseteq Stored(m)
  <2>1. Len(m.order) \in Nat
    BY DEF Exact
  <2>2. \A i \in 1..k : i \in 1..Len(m.order)
    BY <2>1
  <2> QED BY <2>2 DEF Exact
<1>3. Len(d.order) = Len(m.order) - k
  BY <1>1 DEF Exact
<1> HIDE DEF d, gone, rest
<1>4. IsFiniteSet(gone) /\ IsFiniteSet(rest)
  BY <1>2, FS_Subset DEF Balanced, rest
<1>5. Sized(m, gone) /\ Sized(m, rest)
  BY <1>2 DEF Balanced, Sized, rest
<1>6. SizeOf(m, gone) \in Nat /\ SizeOf(m, rest) \in Nat
  BY <1>4, <1>5, SizeIsNat
<1>7. m.bytes = SizeOf(m, gone) + SizeOf(m, rest)
  BY <1>2, SizeSplits DEF Balanced, rest
<1>8. d.bytes = SizeOf(m, rest) /\ d.bytes <= m.bytes
  BY <1>1, <1>6, <1>7
<1>9. \A x \in rest : m.entries[x].size = d.entries[x].size
  BY <1>1
<1>10. SizeOf(m, rest) = SizeOf(d, rest)
  BY <1>4, <1>9, SizeAgrees
<1>11. Sized(d, rest)
  BY <1>5, <1>9 DEF Sized
<1> QED BY <1>1, <1>3, <1>4, <1>8, <1>10, <1>11 DEF Balanced, d

\* removeMemoryLocked, and put when it replaces an entry.
LEMMA ForgetBalances ==
    ASSUME NEW m, Balanced(m), NEW id
    PROVE  Balanced(Forget(m, id))
PROOF
<1> DEFINE f == Forget(m, id)
           rest == Stored(m) \ {id}
<1>1. CASE id \notin Stored(m)
  BY <1>1 DEF Forget
<1>2. CASE id \in Stored(m)
  <2>1. /\ Stored(f) = rest
        /\ f.entries = [x \in rest |-> m.entries[x]]
        /\ f.bytes = m.bytes - m.entries[id].size
    BY <1>2 DEF Forget, Stored
  <2> HIDE DEF f
  <2>2. IsFiniteSet(rest) /\ Sized(m, rest)
    BY FS_Subset DEF Balanced, Sized
  <2>3. SizeOf(m, rest) \in Nat
    BY <2>2, SizeIsNat
  <2>4. m.bytes = m.entries[id].size + SizeOf(m, rest)
    BY <1>2, SizeWithout DEF Balanced
  <2>5. m.entries[id].size \in Nat
    BY <1>2 DEF Balanced, Sized
  <2>6. f.bytes = SizeOf(m, rest)
    <3> HIDE DEF rest
    <3> QED BY <2>1, <2>3, <2>4, <2>5
  <2>7. \A x \in rest : m.entries[x].size = f.entries[x].size
    BY <2>1
  <2>8. SizeOf(m, rest) = SizeOf(f, rest)
    BY <2>2, <2>7, SizeAgrees
  <2>9. Sized(f, rest)
    BY <2>2, <2>7 DEF Sized
  <2> QED BY <2>1, <2>2, <2>6, <2>8, <2>9 DEF Balanced, f
<1> QED BY <1>1, <1>2

\* put: the entry it adds was not counted before.
LEMMA InsertBalances ==
    ASSUME NEW m, Balanced(m), NEW entry, entry.id \notin Stored(m), entry.size \in Nat
    PROVE  Balanced(Insert(m, entry))
PROOF
<1> DEFINE t == Insert(m, entry)
           all == Stored(m) \cup {entry.id}
<1>1. /\ Stored(t) = all
      /\ t.entries[entry.id] = entry
      /\ \A x \in Stored(m) : t.entries[x] = m.entries[x]
      /\ t.bytes = m.bytes + entry.size
  BY DEF Insert, Stored
<1> HIDE DEF t
<1>2. IsFiniteSet(all)
  BY FS_AddElement DEF Balanced
<1>3. Sized(t, all) /\ Sized(t, Stored(m))
  BY <1>1 DEF Balanced, Sized
<1>4. all \ {entry.id} = Stored(m)
  OBVIOUS
<1>5. SizeOf(t, all) = entry.size + SizeOf(t, Stored(m))
  BY <1>1, <1>2, <1>3, <1>4, SizeWithout
<1>6. SizeOf(t, Stored(m)) = SizeOf(m, Stored(m)) /\ SizeOf(m, Stored(m)) \in Nat
  BY <1>1, SizeAgrees, SizeIsNat DEF Balanced
<1>7. t.bytes = SizeOf(t, all)
  <2> HIDE DEF all
  <2> QED BY <1>1, <1>5, <1>6 DEF Balanced
<1> QED BY <1>1, <1>2, <1>3, <1>7 DEF Balanced, t

\* The inductive invariant for the limits.  LimitsHold is not inductive: that a
\* purge makes the store smaller rests on the byte count being exact.
Accounted ==
    /\ Balanced(memory)
    /\ LimitsHold
    /\ \A p \in Procs : call[p].at = "put" => call[p].size \in Nat

\* The store opens empty, within limits that are all positive.
LEMMA InitAccounts == Init => Accounted
PROOF
<1> SUFFICES ASSUME Init PROVE Accounted
  OBVIOUS
<1>1. Balanced(memory)
  BY EmptyBalances DEF Init
<1>2. WithinLimits(memory)
  BY StoreAssumption DEF Init, WithinLimits, EmptyMemory
<1>3. \A p \in Procs : call[p].at # "put"
  BY DEF Init, Idle
<1> QED BY <1>1, <1>2, <1>3 DEF Accounted, LimitsHold

\* A purge keeps the limits (the reads, and put when it refuses).
LEMMA PurgeAccounts ==
    ASSUME IInv, Balanced(memory), LimitsHold, NEW k \in 0..Len(memory.order),
           memory' = DropOldest(memory, k)
    PROVE  Balanced(memory') /\ LimitsHold'
PROOF
<1>1. /\ Balanced(DropOldest(memory, k))
      /\ DropOldest(memory, k).bytes <= memory.bytes
      /\ Len(DropOldest(memory, k).order) = Len(memory.order) - k
  BY DropBalances DEF IInv, WellOrdered
<1>2. Len(memory.order) \in Nat /\ memory.bytes \in Nat
  BY SizeIsNat DEF IInv, WellOrdered, Exact, Balanced
<1>3. DropOldest(memory, k).bytes \in Nat
  BY <1>1, SizeIsNat DEF Balanced
<1>4. WithinLimits(memory')
  <2>1. /\ memory'.bytes = DropOldest(memory, k).bytes
        /\ Len(memory'.order) = Len(memory.order) - k
    BY <1>1
  <2>2. memory'.bytes <= memory.bytes /\ Len(memory'.order) <= Len(memory.order)
        /\ memory'.bytes \in Nat /\ Len(memory'.order) \in Nat
    BY <1>1, <1>2, <1>3, <2>1
  <2> QED BY <1>2, <2>2, StoreAssumption DEF WithinLimits, LimitsHold
<1>5. Balanced(memory')
  BY <1>1
<1> QED BY <1>4, <1>5 DEF LimitsHold

\* What put does, in one place: the entry becomes the newest of a well-ordered
\* memory with an exact count, then evictLocked drops the oldest ones.
LEMMA PutDoes ==
    ASSUME IInv, Accounted, NEW p \in Procs, Put(p)
    PROVE  \E replaced, entry : \E e \in 0..Len(replaced.order) :
             /\ WellOrdered(replaced, nextCursor + 1)
             /\ Balanced(replaced)
             /\ entry.cursor = nextCursor' /\ nextCursor' = nextCursor + 1
             /\ entry.recordedAt = call[p].recordedAt
             /\ entry.size \in Nat /\ entry.size <= MaxBytes
             /\ entry.id \in Stored(replaced)
             /\ replaced.entries[entry.id] = entry
             /\ replaced.order[Len(replaced.order)] = entry.id
             /\ EvictCount(replaced, e)
             /\ memory' = DropOldest(replaced, e)
PROOF
<1> DEFINE entry == [id |-> call[p].id, size |-> call[p].size,
                     recordedAt |-> call[p].recordedAt,
                     cursor |-> nextCursor + 1]
<1>1. PICK k \in 0..Len(memory.order) :
        \E e \in 0..Len(Replace(DropOldest(memory, k), entry).order) :
          /\ EvictCount(Replace(DropOldest(memory, k), entry), e)
          /\ memory' = DropOldest(Replace(DropOldest(memory, k), entry), e)
  BY DEF Put
<1>2. /\ entry.id \in Ids /\ entry.cursor = nextCursor + 1
      /\ entry.recordedAt = call[p].recordedAt
      /\ entry.size \in Nat /\ entry.size <= MaxBytes
      /\ nextCursor \in Nat /\ nextCursor + 1 \in Nat
      /\ nextCursor' = nextCursor + 1
  BY DEF IInv, Accounted, Put, Fits
<1> DEFINE purged == DropOldest(memory, k)
           known == Forget(purged, entry.id)
           replaced == Replace(purged, entry)
<1>3. PICK e \in 0..Len(replaced.order) :
        EvictCount(replaced, e) /\ memory' = DropOldest(replaced, e)
  BY <1>1
<1> HIDE DEF entry
<1>4. WellOrdered(purged, nextCursor) /\ Balanced(purged)
  BY <1>2, DropKeeps, DropBalances DEF IInv, Accounted, WellOrdered
<1> HIDE DEF purged
<1>5. /\ WellOrdered(known, nextCursor) /\ entry.id \notin Stored(known)
      /\ Balanced(known)
  BY <1>2, <1>4, ForgetKeeps, ForgetBalances
<1>6. replaced = Insert(known, entry)
  BY DEF Replace
<1> HIDE DEF known, replaced
<1>7. WellOrdered(replaced, nextCursor + 1) /\ Balanced(replaced)
  BY <1>2, <1>5, <1>6, InsertKeeps, InsertBalances
<1>8. /\ entry.id \in Stored(replaced)
      /\ replaced.entries[entry.id] = entry
      /\ replaced.order[Len(replaced.order)] = entry.id
  <2>1. replaced.order = Append(known.order, entry.id) /\ known.order \in Seq(Ids)
    BY <1>5, <1>6 DEF Insert, WellOrdered, Exact
  <2>2. replaced.order[Len(replaced.order)] = entry.id
    BY <1>2, <2>1
  <2> QED BY <1>6, <2>2 DEF Insert, Stored
<1> QED BY <1>2, <1>3, <1>7, <1>8

\* A batch leaves its caller in persist or returns to it.
LEMMA BatchSizes ==
    ASSUME IInv, Accounted, NEW p \in Procs, NEW records, IssueBatch(p, records)
    PROVE  \A q \in Procs : call'[q].at = "put" => call'[q].size \in Nat
PROOF
<1>1. /\ call'[p].at # "put"
      /\ \A q \in Procs \ {p} : call'[q] = call[q]
  BY DEF IssueBatch, Idle, IInv
<1> QED BY <1>1 DEF Accounted

\* Every step keeps the account.
LEMMA StepAccounts == IInv /\ Accounted /\ [Next]_vars => Accounted'
PROOF
<1> SUFFICES ASSUME IInv, Accounted, [Next]_vars PROVE Accounted'
  OBVIOUS
<1> DEFINE CallsSized == \A q \in Procs : call'[q].at = "put" => call'[q].size \in Nat
<1>0. ASSUME memory' = memory, CallsSized PROVE Accounted'
  BY <1>0 DEF Accounted, LimitsHold
<1>1. ASSUME NEW p \in Procs, NEW id \in Ids, NEW size \in Sizes, BeginRecord(p, id, size)
      PROVE  Accounted'
  <2>1. memory' = memory /\ CallsSized
    BY <1>1, StoreAssumption DEF BeginRecord, memoryVars, Accounted, IInv
  <2> QED BY <1>0, <2>1
<1>2. ASSUME NEW p \in Procs,
             PutAfterClose(p) \/ Close(p) \/ Persist(p) \/ FinishClose(p)
      PROVE  Accounted'
  <2>1. /\ memory' = memory /\ call'[p].at # "put"
        /\ \A q \in Procs \ {p} : call'[q] = call[q]
    BY <1>2 DEF PutAfterClose, Close, Persist, FinishClose, memoryVars, Idle, IInv
  <2> QED BY <1>0, <2>1 DEF Accounted
<1>3. ASSUME NEW p \in Procs, PutTooLarge(p) \/ Read(p) PROVE Accounted'
  <2>1. PICK k \in 0..Len(memory.order) :
          memory' = DropOldest(memory, k) /\ \E records : IssueBatch(p, records)
    BY <1>3 DEF PutTooLarge, Read, IInv, WellOrdered, Exact
  <2> QED BY <2>1, PurgeAccounts, BatchSizes DEF Accounted
<1>4. ASSUME NEW p \in Procs, Put(p) PROVE Accounted'
  <2>1. PICK replaced, entry : \E e \in 0..Len(replaced.order) :
          /\ WellOrdered(replaced, nextCursor + 1) /\ Balanced(replaced)
          /\ EvictCount(replaced, e)
          /\ memory' = DropOldest(replaced, e)
    BY <1>4, PutDoes
  <2>2. Balanced(memory') /\ WithinLimits(memory')
    BY <2>1, DropBalances DEF EvictCount, WellOrdered
  <2>3. \E records : IssueBatch(p, records)
    BY <1>4 DEF Put
  <2> QED BY <2>2, <2>3, BatchSizes DEF Accounted, LimitsHold
<1>5. ASSUME NEW p \in Procs, Clear(p) PROVE Accounted'
  <2>1. memory' = EmptyMemory /\ \E records : IssueBatch(p, records)
    BY <1>5 DEF Clear
  <2>2. WithinLimits(EmptyMemory)
    BY StoreAssumption DEF WithinLimits, EmptyMemory
  <2> QED BY <2>1, <2>2, EmptyBalances, BatchSizes DEF Accounted, LimitsHold
<1>6. ASSUME StreamStep \/ Tick \/ UNCHANGED vars PROVE Accounted'
  <2>1. memory' = memory /\ call' = call
    BY <1>6 DEF StreamStep, Subscribe, Unsubscribe, Receive, Tick, vars, memoryVars
  <2> QED BY <1>0, <2>1 DEF Accounted
<1> QED BY <1>1, <1>2, <1>3, <1>4, <1>5, <1>6 DEF Next, MemoryStep

\* The account holds of every reachable store.
THEOREM StoreIsAccounted == Spec => []Accounted
PROOF
<1> QED BY StoreInOrder, InitAccounts, StepAccounts, PTL DEF Spec

\* The running byte count is the size of what is stored: the subtractions and
\* additions of replacing, purging, evicting and clearing balance.
THEOREM BytesStayExact == Spec => []BytesExact
PROOF
<1>1. Accounted => BytesExact
  BY DEF Accounted, Balanced, BytesExact
<1> QED BY StoreIsAccounted, <1>1, PTL

\* The three indexes of what is stored agree between any two steps, on every path
\* of put, of the reads that purge, and of clear.
THEOREM IndexesAlwaysAgree == Spec => []IndexesAgree
PROOF
<1>1. OrderExact /\ BytesExact => IndexesAgree
  BY DEF IndexesAgree
<1> QED BY OrderIsExact, BytesStayExact, <1>1, PTL

\* Whoever takes the lock next finds the store within maxEvents and maxBytes.
THEOREM LimitsAlwaysHold == Spec => []LimitsHold
PROOF
<1>1. Accounted => LimitsHold
  BY DEF Accounted
<1> QED BY StoreIsAccounted, <1>1, PTL

\* evictLocked stops before the newest entry if that one fits by itself: alone
\* it is within the limits, of which none is zero.
LEMMA EvictionSparesNewest ==
    ASSUME NEW m, Exact(m), Balanced(m),
           NEW id \in Stored(m), m.order[Len(m.order)] = id,
           m.entries[id].size <= MaxBytes,
           NEW e \in 0..Len(m.order), EvictCount(m, e)
    PROVE  id \in Stored(DropOldest(m, e)) /\ DropOldest(m, e).entries[id] = m.entries[id]
PROOF
<1> DEFINE n == Len(m.order)
           one == DropOldest(m, n - 1)
<1>1. n \in Nat \ {0}
  BY DEF Exact
<1>2. n - 1 \in 0..n
  BY <1>1
<1>3. /\ Exact(one) /\ Balanced(one) /\ Len(one.order) = 1
  <2> HIDE DEF one
  <2>1. Exact(one) /\ Balanced(one) /\ Len(one.order) = n - (n - 1)
    BY <1>2, DropExact, DropBalances DEF one
  <2> QED BY <1>1, <2>1
<1>4. one.order[1] = id
  <2>1. one.order = SubSeq(m.order, n - 1 + 1, n)
    BY DEF DropOldest
  <2> QED BY <1>1, <2>1 DEF Exact
<1> HIDE DEF one
<1>5. Stored(one) = {id}
  BY <1>3, <1>4 DEF Exact
<1>6. one.entries[id] = m.entries[id]
  BY <1>5, DropLeaves DEF one
<1>7. one.bytes = m.entries[id].size
  <2>1. one.bytes = SizeOf(one, {id}) /\ IsFiniteSet({id}) /\ Sized(one, {id})
    BY <1>3, <1>5 DEF Balanced
  <2>2. SizeOf(one, {id}) = one.entries[id].size + SizeOf(one, {id} \ {id})
    BY <2>1, SizeWithout
  <2>3. SizeOf(one, {id} \ {id}) = 0
    <3>1. SizeOf(one, {}) = 0 /\ {id} \ {id} = {}
      BY <2>1, SizeUnfolds
    <3> QED BY <3>1
  <2>4. one.entries[id].size \in Nat
    BY <2>1 DEF Sized
  <2> QED BY <1>6, <2>1, <2>2, <2>3, <2>4
<1>8. WithinLimits(one)
  BY <1>3, <1>7, StoreAssumption DEF WithinLimits
<1>9. e # n
  BY <1>1, <1>8 DEF EvictCount, one
<1>10. id \notin {m.order[i] : i \in 1..e}
  BY <1>1, <1>9 DEF Exact
<1> QED BY <1>10 DEF DropOldest, Stored

\* What put does to memory and what it issues: the entry is not among those
\* that make room for it.
LEMMA PutIssues ==
    ASSUME Exact(memory), Balanced(memory), NEW p \in Procs, Put(p),
           call[p].id \in Ids, call[p].size \in Nat,
           NEW entry, entry = [id |-> call[p].id, size |-> call[p].size,
                               recordedAt |-> call[p].recordedAt,
                               cursor |-> nextCursor + 1]
    PROVE  \E k \in 0..Len(memory.order) :
           \E replaced : \E e \in 0..Len(replaced.order) :
             /\ replaced = Replace(DropOldest(memory, k), entry)
             /\ memory' = DropOldest(replaced, e)
             /\ entry.id \notin {replaced.order[i] : i \in 1..e}
             /\ IssueBatch(p, DeleteRecords(memory, k) \o DeleteRecords(replaced, e)
                               \o <<PutRecord(entry)>>)
PROOF
<1>1. PICK k \in 0..Len(memory.order) :
        \E e \in 0..Len(Replace(DropOldest(memory, k), entry).order) :
          /\ EvictCount(Replace(DropOldest(memory, k), entry), e)
          /\ memory' = DropOldest(Replace(DropOldest(memory, k), entry), e)
          /\ IssueBatch(p, DeleteRecords(memory, k)
                            \o DeleteRecords(Replace(DropOldest(memory, k), entry), e)
                            \o <<PutRecord(entry)>>)
  BY DEF Put
<1>2. entry.id \in Ids /\ entry.size \in Nat /\ entry.size <= MaxBytes
  BY DEF Put, Fits
<1> DEFINE purged == DropOldest(memory, k)
           known == Forget(purged, entry.id)
           replaced == Replace(purged, entry)
<1>3. PICK e \in 0..Len(replaced.order) :
        /\ EvictCount(replaced, e) /\ memory' = DropOldest(replaced, e)
        /\ IssueBatch(p, DeleteRecords(memory, k) \o DeleteRecords(replaced, e)
                          \o <<PutRecord(entry)>>)
  BY <1>1
<1>4. Exact(purged) /\ Balanced(purged)
  BY DropExact, DropBalances
<1> HIDE DEF purged
<1>5. Exact(known) /\ entry.id \notin Stored(known) /\ Balanced(known)
  BY <1>4, ForgetExact, ForgetBalances
<1>6. replaced = Insert(known, entry)
  BY DEF Replace
<1> HIDE DEF known, replaced
<1>7. /\ Exact(replaced) /\ Balanced(replaced)
      /\ entry.id \in Stored(replaced) /\ replaced.entries[entry.id] = entry
      /\ Len(replaced.order) = Len(known.order) + 1
      /\ replaced.order[Len(known.order) + 1] = entry.id
  BY <1>2, <1>5, <1>6, InsertExact, InsertBalances
<1>8. replaced.order[Len(replaced.order)] = entry.id
  BY <1>7
<1>9. entry.id \in Stored(DropOldest(replaced, e))
  BY <1>2, <1>3, <1>7, <1>8, EvictionSparesNewest
<1>10. entry.id \notin {replaced.order[i] : i \in 1..e}
  BY <1>9 DEF DropOldest, Stored
<1> QED BY <1>3, <1>10 DEF replaced, purged

\* An accepted entry is in the store when put unlocks: making room for it never
\* evicts the entry itself.
THEOREM AcceptedIsStored == Spec => AcceptedEntryIsStored
PROOF
<1> DEFINE Kept == \A p \in Procs :
        call[p].at = "put" /\ nextCursor' > nextCursor /\ call'[p] # call[p]
          => \E id \in Stored(memory') :
               /\ memory'.entries[id].cursor = nextCursor'
               /\ memory'.entries[id].recordedAt = call[p].recordedAt
<1>1. ASSUME IInv, Accounted, [Next]_vars PROVE Kept
  <2> SUFFICES ASSUME NEW p \in Procs,
                      call[p].at = "put", nextCursor' > nextCursor, call'[p] # call[p]
               PROVE  \E id \in Stored(memory') :
                        /\ memory'.entries[id].cursor = nextCursor'
                        /\ memory'.entries[id].recordedAt = call[p].recordedAt
    OBVIOUS
  <2>1. CASE Put(p)
    <3>1. PICK replaced, entry : \E e \in 0..Len(replaced.order) :
           /\ WellOrdered(replaced, nextCursor + 1)
           /\ Balanced(replaced)
           /\ entry.cursor = nextCursor'
           /\ entry.recordedAt = call[p].recordedAt
           /\ entry.size <= MaxBytes
           /\ entry.id \in Stored(replaced)
           /\ replaced.entries[entry.id] = entry
           /\ replaced.order[Len(replaced.order)] = entry.id
           /\ EvictCount(replaced, e)
           /\ memory' = DropOldest(replaced, e)
      BY <1>1, <2>1, PutDoes
    <3>2. nextCursor + 1 \in Nat
      BY <1>1 DEF IInv
    <3>3. entry.id \in Stored(memory') /\ memory'.entries[entry.id] = entry
      BY <3>1, <3>2, EvictionSparesNewest DEF WellOrdered
    <3> QED BY <3>1, <3>3
  <2>2. ASSUME NEW q \in Procs, q # p, Put(q) \/ Clear(q) PROVE FALSE
    <3>1. \E records : IssueBatch(q, records)
      BY <2>2 DEF Put, Clear
    <3>2. call'[p] = call[p]
      BY <2>2, <3>1, <1>1 DEF IssueBatch, IInv
    <3> QED BY <3>2
  <2>3. ~Clear(p)
    BY DEF Clear, Idle
  <2>4. ASSUME \/ \E q \in Procs :
                    \/ \E id \in Ids, size \in Sizes : BeginRecord(q, id, size)
                    \/ PutAfterClose(q) \/ PutTooLarge(q) \/ Read(q) \/ Close(q)
                    \/ Persist(q) \/ FinishClose(q)
               \/ StreamStep \/ Tick \/ UNCHANGED vars
        PROVE  FALSE
    <3>1. nextCursor' = nextCursor
      BY <2>4 DEF BeginRecord, PutAfterClose, PutTooLarge, Read, Close, Persist,
                  FinishClose, StreamStep, Subscribe, Unsubscribe, Receive, Tick,
                  vars, memoryVars
    <3> QED BY <3>1, <1>1 DEF IInv
  <2> QED BY <1>1, <2>1, <2>2, <2>3, <2>4 DEF Next, MemoryStep
<1>2. IInv /\ Accounted /\ [Next]_vars => Kept
  BY <1>1
<1> QED BY StoreInOrder, StoreIsAccounted, <1>2, PTL DEF Spec, AcceptedEntryIsStored

-----------------------------------------------------------------------------
(* The streams.                                                            *)

\* What a subscription is told.
MessageTypes == {"event.created", "event.updated", "events.cleared", "events.dropped"}

Messages == [type : MessageTypes, cursor : Nat]

\* The cursors announced in a channel.
Numbers(ch) == {ch[i].cursor : i \in {j \in 1..Len(ch) : ch[j].cursor # 0}}

\* Announcements stand in cursor order.
Ascends(ch) ==
    \A i, j \in 1..Len(ch) :
        i < j /\ ch[i].cursor # 0 /\ ch[j].cursor # 0 => ch[i].cursor < ch[j].cursor

\* The channel announces every cursor after from, up to to, and no other.
Continues(ch, from, to) ==
    /\ ch \in Seq(Messages)
    /\ from \in Nat /\ to \in Nat /\ from <= to
    /\ Ascends(ch)
    /\ Numbers(ch) = (from + 1)..to

\* The inductive invariant: every channel goes on from what its reader has
\* seen without a gap, and up to the current cursor while it is subscribed.
StreamInv ==
    /\ subscribers \subseteq DOMAIN channel
    /\ DOMAIN seen = DOMAIN channel
    /\ \A s \in DOMAIN channel : \E to \in Nat : Continues(channel[s], seen[s], to)
    /\ \A s \in subscribers : Continues(channel[s], seen[s], nextCursor)

\* A new subscription goes on from the current cursor.
LEMMA EmptyContinues ==
    ASSUME NEW from \in Nat
    PROVE  Continues(<<>>, from, from)
PROOF
<1>1. <<>> \in Seq(Messages) /\ 1..Len(<<>>) = {}
  OBVIOUS
<1>2. (from + 1)..from = {}
  OBVIOUS
<1>3. Numbers(<<>>) = {}
  BY <1>1 DEF Numbers
<1>4. Ascends(<<>>)
  BY <1>1 DEF Ascends
<1> DEFINE none == <<>>
<1>5. none \in Seq(Messages) /\ Ascends(none) /\ Numbers(none) = (from + 1)..from
  BY <1>1, <1>2, <1>3, <1>4
<1> HIDE DEF none
<1>6. Continues(none, from, from)
  BY <1>5 DEF Continues
<1> QED BY <1>6 DEF none

\* broadcastLocked appends the next cursor, or a message without one.
LEMMA AppendContinues ==
    ASSUME NEW ch, NEW from, NEW to, Continues(ch, from, to), NEW message \in Messages
    PROVE  /\ message.cursor = 0 => Continues(Append(ch, message), from, to)
           /\ message.cursor = to + 1 => Continues(Append(ch, message), from, to + 1)
PROOF
<1> DEFINE longer == Append(ch, message)
           n == Len(ch)
<1>1. /\ n \in Nat /\ from \in Nat /\ to \in Nat /\ from <= to
      /\ longer \in Seq(Messages) /\ Len(longer) = n + 1
      /\ \A i \in 1..n : longer[i] = ch[i]
      /\ longer[n + 1] = message
  BY DEF Continues
<1>2. \A i \in 1..(n + 1) : i \in 1..n \/ i = n + 1
  BY <1>1
<1>3. n + 1 \in 1..(n + 1) /\ \A i \in 1..n : i \in 1..(n + 1)
  BY <1>1
<1>4. Numbers(longer) = Numbers(ch) \cup (IF message.cursor = 0 THEN {} ELSE {message.cursor})
  <2> HIDE DEF longer, n
  <2> QED BY <1>1, <1>2, <1>3 DEF Numbers, n
<1>5. \A i \in 1..n : ch[i].cursor # 0 => ch[i].cursor \in (from + 1)..to
  BY DEF Continues, Numbers
<1>6. ASSUME message.cursor = 0 \/ message.cursor = to + 1
      PROVE  Ascends(longer)
  <2> SUFFICES ASSUME NEW i \in 1..(n + 1), NEW j \in 1..(n + 1), i < j,
                      longer[i].cursor # 0, longer[j].cursor # 0
               PROVE  longer[i].cursor < longer[j].cursor
    BY <1>1 DEF Ascends
  <2>1. i \in 1..n /\ longer[i] = ch[i]
    BY <1>1, <1>2
  <2>2. CASE j \in 1..n
    <3>1. longer[j] = ch[j]
      BY <2>2, <1>1
    <3> QED BY <2>1, <2>2, <3>1 DEF Continues, Ascends
  <2>3. CASE j = n + 1
    <3>1. longer[j] = message /\ ch[i].cursor \in (from + 1)..to
      BY <2>1, <2>3, <1>1, <1>5
    <3> QED BY <2>1, <3>1, <1>1, <1>6
  <2> QED BY <1>2, <2>2, <2>3
<1>7. ASSUME message.cursor = 0 PROVE Continues(longer, from, to)
  BY <1>1, <1>4, <1>6, <1>7 DEF Continues
<1>8. ASSUME message.cursor = to + 1 PROVE Continues(longer, from, to + 1)
  <2>1. (from + 1)..(to + 1) = ((from + 1)..to) \cup {to + 1}
    BY <1>1
  <2>2. to + 1 # 0 /\ to + 1 \in Nat /\ from <= to + 1
    BY <1>1
  <2>3. Numbers(longer) = (from + 1)..(to + 1)
    BY <1>4, <1>8, <2>1, <2>2 DEF Continues
  <2> QED BY <1>1, <1>6, <1>8, <2>2, <2>3 DEF Continues
<1> QED BY <1>7, <1>8

\* The reader takes the oldest message, and has then seen its cursor.
LEMMA TailContinues ==
    ASSUME NEW ch, NEW from, NEW to, Continues(ch, from, to), ch # <<>>
    PROVE  Continues(Tail(ch), IF Head(ch).cursor = 0 THEN from ELSE Head(ch).cursor, to)
PROOF
<1> DEFINE rest == Tail(ch)
           n == Len(ch)
           first == Head(ch).cursor
<1>1. /\ n \in Nat /\ n # 0 /\ from \in Nat /\ to \in Nat /\ from <= to
      /\ rest \in Seq(Messages) /\ Len(rest) = n - 1
      /\ \A i \in 1..(n - 1) : rest[i] = ch[i + 1]
      /\ first = ch[1].cursor /\ ch[1] \in Messages
  BY DEF Continues
<1>2. \A i \in 1..(n - 1) : i + 1 \in 1..n
  BY <1>1
<1>3. \A i \in 1..n : i = 1 \/ (i - 1 \in 1..(n - 1) /\ (i - 1) + 1 = i)
  BY <1>1
<1>4. 1 \in 1..n
  BY <1>1
<1> HIDE DEF rest, n, first
<1>5. Ascends(rest)
  <2> SUFFICES ASSUME NEW i \in 1..(n - 1), NEW j \in 1..(n - 1), i < j,
                      rest[i].cursor # 0, rest[j].cursor # 0
               PROVE  rest[i].cursor < rest[j].cursor
    BY <1>1 DEF Ascends
  <2> DEFINE a == i + 1
             b == j + 1
  <2>1. a \in 1..n /\ b \in 1..n /\ a < b /\ rest[i] = ch[a] /\ rest[j] = ch[b]
    BY <1>1
  <2> HIDE DEF a, b
  <2> QED BY <2>1 DEF Continues, Ascends, n
<1>6. Numbers(ch) = Numbers(rest) \cup (IF first = 0 THEN {} ELSE {first})
  <2>1. ASSUME NEW x \in Numbers(ch), x # first PROVE x \in Numbers(rest)
    <3>1. PICK i \in 1..n : ch[i].cursor = x /\ x # 0
      BY <2>1 DEF Numbers, n
    <3>2. i # 1
      BY <2>1, <3>1, <1>1
    <3>3. i - 1 \in 1..(n - 1) /\ rest[i - 1] = ch[i]
      BY <3>2, <1>1, <1>3
    <3> QED BY <3>1, <3>3, <1>1 DEF Numbers
  <2>2. ASSUME NEW x \in Numbers(rest) PROVE x \in Numbers(ch)
    <3>1. PICK i \in 1..(n - 1) : rest[i].cursor = x /\ x # 0
      BY <2>2, <1>1 DEF Numbers
    <3>2. i + 1 \in 1..n /\ ch[i + 1].cursor = x
      BY <3>1, <1>1, <1>2
    <3> QED BY <3>1, <3>2 DEF Numbers, n
  <2>3. first # 0 => first \in Numbers(ch)
    BY <1>1, <1>4 DEF Numbers, n
  <2>4. \A x \in Numbers(ch) : x # 0
    BY DEF Numbers
  <2> QED BY <2>1, <2>2, <2>3, <2>4
<1>7. CASE first = 0
  BY <1>1, <1>5, <1>6, <1>7 DEF Continues, rest, first
<1>8. CASE first # 0
  <2>1. \A x \in Numbers(rest) : first < x
    <3> SUFFICES ASSUME NEW x \in Numbers(rest) PROVE first < x
      OBVIOUS
    <3>1. PICK i \in 1..(n - 1) : rest[i].cursor = x /\ x # 0
      BY <1>1 DEF Numbers
    <3> DEFINE a == i + 1
    <3>2. a \in 1..n /\ 1 < a /\ ch[a].cursor = x
      BY <3>1, <1>1
    <3> HIDE DEF a
    <3> QED BY <3>1, <3>2, <1>1, <1>4, <1>8 DEF Continues, Ascends, n
  <2>2. first \in (from + 1)..to
    BY <1>6, <1>8 DEF Continues
  <2>3. from + 1 \in Numbers(ch)
    BY <2>2, <1>1 DEF Continues
  <2>4. first = from + 1
    <3>1. from + 1 \in Numbers(rest) => first < from + 1
      BY <2>1
    <3> QED BY <1>1, <1>6, <1>8, <2>2, <2>3, <3>1
  <2>5. Numbers(rest) = (first + 1)..to
    <3>1. \A x \in Numbers(rest) : x \in (first + 1)..to
      <4> SUFFICES ASSUME NEW x \in Numbers(rest) PROVE x \in (first + 1)..to
        OBVIOUS
      <4>1. x \in (from + 1)..to /\ first < x
        BY <1>6, <2>1 DEF Continues
      <4> QED BY <4>1, <2>4, <1>1
    <3>2. \A x \in (first + 1)..to : x \in Numbers(rest)
      <4> SUFFICES ASSUME NEW x \in (first + 1)..to PROVE x \in Numbers(rest)
        OBVIOUS
      <4>1. x \in (from + 1)..to /\ x # first
        BY <2>4, <1>1
      <4> QED BY <4>1, <1>6, <1>8 DEF Continues
    <3> QED BY <3>1, <3>2
  <2>6. first \in Nat /\ first <= to
    BY <2>2, <1>1
  <2> QED BY <1>1, <1>5, <1>8, <2>5, <2>6 DEF Continues, rest, first
<1> QED BY <1>7, <1>8

\* broadcastLocked: a full subscription is dropped and its channel stays as it
\* is, every other one gets the message.
LEMMA BroadcastContinues ==
    ASSUME StreamInv, nextCursor \in Nat, NEW message \in Messages, Broadcast(message),
           \/ message.cursor = 0 /\ nextCursor' = nextCursor
           \/ message.cursor = nextCursor + 1 /\ nextCursor' = nextCursor + 1
    PROVE  StreamInv'
PROOF
<1> DEFINE kept == subscribers'
<1>1. /\ kept \subseteq subscribers /\ kept \subseteq DOMAIN channel
      /\ DOMAIN channel' = DOMAIN channel /\ seen' = seen
      /\ \A s \in kept : channel'[s] = Append(channel[s], message)
      /\ \A s \in DOMAIN channel \ kept : channel'[s] = channel[s]
  BY DEF Broadcast, StreamInv
<1>2. \A s \in kept : Continues(channel'[s], seen'[s], nextCursor')
  <2> SUFFICES ASSUME NEW s \in kept
               PROVE  Continues(channel'[s], seen'[s], nextCursor')
    OBVIOUS
  <2>1. Continues(channel[s], seen[s], nextCursor)
    BY <1>1 DEF StreamInv
  <2> QED BY <1>1, <2>1, AppendContinues
<1>3. nextCursor' \in Nat
  OBVIOUS
<1>4. \A s \in DOMAIN channel' : \E to \in Nat : Continues(channel'[s], seen'[s], to)
  BY <1>1, <1>2, <1>3 DEF StreamInv
<1> QED BY <1>1, <1>2, <1>4 DEF StreamInv

\* Every step keeps the streams contiguous.
LEMMA StepContinues == nextCursor \in Nat /\ StreamInv /\ [Next]_vars => StreamInv'
PROOF
<1> SUFFICES ASSUME nextCursor \in Nat, StreamInv, [Next]_vars PROVE StreamInv'
  OBVIOUS
<1>0. ASSUME UNCHANGED <<channel, seen, nextCursor>>, subscribers' \subseteq subscribers
      PROVE  StreamInv'
  BY <1>0 DEF StreamInv
<1>1. ASSUME NEW p \in Procs,
             \/ \E id \in Ids, size \in Sizes : BeginRecord(p, id, size)
             \/ PutAfterClose(p) \/ Read(p) \/ Close(p) \/ Persist(p) \/ FinishClose(p)
      PROVE  StreamInv'
  <2>1. UNCHANGED <<channel, seen, nextCursor>> /\ subscribers' \subseteq subscribers
    BY <1>1 DEF BeginRecord, PutAfterClose, Read, Close, Persist, FinishClose,
                memoryVars, streamVars
  <2> QED BY <1>0, <2>1
<1>2. ASSUME NEW p \in Procs, PutTooLarge(p) PROVE StreamInv'
  <2>1. Broadcast(Message("events.dropped", 0)) /\ nextCursor' = nextCursor
    BY <1>2 DEF PutTooLarge
  <2>2. /\ Message("events.dropped", 0) \in Messages
        /\ Message("events.dropped", 0).cursor = 0
    BY DEF Message, Messages, MessageTypes
  <2> QED BY <2>1, <2>2, BroadcastContinues
<1>3. ASSUME NEW p \in Procs, Put(p) \/ Clear(p) PROVE StreamInv'
  <2>1. PICK type \in MessageTypes : Broadcast(Message(type, nextCursor + 1))
    <3>1. CASE Put(p)
      <4>1. \E known \in BOOLEAN :
              Broadcast(Message(IF known THEN "event.updated" ELSE "event.created",
                                nextCursor + 1))
        BY <3>1 DEF Put
      <4> QED BY <4>1 DEF MessageTypes
    <3>2. CASE Clear(p)
      <4>1. Broadcast(Message("events.cleared", nextCursor + 1))
        BY <3>2 DEF Clear
      <4> QED BY <4>1 DEF MessageTypes
    <3> QED BY <1>3, <3>1, <3>2
  <2>2. /\ Message(type, nextCursor + 1) \in Messages
        /\ Message(type, nextCursor + 1).cursor = nextCursor + 1
    BY DEF Message, Messages
  <2>3. nextCursor' = nextCursor + 1
    BY <1>3 DEF Put, Clear
  <2> HIDE DEF Message
  <2> QED BY <2>1, <2>2, <2>3, BroadcastContinues
<1>4. ASSUME Subscribe PROVE StreamInv'
  <2> DEFINE new == nextSubscriber'
  <2>1. /\ DOMAIN channel' = DOMAIN channel \cup {new}
        /\ DOMAIN seen' = DOMAIN seen \cup {new}
        /\ channel'[new] = <<>> /\ seen'[new] = nextCursor
        /\ \A s \in DOMAIN channel \ {new} : channel'[s] = channel[s] /\ seen'[s] = seen[s]
        /\ subscribers' = subscribers \cup {new}
        /\ nextCursor' = nextCursor
    BY <1>4 DEF Subscribe, memoryVars, StreamInv
  <2>2. Continues(channel'[new], seen'[new], nextCursor')
    BY <2>1, EmptyContinues
  <2> HIDE DEF new
  <2>3. \A s \in DOMAIN channel' : \E to \in Nat : Continues(channel'[s], seen'[s], to)
    BY <2>1, <2>2 DEF StreamInv
  <2>4. \A s \in subscribers' : Continues(channel'[s], seen'[s], nextCursor')
    BY <2>1, <2>2 DEF StreamInv
  <2>5. subscribers' \subseteq DOMAIN channel' /\ DOMAIN seen' = DOMAIN channel'
    BY <2>1 DEF StreamInv
  <2> QED BY <2>3, <2>4, <2>5 DEF StreamInv
<1>5. ASSUME NEW s \in 1..MaxSubscribers, Unsubscribe(s) PROVE StreamInv'
  BY <1>0, <1>5 DEF Unsubscribe, memoryVars
<1>6. ASSUME NEW s \in 1..MaxSubscribers, Receive(s) PROVE StreamInv'
  <2> DEFINE next == IF Head(channel[s]).cursor = 0 THEN seen[s] ELSE Head(channel[s]).cursor
  <2>1. /\ s \in DOMAIN channel /\ channel[s] # <<>>
        /\ DOMAIN channel' = DOMAIN channel /\ DOMAIN seen' = DOMAIN seen
        /\ channel'[s] = Tail(channel[s])
        /\ seen'[s] = next
        /\ \A t \in DOMAIN channel \ {s} : channel'[t] = channel[t] /\ seen'[t] = seen[t]
        /\ subscribers' = subscribers /\ nextCursor' = nextCursor
    BY <1>6 DEF Receive, memoryVars, StreamInv
  <2>2. \A to : Continues(channel[s], seen[s], to) => Continues(channel'[s], seen'[s], to)
    BY <2>1, TailContinues
  <2> HIDE DEF next
  <2>3. \A t \in DOMAIN channel' : \E to \in Nat : Continues(channel'[t], seen'[t], to)
    BY <2>1, <2>2 DEF StreamInv
  <2>4. \A t \in subscribers' : Continues(channel'[t], seen'[t], nextCursor')
    BY <2>1, <2>2 DEF StreamInv
  <2> QED BY <2>1, <2>3, <2>4 DEF StreamInv
<1>7. ASSUME Tick \/ UNCHANGED vars PROVE StreamInv'
  BY <1>0, <1>7 DEF Tick, vars, memoryVars, streamVars
<1> QED BY <1>1, <1>2, <1>3, <1>4, <1>5, <1>6, <1>7 DEF Next, MemoryStep, StreamStep

\* An interval has as many elements as its ends are apart.
LEMMA StreamInvSuffices == StreamInv => StreamContiguous
PROOF
<1> SUFFICES ASSUME StreamInv, NEW s \in DOMAIN channel
             PROVE  /\ Ascends(channel[s])
                    /\ Announced(s) = (seen[s] + 1)..(seen[s] + Cardinality(Announced(s)))
                    /\ s \in subscribers => seen[s] + Cardinality(Announced(s)) = nextCursor
  BY DEF StreamContiguous, Ascends
<1>1. Announced(s) = Numbers(channel[s])
  BY DEF Announced, Numbers
<1>2. ASSUME NEW to, Continues(channel[s], seen[s], to)
      PROVE  seen[s] + Cardinality(Announced(s)) = to
  <2>1. /\ Announced(s) = (seen[s] + 1)..to
        /\ seen[s] \in Nat /\ to \in Nat /\ seen[s] <= to
    BY <1>1, <1>2 DEF Continues
  <2>2. Cardinality((seen[s] + 1)..to)
          = IF seen[s] + 1 > to THEN 0 ELSE to - (seen[s] + 1) + 1
    <3>1. seen[s] + 1 \in Int /\ to \in Int
      BY <2>1
    <3> QED BY <3>1, FS_Interval
  <2> QED BY <2>1, <2>2
<1>3. PICK to \in Nat : Continues(channel[s], seen[s], to)
  BY DEF StreamInv
<1>4. Ascends(channel[s]) /\ Announced(s) = (seen[s] + 1)..to
  BY <1>1, <1>3 DEF Continues
<1>5. s \in subscribers => seen[s] + Cardinality(Announced(s)) = nextCursor
  BY <1>2 DEF StreamInv
<1> QED BY <1>2, <1>3, <1>4, <1>5

\* A subscription misses nothing, whatever is recorded, cleared, refused or
\* received in between, until it is dropped for being full.
THEOREM StreamsStayContiguous == Spec => []StreamContiguous
PROOF
<1>1. Init => StreamInv
  BY DEF Init, StreamInv
<1>2. IInv => nextCursor \in Nat
  BY DEF IInv
<1> QED BY StoreInOrder, <1>1, <1>2, StepContinues, StreamInvSuffices, PTL DEF Spec
=============================================================================
