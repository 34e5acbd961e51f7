-------------------------- MODULE EntryOrderProofs ---------------------------
(***************************************************************************)
(* For every capacity and every set of identifiers the circular deque      *)
(* keeps its slots consistent and implements a FIFO queue.                 *)
(***************************************************************************)
EXTENDS EntryOrder, SequenceTheorems, TLAPS

-----------------------------------------------------------------------------
(* Slots and distances *)

\* Going round once: below two laps, % subtracts the capacity at most once.
LEMMA Wrap ==
    ASSUME NEW c \in Nat, NEW x \in Nat, x < 2 * c
    PROVE  x % c = IF x < c THEN x ELSE x - c
<1>1. CASE x < c
  BY <1>1
<1>2. CASE x >= c
  BY <1>2
<1>3. QED
  BY <1>1, <1>2

\* What membership in Deques says of the fields.
LEMMA DequeFields ==
    ASSUME NEW d \in Deques
    PROVE  /\ d = [values |-> d.values, head |-> d.head, count |-> d.count]
           /\ d.values \in Seq(Ids \cup {NoId})
           /\ d.head \in Nat
           /\ d.count \in Nat
           /\ Capacity(d) \in Nat
           /\ d.count <= Capacity(d)
           /\ Capacity(d) > 0 => d.head < Capacity(d)
           /\ Capacity(d) = 0 => d.head = 0
BY DEF Deques, Capacity

\* Membership in Deques from the fields.
LEMMA DequeIntro ==
    ASSUME NEW d,
           d = [values |-> d.values, head |-> d.head, count |-> d.count],
           d.values \in Seq(Ids \cup {NoId}), d.head \in Nat, d.count \in Nat,
           d.count <= Capacity(d), d.head < Capacity(d) \/ d.head = 0
    PROVE  d \in Deques
BY DEF Deques, Capacity

\* The slot of an index, and how far that slot lies behind the head.
LEMMA SlotPosition ==
    ASSUME NEW d \in Deques, NEW i \in Nat, i < Capacity(d)
    PROVE  /\ Slot(d, i) = 1 + (IF d.head + i < Capacity(d) THEN d.head + i
                                ELSE d.head + i - Capacity(d))
           /\ Slot(d, i) \in 1..Capacity(d)
           /\ Distance(d, Slot(d, i)) = i
<1> DEFINE c == Capacity(d)
           x == d.head + i
           y == Slot(d, i) - 1 + c - d.head
<1>1. c \in Nat /\ d.head \in Nat /\ d.head < c
  BY DequeFields
<1>2. x \in Nat /\ x < 2 * c
  BY <1>1
<1>3. Slot(d, i) = 1 + (IF x < c THEN x ELSE x - c)
  <2> HIDE DEF x, c
  <2>1. x % c = IF x < c THEN x ELSE x - c
    BY <1>1, <1>2, Wrap
  <2>2. QED
    BY <2>1 DEF Slot, c, x
<1>4. y = IF x < c THEN c + i ELSE i
  BY <1>1, <1>3
<1>5. y % c = IF y < c THEN y ELSE y - c
  <2>1. y \in Nat /\ y < 2 * c
    BY <1>1, <1>4
  <2> HIDE DEF y, c
  <2>2. QED
    BY <1>1, <2>1, Wrap
<1>6. Distance(d, Slot(d, i)) = i
  BY <1>1, <1>4, <1>5 DEF Distance
<1>7. QED
  BY <1>1, <1>3, <1>6

\* The distance of every slot, and the slot found again from its distance.
LEMMA SlotDistance ==
    ASSUME NEW d \in Deques, NEW s \in 1..Capacity(d)
    PROVE  /\ Distance(d, s) = IF s - 1 >= d.head THEN s - 1 - d.head
                               ELSE s - 1 + Capacity(d) - d.head
           /\ Distance(d, s) \in 0..(Capacity(d) - 1)
           /\ Slot(d, Distance(d, s)) = s
<1> DEFINE c == Capacity(d)
           x == s - 1 + c - d.head
           k == Distance(d, s)
<1>1. c \in Nat /\ d.head \in Nat /\ d.head < c
  BY DequeFields
<1>2. x \in Nat /\ x < 2 * c
  BY <1>1
<1>3. k = IF x < c THEN x ELSE x - c
  <2> HIDE DEF x, c
  <2>1. x % c = IF x < c THEN x ELSE x - c
    BY <1>1, <1>2, Wrap
  <2>2. QED
    BY <2>1 DEF Distance, c, x
<1>4. k \in Nat /\ k < c
  BY <1>1, <1>3
<1>5. Slot(d, k) = 1 + (IF d.head + k < c THEN d.head + k ELSE d.head + k - c)
  <2> HIDE DEF k
  <2>1. QED
    BY <1>4, SlotPosition
<1>6. QED
  BY <1>1, <1>3, <1>4, <1>5

\* The live elements are identifiers.
LEMMA LiveAreIds ==
    ASSUME NEW d \in Deques, SlotsExact(d), NEW i \in Nat, i < d.count
    PROVE  ValueAt(d, i) \in Ids /\ ValueAt(d, i) = d.values[Slot(d, i)]
<1>1. i < Capacity(d)
  BY DequeFields
<1>2. Slot(d, i) \in 1..Capacity(d) /\ Distance(d, Slot(d, i)) = i
  BY <1>1, SlotPosition
<1>3. d.values[Slot(d, i)] # NoId
  BY <1>2 DEF SlotsExact
<1>4. d.values[Slot(d, i)] \in Ids \cup {NoId}
  BY <1>2, DequeFields DEF Capacity
<1>5. QED
  BY <1>3, <1>4 DEF ValueAt

-----------------------------------------------------------------------------
(* pushBack *)

\* Writing behind the window extends it by one element.
LEMMA PlacedExtends ==
    ASSUME NEW d \in Deques, SlotsExact(d), d.count < Capacity(d), NEW id \in Ids
    PROVE  /\ Placed(d, id) \in Deques
           /\ Placed(d, id).count = d.count + 1
           /\ SlotsExact(Placed(d, id))
           /\ \A i \in 0..d.count :
                ValueAt(Placed(d, id), i) = IF i = d.count THEN id ELSE ValueAt(d, i)
<1> DEFINE e == Placed(d, id)
           t == Slot(d, d.count)
<1>1. /\ t \in 1..Capacity(d)
      /\ Distance(d, t) = d.count
  BY DequeFields, SlotPosition
<1>2. e = [values |-> [d.values EXCEPT ![t] = id], head |-> d.head,
           count |-> d.count + 1]
  BY DEF Placed
<1> HIDE DEF e
<1>3. /\ e.values \in Seq(Ids \cup {NoId})
      /\ Capacity(e) = Capacity(d)
      /\ \A s \in 1..Capacity(d) :
            e.values[s] = IF s = t THEN id ELSE d.values[s]
  BY <1>1, <1>2, DequeFields DEF Capacity
<1>4. e \in Deques
  <2>1. e = [values |-> e.values, head |-> e.head, count |-> e.count]
    BY <1>2
  <2>2. /\ e.head \in Nat /\ e.count \in Nat /\ e.count <= Capacity(e)
        /\ e.head < Capacity(e) \/ e.head = 0
    BY <1>2, <1>3, DequeFields
  <2>3. QED
    BY <1>3, <2>1, <2>2, DequeIntro
<1>5. ASSUME NEW i \in Nat
      PROVE  Slot(e, i) = Slot(d, i)
  BY <1>2, <1>3 DEF Slot
<1>6. ASSUME NEW s \in 1..Capacity(d)
      PROVE  Distance(e, s) = Distance(d, s)
  BY <1>2, <1>3 DEF Distance
<1>7. SlotsExact(e)
  <2> SUFFICES ASSUME NEW s \in 1..Capacity(d)
               PROVE  e.values[s] # NoId <=> Distance(d, s) < d.count + 1
    BY <1>2, <1>3, <1>6 DEF SlotsExact
  <2>1. s = t <=> Distance(d, s) = d.count
    BY <1>1, SlotDistance
  <2>2. Distance(d, s) \in Nat
    BY DequeFields, SlotDistance
  <2>3. d.values[s] # NoId <=> Distance(d, s) < d.count
    BY DEF SlotsExact
  <2>4. QED
    BY <1>3, <2>1, <2>2, <2>3, DequeFields, OrderAssumption DEF OrderAssumption
<1>8. ASSUME NEW i \in 0..d.count
      PROVE  ValueAt(e, i) = IF i = d.count THEN id ELSE ValueAt(d, i)
  <2>1. /\ Slot(d, i) \in 1..Capacity(d)
        /\ Distance(d, Slot(d, i)) = i
    BY DequeFields, SlotPosition
  <2>2. Slot(d, i) = t <=> i = d.count
    BY <1>1, <2>1
  <2>3. ValueAt(e, i) = e.values[Slot(d, i)]
    <3>1. Slot(e, i) = Slot(d, i)
      BY <1>5, DequeFields
    <3>2. i < e.count
      BY <1>2, DequeFields
    <3>3. QED
      BY <3>1, <3>2 DEF ValueAt
  <2>4. i # d.count => ValueAt(d, i) = d.values[Slot(d, i)]
    BY DequeFields DEF ValueAt
  <2>5. QED
    BY <1>3, <2>1, <2>2, <2>3, <2>4
<1>9. QED
  BY <1>2, <1>4, <1>7, <1>8 DEF e

\* Growing keeps the elements and leaves a free slot.
LEMMA GrownKeeps ==
    ASSUME NEW d \in Deques, SlotsExact(d)
    PROVE  /\ Grown(d) \in Deques
           /\ Grown(d).count = d.count
           /\ d.count < Capacity(Grown(d))
           /\ SlotsExact(Grown(d))
           /\ \A i \in 0..(d.count - 1) : ValueAt(Grown(d), i) = ValueAt(d, i)
<1> DEFINE e == Grown(d)
           c == GrownCapacity(d)
<1>1. c \in Nat /\ d.count < c
  BY DequeFields DEF GrownCapacity
<1>2. e = [values |-> [s \in 1..c |-> ValueAt(d, s - 1)], head |-> 0,
           count |-> d.count]
  BY DEF Grown
<1> HIDE DEF e, c
<1>3. \A i \in Nat : ValueAt(d, i) = IF i < d.count THEN ValueAt(d, i) ELSE NoId
  BY DEF ValueAt
<1>4. \A i \in Nat : i < d.count => ValueAt(d, i) \in Ids
  BY LiveAreIds
<1>5. /\ e.values \in Seq(Ids \cup {NoId})
      /\ Capacity(e) = c
  <2>1. \A s \in 1..c : ValueAt(d, s - 1) \in Ids \cup {NoId}
    BY <1>1, <1>3, <1>4
  <2>2. QED
    BY <1>1, <1>2, <2>1 DEF Capacity
<1>6. e \in Deques
  <2>1. e = [values |-> e.values, head |-> e.head, count |-> e.count]
    BY <1>2
  <2>2. e.head = 0 /\ e.count \in Nat /\ e.count <= Capacity(e)
    BY <1>1, <1>2, <1>5, DequeFields
  <2>3. QED
    BY <1>5, <2>1, <2>2, DequeIntro
<1>7. SlotsExact(e)
  <2> SUFFICES ASSUME NEW s \in 1..c
               PROVE  e.values[s] # NoId <=> Distance(e, s) < d.count
    BY <1>2, <1>5 DEF SlotsExact
  <2>1. Distance(e, s) = s - 1
    BY <1>1, <1>2, <1>5, <1>6, SlotDistance
  <2>2. e.values[s] = ValueAt(d, s - 1)
    BY <1>2
  <2>3. QED
    BY <1>1, <1>3, <1>4, <2>1, <2>2, OrderAssumption DEF OrderAssumption
<1>8. ASSUME NEW i \in 0..(d.count - 1)
      PROVE  ValueAt(e, i) = ValueAt(d, i)
  <2>1. i \in Nat /\ i < c /\ i < d.count
    BY <1>1, DequeFields
  <2>2. Slot(e, i) = i + 1
    BY <1>2, <1>5, <1>6, <2>1, SlotPosition
  <2>3. ValueAt(e, i) = e.values[i + 1]
    BY <1>2, <2>1, <2>2 DEF ValueAt
  <2>4. e.values[i + 1] = ValueAt(d, (i + 1) - 1)
    BY <1>1, <1>2, <2>1
  <2>5. (i + 1) - 1 = i
    BY <2>1
  <2>6. QED
    BY <2>3, <2>4, <2>5
<1>9. QED
  BY <1>1, <1>2, <1>5, <1>6, <1>7, <1>8 DEF e

\* pushBack appends, whether or not it has to grow.
LEMMA PushedAppends ==
    ASSUME NEW d \in Deques, SlotsExact(d), NEW id \in Ids
    PROVE  /\ Pushed(d, id) \in Deques
           /\ SlotsExact(Pushed(d, id))
           /\ ContentsOf(Pushed(d, id)) = Append(ContentsOf(d), id)
<1> DEFINE e == IF d.count = Capacity(d) THEN Grown(d) ELSE d
<1>1. /\ e \in Deques
      /\ e.count = d.count
      /\ d.count < Capacity(e)
      /\ SlotsExact(e)
      /\ \A i \in 0..(d.count - 1) : ValueAt(e, i) = ValueAt(d, i)
  <2>1. CASE d.count = Capacity(d)
    BY <2>1, GrownKeeps
  <2>2. CASE d.count # Capacity(d)
    BY <2>2, DequeFields
  <2>3. QED
    BY <2>1, <2>2
<1> DEFINE f == Placed(e, id)
<1>2. Pushed(d, id) = f
  BY DEF Pushed
<1> HIDE DEF e
<1>3. /\ f \in Deques
      /\ f.count = d.count + 1
      /\ SlotsExact(f)
      /\ \A i \in 0..d.count : ValueAt(f, i) = IF i = d.count THEN id ELSE ValueAt(d, i)
  <2>1. /\ f \in Deques
        /\ f.count = e.count + 1
        /\ SlotsExact(f)
        /\ \A i \in 0..e.count : ValueAt(f, i) = IF i = e.count THEN id ELSE ValueAt(e, i)
    BY <1>1, PlacedExtends
  <2>2. QED
    BY <1>1, <2>1, DequeFields
<1> HIDE DEF f
<1>4. ContentsOf(f) = Append(ContentsOf(d), id)
  <2>1. d.count \in Nat
    BY DequeFields
  <2>2. ContentsOf(f) = [i \in 1..(d.count + 1) |->
                            IF i = d.count + 1 THEN id ELSE ValueAt(d, i - 1)]
    BY <1>3, <2>1 DEF ContentsOf
  <2>3. /\ ContentsOf(d) \in Seq(Ids)
        /\ Len(ContentsOf(d)) = d.count
    BY <2>1, LiveAreIds DEF ContentsOf
  <2>4. \A i \in 1..d.count : ContentsOf(d)[i] = ValueAt(d, i - 1)
    BY DEF ContentsOf
  <2>5. /\ Append(ContentsOf(d), id) \in Seq(Ids)
        /\ Len(Append(ContentsOf(d), id)) = d.count + 1
        /\ \A i \in 1..(d.count + 1) : Append(ContentsOf(d), id)[i] =
                IF i = d.count + 1 THEN id ELSE ContentsOf(d)[i]
    BY <2>1, <2>3
  <2>6. /\ ContentsOf(f) \in Seq(Ids)
        /\ Len(ContentsOf(f)) = d.count + 1
        /\ \A i \in 1..(d.count + 1) : ContentsOf(f)[i] =
                IF i = d.count + 1 THEN id ELSE ValueAt(d, i - 1)
    BY <2>1, <2>2, LiveAreIds
  <2>7. \A i \in 1..(d.count + 1) :
            ContentsOf(f)[i] = Append(ContentsOf(d), id)[i]
    BY <2>1, <2>4, <2>5, <2>6
  <2>8. QED
    BY <2>5, <2>6, <2>7, SeqEqual
<1>5. QED
  BY <1>2, <1>3, <1>4

-----------------------------------------------------------------------------
(* popFront *)

\* A window emptied back to slot 0 is consistent when every slot is free.
LEMMA EmptyIsExact ==
    ASSUME NEW d \in Deques, d.count = 0,
           \A s \in 1..Capacity(d) : d.values[s] = NoId
    PROVE  SlotsExact(d) /\ ContentsOf(d) = <<>>
<1>1. \A s \in 1..Capacity(d) : ~(Distance(d, s) < 0)
  BY SlotDistance, DequeFields
<1>2. QED
  BY <1>1 DEF SlotsExact, ContentsOf

\* The contents of a consistent deque are a sequence of identifiers.
LEMMA ContentsIsSeq ==
    ASSUME NEW d \in Deques, SlotsExact(d)
    PROVE  /\ ContentsOf(d) \in Seq(Ids)
           /\ Len(ContentsOf(d)) = d.count
           /\ \A i \in 1..d.count : ContentsOf(d)[i] = ValueAt(d, i - 1)
<1>1. \A i \in 1..d.count : ValueAt(d, i - 1) \in Ids
  BY DequeFields, LiveAreIds
<1>2. QED
  BY <1>1, DequeFields DEF ContentsOf

\* popFront removes the first element and nothing else.
LEMMA PoppedDrops ==
    ASSUME NEW d \in Deques, SlotsExact(d), d.count > 0
    PROVE  /\ Popped(d) \in Deques
           /\ SlotsExact(Popped(d))
           /\ ContentsOf(d) # <<>>
           /\ d.values[Slot(d, 0)] = Head(ContentsOf(d))
           /\ ContentsOf(Popped(d)) = Tail(ContentsOf(d))
<1> DEFINE e == Popped(d)
           c == Capacity(d)
           t == Slot(d, 0)
           h == HeadAfter(d, (d.head + 1) % Capacity(d))
<1>1. /\ c \in Nat /\ d.head \in Nat /\ d.head < c
      /\ d.count \in Nat /\ d.count <= c
  BY DequeFields
<1>2. t = d.head + 1 /\ t \in 1..c
  BY <1>1, SlotPosition
<1>3. h = IF d.count = 1 THEN 0 ELSE IF d.head + 1 < c THEN d.head + 1 ELSE 0
  <2> DEFINE x == d.head + 1
  <2>1. x \in Nat /\ x < 2 * c
    BY <1>1
  <2>2. x % c = IF x < c THEN x ELSE x - c
    <3> HIDE DEF x, c
    <3>1. QED
      BY <1>1, <2>1, Wrap
  <2>3. QED
    BY <1>1, <2>2 DEF HeadAfter
<1>4. e = [values |-> [d.values EXCEPT ![t] = NoId], head |-> h,
           count |-> d.count - 1]
  BY DEF Popped
<1> HIDE DEF e, h
<1>5. /\ e.values \in Seq(Ids \cup {NoId})
      /\ Capacity(e) = c
      /\ \A s \in 1..c : e.values[s] = IF s = t THEN NoId ELSE d.values[s]
  BY <1>2, <1>4, DequeFields DEF Capacity
<1>6. e \in Deques
  <2>1. e = [values |-> e.values, head |-> e.head, count |-> e.count]
    BY <1>4
  <2>2. /\ e.head \in Nat /\ e.count \in Nat /\ e.count <= Capacity(e)
        /\ e.head < Capacity(e) \/ e.head = 0
    BY <1>1, <1>3, <1>4, <1>5
  <2>3. QED
    BY <1>5, <2>1, <2>2, DequeIntro
<1>7. \A s \in 1..c : s = t <=> Distance(d, s) = 0
  BY <1>1, <1>2, SlotDistance
<1>8. /\ ContentsOf(d) \in Seq(Ids)
      /\ Len(ContentsOf(d)) = d.count
      /\ \A i \in 1..d.count : ContentsOf(d)[i] = ValueAt(d, i - 1)
  BY ContentsIsSeq
<1>9. ContentsOf(d) # <<>> /\ d.values[t] = Head(ContentsOf(d))
  <2>1. ValueAt(d, 0) = d.values[t]
    BY <1>1 DEF ValueAt
  <2>2. QED
    BY <1>1, <1>8, <2>1
<1>10. /\ Tail(ContentsOf(d)) \in Seq(Ids)
       /\ Len(Tail(ContentsOf(d))) = d.count - 1
       /\ \A i \in 1..(d.count - 1) : Tail(ContentsOf(d))[i] = ValueAt(d, i)
  <2>1. \A i \in 1..(d.count - 1) : i + 1 \in 1..d.count /\ (i + 1) - 1 = i
    BY <1>1
  <2>2. QED
    BY <1>1, <1>8, <1>9, <2>1, HeadTailProperties
<1>11. CASE d.count = 1
  <2>1. \A s \in 1..c : e.values[s] = NoId
    <3>1. TAKE s \in 1..c
    <3>2. Distance(d, s) \in Nat
      BY <1>1, SlotDistance
    <3>3. s # t => ~(Distance(d, s) < d.count)
      BY <1>7, <1>11, <3>2
    <3>4. d.values[s] # NoId <=> Distance(d, s) < d.count
      BY DEF SlotsExact
    <3>5. QED
      BY <1>5, <3>3, <3>4
  <2>2. SlotsExact(e) /\ ContentsOf(e) = <<>>
    <3>1. e.count = 0
      BY <1>4, <1>11
    <3>2. \A s \in 1..Capacity(e) : e.values[s] = NoId
      BY <1>5, <2>1
    <3>3. QED
      BY <1>6, <3>1, <3>2, EmptyIsExact
  <2>3. Tail(ContentsOf(d)) = <<>>
    <3>1. Len(Tail(ContentsOf(d))) = 0
      BY <1>10, <1>11
    <3>2. QED
      BY <1>10, <3>1, EmptySeq
  <2>4. QED
    BY <1>6, <1>9, <2>2, <2>3 DEF e
<1>12. CASE d.count > 1
  <2>1. e.head = (IF d.head + 1 < c THEN d.head + 1 ELSE 0)
        /\ e.count = d.count - 1
    BY <1>1, <1>3, <1>4, <1>12
  <2>2. ASSUME NEW s \in 1..c
        PROVE  Distance(e, s) = IF s = t THEN c - 1 ELSE Distance(d, s) - 1
    <3>1. Distance(e, s) = IF s - 1 >= e.head THEN s - 1 - e.head
                           ELSE s - 1 + c - e.head
      BY <1>5, <1>6, SlotDistance
    <3>2. Distance(d, s) = IF s - 1 >= d.head THEN s - 1 - d.head
                           ELSE s - 1 + c - d.head
      BY SlotDistance
    <3>3. QED
      BY <1>1, <1>2, <2>1, <3>1, <3>2
  <2>3. SlotsExact(e)
    <3> SUFFICES ASSUME NEW s \in 1..c
                 PROVE  e.values[s] # NoId <=> Distance(e, s) < d.count - 1
      BY <1>5, <2>1 DEF SlotsExact
    <3>1. d.values[s] # NoId <=> Distance(d, s) < d.count
      BY DEF SlotsExact
    <3>2. Distance(d, s) \in Nat
      BY <1>1, SlotDistance
    <3>3. QED
      BY <1>1, <1>5, <2>2, <3>1, <3>2
  <2>4. ASSUME NEW i \in 0..(d.count - 2)
        PROVE  ValueAt(e, i) = ValueAt(d, i + 1)
    <3>1. i \in Nat /\ i + 1 \in Nat /\ i + 1 < c /\ i < e.count /\ i + 1 < d.count
      BY <1>1, <1>12, <2>1
    <3>2. Slot(d, i + 1) \in 1..c /\ Distance(d, Slot(d, i + 1)) = i + 1
      BY <3>1, SlotPosition
    <3>3. Slot(e, i) = Slot(d, i + 1)
      <4>0. Capacity(e) = c /\ i < Capacity(e)
        BY <1>1, <1>5, <3>1
      <4>1. Slot(e, i) = 1 + (IF e.head + i < c THEN e.head + i
                              ELSE e.head + i - c)
        BY <1>6, <3>1, <4>0, SlotPosition
      <4>2. Slot(d, i + 1) = 1 + (IF d.head + (i + 1) < c THEN d.head + (i + 1)
                                  ELSE d.head + (i + 1) - c)
        BY <3>1, SlotPosition
      <4>3. QED
        BY <1>1, <2>1, <3>1, <4>1, <4>2
    <3>4. Slot(d, i + 1) # t
      BY <1>7, <3>1, <3>2
    <3>5. QED
      BY <1>5, <3>1, <3>2, <3>3, <3>4 DEF ValueAt
  <2>5. ContentsOf(e) = Tail(ContentsOf(d))
    <3>1. /\ ContentsOf(e) \in Seq(Ids)
          /\ Len(ContentsOf(e)) = d.count - 1
          /\ \A i \in 1..(d.count - 1) : ContentsOf(e)[i] = ValueAt(e, i - 1)
      BY <1>6, <2>1, <2>3, ContentsIsSeq
    <3>2. \A i \in 1..(d.count - 1) : ValueAt(e, i - 1) = ValueAt(d, i)
      <4>1. TAKE i \in 1..(d.count - 1)
      <4>2. i - 1 \in 0..(d.count - 2) /\ (i - 1) + 1 = i
        BY <1>1
      <4>3. QED
        BY <2>4, <4>2
    <3>3. QED
      BY <1>10, <3>1, <3>2, SeqEqual
  <2>6. QED
    BY <1>6, <1>9, <2>3, <2>5 DEF e
<1>13. QED
  BY <1>1, <1>11, <1>12

-----------------------------------------------------------------------------
(* remove and reset *)

\* Removing the element at index k closes the gap and keeps the order.
LEMMA RemovedCloses ==
    ASSUME NEW d \in Deques, SlotsExact(d), NEW k \in 0..(d.count - 1)
    PROVE  /\ RemovedAt(d, k) \in Deques
           /\ SlotsExact(RemovedAt(d, k))
           /\ ContentsOf(RemovedAt(d, k)) =
                [i \in 1..(d.count - 1) |-> IF i < k + 1 THEN ContentsOf(d)[i]
                                            ELSE ContentsOf(d)[i + 1]]
<1> DEFINE e == RemovedAt(d, k)
           c == Capacity(d)
<1>1. /\ c \in Nat /\ d.head \in Nat /\ d.head < c
      /\ d.count \in Nat /\ d.count <= c /\ d.count > 0 /\ k \in Nat
  BY DequeFields
<1>2. /\ e.values = ShiftedOver(d, k)
      /\ e.head = IF d.count = 1 THEN 0 ELSE d.head
      /\ e.count = d.count - 1
      /\ e = [values |-> e.values, head |-> e.head, count |-> e.count]
  BY DEF RemovedAt, HeadAfter
<1> HIDE DEF e
<1>3. ASSUME NEW s \in 1..c
      PROVE  /\ Distance(d, s) \in 0..(c - 1)
             /\ Slot(d, Distance(d, s)) = s
             /\ e.values[s] = IF Distance(d, s) \in k..(d.count - 1)
                              THEN ValueAt(d, Distance(d, s) + 1) ELSE d.values[s]
             /\ d.values[s] # NoId <=> Distance(d, s) < d.count
             /\ d.values[s] \in Ids \cup {NoId}
  <2>1. e.values[s] = IF Distance(d, s) \in k..(d.count - 1)
                      THEN ValueAt(d, Distance(d, s) + 1) ELSE d.values[s]
    BY <1>2 DEF ShiftedOver
  <2>2. QED
    BY <2>1, SlotDistance, DequeFields DEF SlotsExact, Capacity
<1>4. ASSUME NEW i \in Nat
      PROVE  ValueAt(d, i) \in Ids \cup {NoId} /\ (ValueAt(d, i) # NoId <=> i < d.count)
  <2>1. i < d.count => ValueAt(d, i) \in Ids
    BY LiveAreIds
  <2>2. ~(i < d.count) => ValueAt(d, i) = NoId
    BY DEF ValueAt
  <2>3. QED
    BY <2>1, <2>2, OrderAssumption DEF OrderAssumption
<1>5. e.values \in Seq(Ids \cup {NoId}) /\ Capacity(e) = c
  <2>1. \A s \in 1..c : e.values[s] \in Ids \cup {NoId}
    BY <1>1, <1>3, <1>4
  <2>2. e.values = [s \in 1..c |-> e.values[s]]
    BY <1>2 DEF ShiftedOver
  <2>3. QED
    BY <1>1, <2>1, <2>2 DEF Capacity
<1>6. e \in Deques
  <2>1. /\ e.head \in Nat /\ e.count \in Nat /\ e.count <= Capacity(e)
        /\ e.head < Capacity(e) \/ e.head = 0
    BY <1>1, <1>2, <1>5
  <2>2. QED
    BY <1>2, <1>5, <2>1, DequeIntro
<1>7. ASSUME NEW s \in 1..c
      PROVE  e.values[s] # NoId <=> Distance(d, s) < d.count - 1
  <2>1. CASE Distance(d, s) \in k..(d.count - 1)
    BY <1>1, <1>3, <1>4, <2>1
  <2>2. CASE Distance(d, s) \notin k..(d.count - 1)
    BY <1>1, <1>3, <2>2
  <2>3. QED
    BY <2>1, <2>2
<1> DEFINE rest == [i \in 1..(d.count - 1) |->
                      IF i < k + 1 THEN ContentsOf(d)[i] ELSE ContentsOf(d)[i + 1]]
<1>8. /\ rest \in Seq(Ids)
      /\ Len(rest) = d.count - 1
      /\ \A i \in 1..(d.count - 1) :
            rest[i] = IF i < k + 1 THEN ValueAt(d, i - 1) ELSE ValueAt(d, i)
  <2>1. /\ ContentsOf(d) \in Seq(Ids)
        /\ Len(ContentsOf(d)) = d.count
        /\ \A i \in 1..d.count : ContentsOf(d)[i] = ValueAt(d, i - 1)
    BY ContentsIsSeq
  <2>2. \A i \in 1..(d.count - 1) :
            i \in 1..d.count /\ i + 1 \in 1..d.count /\ (i + 1) - 1 = i
    BY <1>1
  <2>3. \A i \in 1..(d.count - 1) :
            rest[i] \in Ids
            /\ rest[i] = IF i < k + 1 THEN ValueAt(d, i - 1) ELSE ValueAt(d, i)
    BY <1>1, <2>1, <2>2
  <2>4. rest = [i \in 1..(d.count - 1) |-> rest[i]]
    OBVIOUS
  <2> DEFINE n == d.count - 1
  <2>5. n \in Nat
    BY <1>1
  <2> HIDE DEF rest, n
  <2>6. rest \in Seq(Ids) /\ Len(rest) = n
    <3>1. rest = [i \in 1..n |-> rest[i]] /\ \A i \in 1..n : rest[i] \in Ids
      BY <2>3, <2>4 DEF n
    <3>2. QED
      BY <2>5, <3>1
  <2>7. QED
    BY <2>3, <2>6 DEF n
<1> HIDE DEF rest
<1>9. CASE d.count = 1
  <2>1. \A s \in 1..c : e.values[s] = NoId
    <3>1. TAKE s \in 1..c
    <3>2. ~(Distance(d, s) < d.count - 1)
      BY <1>3, <1>9
    <3>3. QED
      BY <1>7, <3>2
  <2>2. SlotsExact(e) /\ ContentsOf(e) = <<>>
    <3>1. e.count = 0
      BY <1>2, <1>9
    <3>2. \A s \in 1..Capacity(e) : e.values[s] = NoId
      BY <1>5, <2>1
    <3>3. QED
      BY <1>6, <3>1, <3>2, EmptyIsExact
  <2>3. rest = <<>>
    <3>1. Len(rest) = 0
      BY <1>8, <1>9
    <3>2. QED
      BY <1>8, <3>1, EmptySeq
  <2>4. QED
    BY <1>6, <2>2, <2>3 DEF e, rest
<1>10. CASE d.count > 1
  <2>1. e.head = d.head
    BY <1>1, <1>2, <1>10
  <2>2. \A s \in 1..c : Distance(e, s) = Distance(d, s)
    BY <1>5, <2>1 DEF Distance
  <2>3. \A i \in Nat : Slot(e, i) = Slot(d, i)
    BY <1>5, <2>1 DEF Slot
  <2>4. SlotsExact(e)
    BY <1>2, <1>5, <1>7, <2>2 DEF SlotsExact
  <2>5. ASSUME NEW i \in 0..(d.count - 2)
        PROVE  ValueAt(e, i) = IF i < k THEN ValueAt(d, i) ELSE ValueAt(d, i + 1)
    <3>1. i \in Nat /\ i < c /\ i < e.count /\ i < d.count
      BY <1>1, <1>2, <1>10
    <3>2. Slot(d, i) \in 1..c /\ Distance(d, Slot(d, i)) = i
      BY <3>1, SlotPosition
    <3>3. ValueAt(e, i) = e.values[Slot(d, i)]
      BY <2>3, <3>1 DEF ValueAt
    <3>4. ValueAt(d, i) = d.values[Slot(d, i)]
      BY <3>1 DEF ValueAt
    <3>5. e.values[Slot(d, i)] = IF i \in k..(d.count - 1) THEN ValueAt(d, i + 1)
                                 ELSE d.values[Slot(d, i)]
      BY <1>3, <3>2
    <3>6. QED
      BY <1>1, <3>1, <3>3, <3>4, <3>5
  <2>6. ContentsOf(e) = rest
    <3>1. /\ ContentsOf(e) \in Seq(Ids)
          /\ Len(ContentsOf(e)) = d.count - 1
          /\ \A i \in 1..(d.count - 1) : ContentsOf(e)[i] = ValueAt(e, i - 1)
      BY <1>2, <1>6, <2>4, ContentsIsSeq
    <3>2. \A i \in 1..(d.count - 1) : ContentsOf(e)[i] = rest[i]
      <4>1. TAKE i \in 1..(d.count - 1)
      <4>2. /\ i - 1 \in 0..(d.count - 2) /\ (i - 1) + 1 = i
            /\ i - 1 < k <=> i < k + 1
        BY <1>1
      <4>3. ValueAt(e, i - 1) = IF i < k + 1 THEN ValueAt(d, i - 1) ELSE ValueAt(d, i)
        BY <2>5, <4>2
      <4>4. QED
        BY <1>8, <3>1, <4>3
    <3>3. QED
      BY <1>8, <3>1, <3>2, SeqEqual
  <2>7. QED
    BY <1>6, <2>4, <2>6 DEF e, rest
<1>11. QED
  BY <1>1, <1>9, <1>10

\* An empty deque of any capacity is consistent.
LEMMA NewIsEmpty ==
    ASSUME NEW capacity \in Nat
    PROVE  /\ NewOrder(capacity) \in Deques
           /\ SlotsExact(NewOrder(capacity))
           /\ ContentsOf(NewOrder(capacity)) = <<>>
<1> DEFINE d == NewOrder(capacity)
<1>1. /\ d = [values |-> d.values, head |-> d.head, count |-> d.count]
      /\ d.head = 0 /\ d.count = 0
      /\ d.values = EmptySlots(capacity)
  BY DEF NewOrder
<1>2. /\ EmptySlots(capacity) \in Seq(Ids \cup {NoId})
      /\ Len(EmptySlots(capacity)) = capacity
      /\ \A s \in 1..capacity : EmptySlots(capacity)[s] = NoId
  BY DEF EmptySlots
<1> HIDE DEF d
<1>3. /\ Capacity(d) = capacity
      /\ d.values \in Seq(Ids \cup {NoId})
      /\ \A s \in 1..Capacity(d) : d.values[s] = NoId
  BY <1>1, <1>2 DEF Capacity
<1>4. d \in Deques
  BY <1>1, <1>3, DequeIntro
<1>5. SlotsExact(d) /\ ContentsOf(d) = <<>>
  BY <1>1, <1>3, <1>4, EmptyIsExact
<1>6. QED
  BY <1>4, <1>5 DEF d

-----------------------------------------------------------------------------
(* The theorems *)

IInv == TypeOK /\ LiveSlotsExact

\* A new deque is consistent.
LEMMA InitInv == OrderInit => IInv
BY NewIsEmpty, OrderAssumption
   DEF OrderInit, IInv, TypeOK, LiveSlotsExact, OrderAssumption

\* One operation: the invariant is kept and the queue makes the same move.
LEMMA StepInv == IInv /\ [OrderNext]_orderVars => IInv' /\ [Fifo!Next]_(Fifo!vars)
<1> SUFFICES ASSUME IInv, [OrderNext]_orderVars
             PROVE  IInv' /\ [Fifo!Next]_(Fifo!vars)
  OBVIOUS
<1> DEFINE q == ContentsOf(deque)
<1>1. /\ deque \in Deques /\ result \in Ids \cup {NoId} /\ SlotsExact(deque)
      /\ deque.count \in Nat
  BY DequeFields DEF IInv, TypeOK, LiveSlotsExact
<1>2. /\ q \in Seq(Ids)
      /\ Len(q) = deque.count
      /\ \A i \in 1..deque.count : q[i] = ValueAt(deque, i - 1)
  BY <1>1, ContentsIsSeq
<1>3. q = <<>> <=> deque.count = 0
  BY <1>1, <1>2, EmptySeq
<1>4. ASSUME NEW id \in Ids, PushBack(id)
      PROVE  IInv' /\ Fifo!Next
  <2>1. deque' = Pushed(deque, id) /\ result' = NoId /\ deque.count < MaxCount
    BY <1>4 DEF PushBack
  <2>2. IInv'
    BY <1>1, <2>1, PushedAppends DEF IInv, TypeOK, LiveSlotsExact
  <2>3. Fifo!PushBack(id)
    BY <1>1, <1>2, <2>1, PushedAppends DEF Fifo!PushBack
  <2>4. QED
    BY <2>2, <2>3 DEF Fifo!Next
<1>5. ASSUME PopFront
      PROVE  IInv' /\ Fifo!Next
  <2>1. CASE deque.count = 0
    <3>1. deque' = deque /\ result' = NoId
      BY <1>1, <1>5, <2>1 DEF PopFront
    <3>2. IInv'
      BY <1>1, <3>1 DEF IInv, TypeOK, LiveSlotsExact
    <3>3. Fifo!PopFront
      BY <1>3, <2>1, <3>1 DEF Fifo!PopFront
    <3>4. QED
      BY <3>2, <3>3 DEF Fifo!Next
  <2>2. CASE deque.count > 0
    <3>1. deque' = Popped(deque) /\ result' = deque.values[Slot(deque, 0)]
      BY <1>1, <1>5, <2>2 DEF PopFront
    <3>2. /\ deque' \in Deques /\ SlotsExact(deque')
          /\ q # <<>>
          /\ result' = Head(q)
          /\ ContentsOf(deque') = Tail(q)
      BY <1>1, <2>2, <3>1, PoppedDrops
    <3>3. result' \in Ids
      BY <1>2, <3>2, HeadTailProperties
    <3>4. IInv'
      BY <3>2, <3>3 DEF IInv, TypeOK, LiveSlotsExact
    <3>5. Fifo!PopFront
      BY <3>2 DEF Fifo!PopFront
    <3>6. QED
      BY <3>4, <3>5 DEF Fifo!Next
  <2>3. QED
    BY <1>1, <2>1, <2>2
<1>6. ASSUME LookAtFront
      PROVE  IInv' /\ Fifo!Next
  <2>1. deque' = deque /\ result' = FrontOf(deque)
    BY <1>6 DEF LookAtFront
  <2>2. FrontOf(deque) = IF q = <<>> THEN NoId ELSE Head(q)
    BY <1>1, <1>3, PoppedDrops DEF FrontOf
  <2>3. FrontOf(deque) \in Ids \cup {NoId}
    BY <1>2, <2>2, HeadTailProperties
  <2>4. IInv'
    BY <1>1, <2>1, <2>3 DEF IInv, TypeOK, LiveSlotsExact
  <2>5. Fifo!Front
    BY <2>1, <2>2 DEF Fifo!Front
  <2>6. QED
    BY <2>4, <2>5 DEF Fifo!Next
<1>7. ASSUME NEW id \in Ids, RemoveId(id)
      PROVE  IInv' /\ Fifo!Next
  <2>1. CASE /\ \A i \in 0..(deque.count - 1) : ValueAt(deque, i) # id
             /\ result' = NoId
             /\ UNCHANGED deque
    <3>1. IInv'
      BY <1>1, <2>1 DEF IInv, TypeOK, LiveSlotsExact
    <3>2. \A i \in 1..Len(q) : q[i] # id
      <4>1. TAKE i \in 1..Len(q)
      <4>2. i - 1 \in 0..(deque.count - 1)
        BY <1>1, <1>2
      <4>3. QED
        BY <1>2, <2>1, <4>2
    <3>3. Fifo!Remove(id)
      BY <2>1, <3>2 DEF Fifo!Remove
    <3>4. QED
      BY <3>1, <3>3 DEF Fifo!Next
  <2>2. ASSUME NEW k \in 0..(deque.count - 1), FirstAt(deque, id, k),
               deque' = RemovedAt(deque, k), result' = id
        PROVE  IInv' /\ Fifo!Next
    <3>1. /\ deque' \in Deques /\ SlotsExact(deque')
          /\ ContentsOf(deque') =
               [i \in 1..(deque.count - 1) |->
                   IF i < k + 1 THEN q[i] ELSE q[i + 1]]
      BY <1>1, <2>2, RemovedCloses
    <3>2. IInv'
      BY <2>2, <3>1 DEF IInv, TypeOK, LiveSlotsExact
    <3>3. k + 1 \in 1..Len(q) /\ q[k + 1] = id
      <4>1. k + 1 \in 1..deque.count /\ (k + 1) - 1 = k
        BY <1>1
      <4>2. QED
        BY <1>2, <2>2, <4>1 DEF FirstAt
    <3>4. \A i \in 1..((k + 1) - 1) : q[i] # id
      <4>1. TAKE i \in 1..((k + 1) - 1)
      <4>2. i - 1 \in 0..(k - 1) /\ i \in 1..deque.count
        BY <1>1
      <4>3. QED
        BY <1>2, <2>2, <4>2 DEF FirstAt
    <3>5. Fifo!Remove(id)
      BY <1>2, <2>2, <3>1, <3>3, <3>4 DEF Fifo!Remove
    <3>6. QED
      BY <3>2, <3>5 DEF Fifo!Next
  <2>3. QED
    BY <1>7, <2>1, <2>2 DEF RemoveId
<1>8. ASSUME Reset
      PROVE  IInv' /\ Fifo!Next
  <2>1. deque' = NewOrder(Capacity(deque)) /\ result' = NoId
    BY <1>8 DEF Reset
  <2>2. /\ deque' \in Deques /\ SlotsExact(deque')
        /\ ContentsOf(deque') = <<>>
    BY <1>1, <2>1, DequeFields, NewIsEmpty
  <2>3. IInv'
    BY <2>1, <2>2 DEF IInv, TypeOK, LiveSlotsExact
  <2>4. Fifo!Reset
    BY <2>1, <2>2 DEF Fifo!Reset
  <2>5. QED
    BY <2>3, <2>4 DEF Fifo!Next
<1>9. ASSUME UNCHANGED orderVars
      PROVE  IInv' /\ UNCHANGED Fifo!vars
  BY <1>9 DEF orderVars, IInv, TypeOK, LiveSlotsExact, Fifo!vars
<1>10. QED
  BY <1>4, <1>5, <1>6, <1>7, <1>8, <1>9 DEF OrderNext

\* The deque always has the shape the other facts rely on: its window fits
\* its slots and its head lies inside them.
THEOREM TypeCorrect == OrderSpec => []TypeOK
<1>1. IInv => TypeOK
  BY DEF IInv
<1>2. QED
  BY InitInv, StepInv, <1>1, PTL DEF OrderSpec

\* For every capacity and every sequence of calls, exactly the slots inside
\* the window hold identifiers (store_order.go, every method).
THEOREM SlotsStayExact == OrderSpec => []LiveSlotsExact
<1>1. IInv => LiveSlotsExact
  BY DEF IInv
<1>2. QED
  BY InitInv, StepInv, <1>1, PTL DEF OrderSpec

\* The circular deque implements the queue: whatever wraps or grows, every
\* operation returns and leaves what it would on a plain sequence.
THEOREM DequeIsFifo == OrderSpec => ImplementsFifo
<1>1. OrderInit => Fifo!Init
  BY NewIsEmpty, OrderAssumption DEF OrderInit, Fifo!Init, OrderAssumption
<1>2. QED
  BY InitInv, StepInv, <1>1, PTL DEF OrderSpec, ImplementsFifo, Fifo!Spec
=============================================================================
