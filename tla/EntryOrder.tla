----------------------------- MODULE EntryOrder ------------------------------
(***************************************************************************)
(* The circular deque of entry identifiers (store_order.go).  The window   *)
(* of `count` live slots starts at `head` and may wrap around the end of   *)
(* `values`; a push into a full window first moves it into a larger array. *)
(* Each method is an operator from a deque to the deque it leaves behind.  *)
(* Slots are numbered from 0 in the code and from 1 in `values` here.      *)
(***************************************************************************)
EXTENDS Naturals, Sequences

CONSTANTS Ids,              \* entry identifiers
          NoId,             \* the empty string, value of a slot not in use
          InitialCapacity,  \* newEntryOrder's argument, clamped at zero
          MaxCount          \* bound on the number of queued identifiers

ASSUME OrderAssumption ==
    /\ NoId \notin Ids
    /\ InitialCapacity \in Nat
    /\ MaxCount \in Nat

VARIABLES deque,   \* the deque: values, head and count
          result   \* what the last operation returned, NoId for nothing

orderVars == <<deque, result>>

Capacity(d) == Len(d.values)

Slot(d, index) == 1 + ((d.head + index) % Capacity(d))

ValueAt(d, index) == IF index < d.count THEN d.values[Slot(d, index)] ELSE NoId

\* How far a slot lies behind the head, going round.
Distance(d, slot) == (slot - 1 + Capacity(d) - d.head) % Capacity(d)

EmptySlots(capacity) == [s \in 1..capacity |-> NoId]

NewOrder(capacity) ==
    [values |-> EmptySlots(capacity), head |-> 0, count |-> 0]

GrownCapacity(d) == IF 2 * Capacity(d) > 4 THEN 2 * Capacity(d) ELSE 4

\* Mutant: the slots are copied as they lie, not from the head.
GrownUnrotated(d) ==
    [values |-> [s \in 1..GrownCapacity(d) |->
                   IF s <= Capacity(d) THEN d.values[s] ELSE NoId],
     head   |-> 0,
     count  |-> d.count]

Grown(d) ==
    [values |-> [s \in 1..GrownCapacity(d) |-> ValueAt(d, s - 1)],
     head   |-> 0,
     count  |-> d.count]

\* pushBack with a free slot behind the window.
Placed(d, id) ==
    [values |-> [d.values EXCEPT ![Slot(d, d.count)] = id],
     head   |-> d.head,
     count  |-> d.count + 1]

Pushed(d, id) == Placed(IF d.count = Capacity(d) THEN Grown(d) ELSE d, id)

\* An emptied window starts again at slot 0.
HeadAfter(d, head) == IF d.count = 1 THEN 0 ELSE head

\* Mutants: the head runs off the end; the slot keeps its string.
PoppedUnwrapped(d) ==
    [values |-> [d.values EXCEPT ![Slot(d, 0)] = NoId],
     head   |-> HeadAfter(d, d.head + 1),
     count  |-> d.count - 1]

PoppedUncleared(d) ==
    [values |-> d.values,
     head   |-> HeadAfter(d, (d.head + 1) % Capacity(d)),
     count  |-> d.count - 1]

\* popFront of a deque that is not empty.
Popped(d) ==
    [values |-> [d.values EXCEPT ![Slot(d, 0)] = NoId],
     head   |-> HeadAfter(d, (d.head + 1) % Capacity(d)),
     count  |-> d.count - 1]

FrontOf(d) == IF d.count = 0 THEN NoId ELSE d.values[Slot(d, 0)]

\* The live slots behind index k move up by one and the last one is emptied.
ShiftedOver(d, k) ==
    [s \in 1..Capacity(d) |->
        IF Distance(d, s) \in k..(d.count - 1) THEN ValueAt(d, Distance(d, s) + 1)
        ELSE d.values[s]]

RemovedAt(d, k) ==
    [values |-> ShiftedOver(d, k),
     head   |-> HeadAfter(d, d.head),
     count  |-> d.count - 1]

FirstAt(d, id, k) ==
    ValueAt(d, k) = id /\ \A i \in 0..(k - 1) : ValueAt(d, i) # id

-----------------------------------------------------------------------------
OrderInit == deque = NewOrder(InitialCapacity) /\ result = NoId

PushBack(id) ==
    /\ deque.count < MaxCount
    /\ deque' = Pushed(deque, id)
    /\ result' = NoId

PopFront ==
    \/ /\ deque.count = 0
       /\ result' = NoId
       /\ UNCHANGED deque
    \/ /\ deque.count > 0
       /\ result' = deque.values[Slot(deque, 0)]
       /\ deque' = Popped(deque)

LookAtFront == result' = FrontOf(deque) /\ UNCHANGED deque

RemoveId(id) ==
    \/ /\ \A i \in 0..(deque.count - 1) : ValueAt(deque, i) # id
       /\ result' = NoId
       /\ UNCHANGED deque
    \/ \E k \in 0..(deque.count - 1) :
         /\ FirstAt(deque, id, k)
         /\ deque' = RemovedAt(deque, k)
         /\ result' = id

Reset == deque' = NewOrder(Capacity(deque)) /\ result' = NoId

OrderNext ==
    \/ \E id \in Ids : PushBack(id) \/ RemoveId(id)
    \/ PopFront
    \/ LookAtFront
    \/ Reset

OrderSpec == OrderInit /\ [][OrderNext]_orderVars

-----------------------------------------------------------------------------
Deques ==
    {d \in [values : Seq(Ids \cup {NoId}), head : Nat, count : Nat] :
        /\ d.count <= Capacity(d)
        /\ d.head < Capacity(d) \/ d.head = 0}

TypeOK == deque \in Deques /\ result \in Ids \cup {NoId}

SlotsExact(d) ==
    \A s \in 1..Capacity(d) : d.values[s] # NoId <=> Distance(d, s) < d.count

\* A slot holds an identifier exactly while it is inside the window: a push
\* overwrites nothing live, wherever the window wraps, and the strings of
\* evicted entries are released (store_order.go:51, 69 and 80).
LiveSlotsExact == SlotsExact(deque)

\* The deque is a FIFO queue: every operation does to the window, read from
\* the head, and returns, what it would do to a plain sequence.
ContentsOf(d) == [i \in 1..d.count |-> ValueAt(d, i - 1)]

Fifo == INSTANCE EntryFifo WITH queue <- ContentsOf(deque)

ImplementsFifo == Fifo!Spec
=============================================================================
