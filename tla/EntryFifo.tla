------------------------------ MODULE EntryFifo ------------------------------
(***************************************************************************)
(* What the entry store expects of its insertion order: a queue of entry   *)
(* identifiers, oldest first.  EntryOrder shows that the circular buffer   *)
(* of store_order.go implements it.                                        *)
(***************************************************************************)
EXTENDS Naturals, Sequences

CONSTANTS Ids,      \* entry identifiers
          NoId,     \* the empty string the deque returns for "nothing"
          MaxCount  \* bound on the number of queued identifiers

VARIABLES queue,    \* the identifiers, oldest first
          result    \* what the last operation returned, NoId for nothing

vars == <<queue, result>>

Init == queue = <<>> /\ result = NoId

PushBack(id) ==
    /\ Len(queue) < MaxCount
    /\ queue' = Append(queue, id)
    /\ result' = NoId

PopFront ==
    \/ /\ queue = <<>>
       /\ result' = NoId
       /\ UNCHANGED queue
    \/ /\ queue # <<>>
       /\ result' = Head(queue)
       /\ queue' = Tail(queue)

Front ==
    /\ result' = IF queue = <<>> THEN NoId ELSE Head(queue)
    /\ UNCHANGED queue

\* The first occurrence of an identifier leaves, the rest keep their order.
Remove(id) ==
    \/ /\ \A i \in 1..Len(queue) : queue[i] # id
       /\ result' = NoId
       /\ UNCHANGED queue
    \/ \E k \in 1..Len(queue) :
         /\ queue[k] = id
         /\ \A i \in 1..(k - 1) : queue[i] # id
         /\ queue' = [i \in 1..(Len(queue) - 1) |->
                        IF i < k THEN queue[i] ELSE queue[i + 1]]
         /\ result' = id

Reset == queue' = <<>> /\ result' = NoId

Next ==
    \/ \E id \in Ids : PushBack(id) \/ Remove(id)
    \/ PopFront
    \/ Front
    \/ Reset

Spec == Init /\ [][Next]_vars
=============================================================================
