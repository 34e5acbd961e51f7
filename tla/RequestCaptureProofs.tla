------------------------ MODULE RequestCaptureProofs ------------------------
(***************************************************************************)
(* For every number of goroutines, requests, entities and slots: the loop  *)
(* of takeRequestCaptureSlot gives each slot to one request, whatever was  *)
(* logged for a request has one fate, and what its buffer held reaches the *)
(* store before it does.                                                   *)
(***************************************************************************)
EXTENDS RequestCapture, SequenceTheorems, FiniteSetTheorems, WellFoundedInduction,
        TLAPS

Stages == {"new", "candidate", "captured", "skipped"}

Captured == {r \in Requests : stage[r] = "captured"}

\* A goroutine between the arrival of a request and the answer.
Searching(p) == call[p].at \in {"load", "swap"}

(***************************************************************************)
(* SlotsExact is not inductive: a swap that succeeds must capture a        *)
(* request that was not captured before, and nobody else's.                *)
(***************************************************************************)
SlotsInv ==
    /\ requestLimit \in Int /\ remaining \in Int
    /\ stage \in [Requests -> Stages]
    /\ DOMAIN call = Procs
    /\ \A p \in Procs : Searching(p) =>
         /\ call[p].request \in Requests
         /\ stage[call[p].request] = "candidate"
    /\ \A p, q \in Procs : Searching(p) /\ Searching(q) /\ call[p].request = call[q].request
                             => p = q
    /\ \A p \in Procs : call[p].at = "swap" => call[p].saw \in Int /\ requestLimit >= 0
    /\ SlotsExact

-----------------------------------------------------------------------------

LEMMA SlotsStart == Init => SlotsInv
PROOF
<1> SUFFICES ASSUME Init PROVE SlotsInv
  OBVIOUS
<1>1. \A p \in Procs : ~Searching(p)
  BY DEF Init, Searching, Idle
<1>2. SlotsExact
  <2>1. {r \in Requests : stage[r] = "captured"} = {}
    BY DEF Init
  <2>2. Cardinality({}) = 0
    BY FS_EmptySet
  <2>3. remaining = requestLimit /\ requestLimit \in Int
    BY CaptureAssumption DEF Init
  <2>4. Cardinality({r \in Requests : stage[r] = "captured"}) = 0
    BY <2>1, <2>2
  <2> QED BY <2>3, <2>4 DEF SlotsExact
<1> QED BY <1>1, <1>2, CaptureAssumption DEF Init, SlotsInv, Stages, Searching

\* Goroutines whose calls are not about slots leave the invariant alone.
LEMMA OtherCallKeeps ==
    ASSUME SlotsInv, NEW p \in Procs, ~Searching(p), UNCHANGED slotVars,
           NEW c, c.at \notin {"load", "swap"},
           call' = call \/ call' = [call EXCEPT ![p] = c]
    PROVE  SlotsInv'
PROOF
<1>1. \A q \in Procs : Searching(q)' => q # p /\ call'[q] = call[q] /\ Searching(q)
  BY DEF SlotsInv, Searching
<1>2. DOMAIN call' = Procs
  BY DEF SlotsInv
<1>3. SlotsExact'
  BY DEF SlotsInv, SlotsExact, slotVars
<1>4. \A q \in Procs : call'[q].at = "swap" => Searching(q)'
  BY DEF Searching
<1> QED BY <1>1, <1>2, <1>3, <1>4 DEF SlotsInv, slotVars

\* A request that has not been captured gets another stage.
LEMMA StageKeeps ==
    ASSUME SlotsInv, NEW r \in Requests, stage[r] # "captured",
           NEW s \in Stages, stage' = [stage EXCEPT ![r] = s],
           UNCHANGED requestLimit,
           IF s = "captured" THEN requestLimit >= 0 => remaining' = remaining - 1
                             ELSE UNCHANGED remaining
    PROVE  SlotsExact'
PROOF
<1>1. IsFiniteSet(Captured) /\ Cardinality(Captured) \in Nat
  BY CaptureAssumption, FS_Subset, FS_CardinalityType DEF Captured
<1>2. CASE s = "captured"
  <2>1. Captured' = Captured \cup {r} /\ r \notin Captured
    BY <1>2 DEF SlotsInv, Captured
  <2>2. Cardinality(Captured') = Cardinality(Captured) + 1
    BY <1>1, <2>1, FS_AddElement
  <2> QED BY <1>1, <1>2, <2>2 DEF SlotsInv, SlotsExact, Captured
<1>3. CASE s # "captured"
  <2>1. Captured' = Captured
    BY <1>3 DEF SlotsInv, Captured
  <2> QED BY <1>3, <2>1 DEF SlotsInv, SlotsExact, Captured
<1> QED BY <1>2, <1>3

LEMMA ArriveKeeps ==
    ASSUME SlotsInv, NEW p \in Procs, NEW r \in Requests, Arrive(p, r)
    PROVE  SlotsInv'
PROOF
<1>1. call[p] = Idle /\ stage[r] = "new" /\ requestLimit' = requestLimit /\ remaining' = remaining
  BY DEF Arrive
<1>2. ~Searching(p)
  BY <1>1 DEF Searching, Idle
<1>3. \A q \in Procs : Searching(q) => call[q].request # r
  BY <1>1 DEF SlotsInv
<1>4. CASE stage' = [stage EXCEPT ![r] = "skipped"] /\ call' = call
  <2>1. SlotsExact'
    BY <1>1, <1>4, StageKeeps DEF Stages
  <2> QED BY <1>1, <1>3, <1>4, <2>1 DEF SlotsInv, Searching, Stages
<1>5. CASE /\ stage' = [stage EXCEPT ![r] = "candidate"]
           /\ call' = [call EXCEPT ![p] = [at |-> "load", request |-> r]]
  <2>1. SlotsExact'
    BY <1>1, <1>5, StageKeeps DEF Stages
  <2>2. stage' \in [Requests -> Stages] /\ stage'[r] = "candidate"
        /\ \A t \in Requests : t # r => stage'[t] = stage[t]
    BY <1>5 DEF SlotsInv, Stages
  <2>3. /\ call'[p].at = "load" /\ call'[p].request = r
        /\ \A q \in Procs : q # p => call'[q] = call[q]
        /\ DOMAIN call' = Procs
    BY <1>5 DEF SlotsInv
  <2> QED BY <1>1, <1>3, <2>1, <2>2, <2>3 DEF SlotsInv, Searching
<1> QED BY <1>4, <1>5 DEF Arrive

\* The answer: the request of p gets its stage, and p is done with it.
LEMMA AnswerKeeps ==
    ASSUME SlotsInv, NEW p \in Procs, Searching(p), NEW s \in {"captured", "skipped"},
           stage' = [stage EXCEPT ![call[p].request] = s],
           call' = [call EXCEPT ![p] = Idle],
           UNCHANGED requestLimit,
           IF s = "captured" THEN requestLimit >= 0 => remaining' = remaining - 1
                             ELSE UNCHANGED remaining,
           remaining' \in Int
    PROVE  SlotsInv'
PROOF
<1> DEFINE r == call[p].request
<1>1. r \in Requests /\ stage[r] = "candidate"
  BY DEF SlotsInv
<1> HIDE DEF r
<1>2. stage' = [stage EXCEPT ![r] = s]
  BY DEF r
<1>3. SlotsExact'
  BY <1>1, <1>2, StageKeeps DEF Stages
<1>4. stage' \in [Requests -> Stages] /\ \A t \in Requests : t # r => stage'[t] = stage[t]
  BY <1>1, <1>2 DEF SlotsInv, Stages
<1>5. /\ DOMAIN call' = Procs /\ ~Searching(p)'
      /\ \A q \in Procs : q # p => call'[q] = call[q]
  BY DEF SlotsInv, Searching, Idle
<1>6. \A q \in Procs : q # p /\ Searching(q) => call[q].request # r
  BY DEF SlotsInv, r
<1>7. \A q \in Procs : Searching(q)' => q # p /\ Searching(q) /\ call'[q] = call[q]
  BY <1>5 DEF Searching
<1>8. \A q \in Procs : call'[q].at = "swap" => Searching(q)'
  BY DEF Searching
<1> QED BY <1>3, <1>4, <1>5, <1>6, <1>7, <1>8 DEF SlotsInv

\* p goes on to the other step of its loop.
LEMMA LoopKeeps ==
    ASSUME SlotsInv, NEW p \in Procs, Searching(p), Searching(p)',
           DOMAIN call' = Procs, call'[p].request = call[p].request,
           call'[p].at = "swap" => call'[p].saw \in Int /\ requestLimit >= 0,
           \A q \in Procs : q # p => call'[q] = call[q],
           UNCHANGED slotVars
    PROVE  SlotsInv'
PROOF
<1>1. \A q \in Procs : q # p => call'[q] = call[q]
  OBVIOUS
<1>2. \A q \in Procs : Searching(q)' <=> Searching(q)
  BY <1>1 DEF Searching
<1>3. \A q \in Procs : Searching(q) => call'[q].request = call[q].request
  BY <1>1
<1>4. SlotsExact'
  BY DEF SlotsInv, SlotsExact, slotVars
<1> QED BY <1>1, <1>2, <1>3, <1>4 DEF SlotsInv, slotVars

LEMMA LoadKeeps ==
    ASSUME SlotsInv, NEW p \in Procs, LoadRemaining(p)
    PROVE  SlotsInv'
PROOF
<1> DEFINE c == [at |-> "swap", request |-> call[p].request, saw |-> remaining]
<1>1. Searching(p) /\ requestLimit' = requestLimit /\ remaining' = remaining
      /\ remaining \in Int
  BY DEF LoadRemaining, Searching, SlotsInv
<1>2. CASE /\ requestLimit < 0
           /\ stage' = [stage EXCEPT ![call[p].request] = "captured"]
           /\ call' = [call EXCEPT ![p] = Idle]
  <2>1. ~(requestLimit >= 0)
    BY <1>2 DEF SlotsInv
  <2> QED BY <1>1, <1>2, <2>1, AnswerKeeps
<1>3. CASE /\ stage' = [stage EXCEPT ![call[p].request] = "skipped"]
           /\ call' = [call EXCEPT ![p] = Idle]
  BY <1>1, <1>3, AnswerKeeps
<1>4. CASE requestLimit >= 0 /\ call' = [call EXCEPT ![p] = c] /\ UNCHANGED stage
  <2>1. /\ call'[p].at = "swap" /\ call'[p].request = call[p].request
        /\ call'[p].saw = remaining
        /\ DOMAIN call' = Procs /\ \A q \in Procs : q # p => call'[q] = call[q]
    BY <1>4 DEF SlotsInv
  <2>2. Searching(p)' /\ UNCHANGED slotVars
    BY <1>1, <1>4, <2>1 DEF Searching, slotVars
  <2> HIDE DEF c
  <2> QED BY <1>1, <1>4, <2>1, <2>2, LoopKeeps
<1> QED BY <1>2, <1>3, <1>4 DEF LoadRemaining

LEMMA SwapKeeps ==
    ASSUME SlotsInv, NEW p \in Procs, CompareAndSwap(p)
    PROVE  SlotsInv'
PROOF
<1> DEFINE c == [at |-> "load", request |-> call[p].request]
<1>1. Searching(p) /\ requestLimit' = requestLimit /\ remaining \in Int
  BY DEF CompareAndSwap, Searching, SlotsInv
<1>2. CASE remaining = call[p].saw
  <2>1. /\ remaining' = remaining - 1
        /\ stage' = [stage EXCEPT ![call[p].request] = "captured"]
        /\ call' = [call EXCEPT ![p] = Idle]
    BY <1>2 DEF CompareAndSwap
  <2>2. remaining' \in Int
    BY <1>1, <2>1
  <2>3. requestLimit >= 0 => remaining' = remaining - 1
    BY <2>1
  <2> HIDE DEF c
  <2> QED BY <1>1, <2>1, <2>2, <2>3, AnswerKeeps
<1>3. CASE remaining # call[p].saw
  <2>1. call' = [call EXCEPT ![p] = c] /\ UNCHANGED slotVars
    BY <1>3 DEF CompareAndSwap, slotVars
  <2>2. /\ call'[p].at = "load" /\ call'[p].request = call[p].request
        /\ DOMAIN call' = Procs /\ \A q \in Procs : q # p => call'[q] = call[q]
    BY <2>1 DEF SlotsInv
  <2>3. Searching(p)'
    BY <2>2 DEF Searching
  <2> HIDE DEF c
  <2> QED BY <1>1, <2>1, <2>2, <2>3, LoopKeeps
<1> QED BY <1>2, <1>3

LEMMA SlotsStep == SlotsInv /\ [Next]_vars => SlotsInv'
PROOF
<1> SUFFICES ASSUME SlotsInv, [Next]_vars PROVE SlotsInv'
  OBVIOUS
<1>1. ASSUME NEW p \in Procs, NEW r \in Requests, Arrive(p, r) PROVE SlotsInv'
  BY <1>1, ArriveKeeps
<1>2. ASSUME NEW p \in Procs, LoadRemaining(p) \/ CompareAndSwap(p) PROVE SlotsInv'
  BY <1>2, LoadKeeps, SwapKeeps
<1>3. ASSUME NEW p \in Procs, RecordNext(p) PROVE SlotsInv'
  <2> DEFINE c == IF Tail(call[p].items) = <<>> THEN Idle
                  ELSE [at |-> "record", items |-> Tail(call[p].items)]
  <2>1. call' = [call EXCEPT ![p] = c] /\ UNCHANGED slotVars /\ ~Searching(p)
    BY <1>3 DEF RecordNext, Searching
  <2>2. c.at \notin {"load", "swap"}
    BY DEF Idle
  <2> HIDE DEF c
  <2> QED BY <2>1, <2>2, OtherCallKeeps
<1>4. ASSUME NEW p \in Procs, NEW r \in Requests, Finish(p, r) PROVE SlotsInv'
  <2> DEFINE c == [at |-> "record", items |-> RecordsOf(r)]
  <2>1. /\ call' = call \/ call' = [call EXCEPT ![p] = c]
        /\ UNCHANGED slotVars /\ ~Searching(p)
    BY <1>4 DEF Finish, Searching, Idle
  <2>2. c.at \notin {"load", "swap"}
    OBVIOUS
  <2> HIDE DEF c
  <2> QED BY <2>1, <2>2, OtherCallKeeps
<1>5. ASSUME NEW p \in Procs, NEW r \in Requests, NEW e \in Events,
             LogContext(p, r, e) \/ Log(p, r, e)
      PROVE SlotsInv'
  <2> DEFINE c == [at |-> "record", items |-> <<Record(e, r)>>]
  <2>1. /\ call' = call \/ call' = [call EXCEPT ![p] = c]
        /\ UNCHANGED slotVars /\ ~Searching(p)
    BY <1>5 DEF LogContext, Log, Searching, Idle
  <2>2. c.at \notin {"load", "swap"}
    OBVIOUS
  <2> HIDE DEF c
  <2> QED BY <2>1, <2>2, OtherCallKeeps
<1>6. CASE UNCHANGED vars
  BY <1>6 DEF vars, slotVars, SlotsInv, SlotsExact, Searching
<1> QED BY <1>1, <1>2, <1>3, <1>4, <1>5, <1>6 DEF Next, Continue

\* However many requests race for the slots of WithNextRequests, as many are
\* captured as slots are gone (takeRequestCaptureSlot).
THEOREM SlotsAreExact == Spec => []SlotsExact
PROOF
<1>1. Init => SlotsInv
  BY SlotsStart
<1>2. SlotsInv /\ [Next]_vars => SlotsInv'
  BY SlotsStep
<1>3. SlotsInv => SlotsExact
  BY DEF SlotsInv
<1> QED BY <1>1, <1>2, <1>3, PTL DEF Spec

-----------------------------------------------------------------------------
(* Induction over numbers, on their smallest counterexample: no theorem with *)
(* an operator parameter is needed.                                        *)

\* What holds of 0 and with every number of the next one holds up to n:
\* otherwise there would be a least number it does not hold of.
LEMMA Upwards ==
    ASSUME NEW n \in Nat, NEW P, 0 \in P, \A k \in 0..(n - 1) : k \in P => (k + 1) \in P
    PROVE  n \in P
PROOF
<1> DEFINE less == OpToRel(<, Nat)
           bad == {k \in 0..n : k \notin P}
<1>1. IsWellFoundedOn(less, Nat)
  BY NatLessThanWellFounded
<1>2. \A a, b \in Nat : a < b => <<a, b>> \in less
  BY DEF OpToRel
<1> HIDE DEF less
<1>3. SUFFICES ASSUME bad # {} PROVE FALSE
  OBVIOUS
<1>4. bad \subseteq Nat
  OBVIOUS
<1> HIDE DEF bad
<1>5. PICK k \in bad : \A j \in bad : ~(<<j, k>> \in less)
  BY <1>1, <1>3, <1>4, WFMin
<1> USE DEF bad
<1>6. k # 0 /\ k \in 0..n /\ k \notin P
  OBVIOUS
<1>7. k - 1 \in Nat /\ k - 1 < k /\ k - 1 \in 0..(n - 1) /\ (k - 1) + 1 = k
  BY <1>6
<1>8. k - 1 \notin bad
  <2> DEFINE j == k - 1
  <2>1. j \in Nat /\ k \in Nat /\ j < k
    BY <1>6, <1>7
  <2> HIDE DEF j
  <2>2. <<j, k>> \in less
    BY <1>2, <2>1
  <2>3. j \notin bad
    BY <1>5, <2>2
  <2> QED BY <2>3 DEF j
<1> QED BY <1>6, <1>7, <1>8

-----------------------------------------------------------------------------
(* Where an entity can be, and what holds of it there.                     *)

\* What stands in a sequence ...
Elements(s) == {s[i] : i \in 1..Len(s)}

\* ... and that nothing stands in it twice.
Injective(s) == \A i, j \in 1..Len(s) : s[i] = s[j] => i = j

\* The same for sequences of records, by the entity they record.
IdsOf(items) == {items[i].id : i \in 1..Len(items)}

\* No entity stands in items twice.
Distinct(items) == \A i, j \in 1..Len(items) : items[i].id = items[j].id => i = j

\* The records there can be.
Records == [id : Events \cup Requests, request : Requests]

\* What a goroutine still has to put into the store.
InHand(p) == IF call[p].at = "record" THEN call[p].items ELSE <<>>

\* The entity is in the store or in the hands of a goroutine.
Held(id) == id \in IdsOf(recorded) \/ \E p \in Procs : id \in IdsOf(InHand(p))

\* The types.  A goroutine that records has something left to record.
FatesTypeOK ==
    /\ DOMAIN call = Procs
    /\ stage \in [Requests -> Stages]
    /\ isFinished \in [Requests -> BOOLEAN]
    /\ verdict \in [Requests -> {"none", "retained", "rejected"}]
    /\ buffer \in [Requests -> Seq(Events)]
    /\ logged \subseteq [id : Events, request : Requests]
    /\ recorded \in Seq(Records)
    /\ \A p \in Procs : InHand(p) \in Seq(Records)
    /\ \A p \in Procs : call[p].at = "record" => call[p].items # <<>>

\* Only what was logged for a captured request, or was a finished one, is
\* recorded for it.
Known(item) ==
    /\ stage[item.request] = "captured"
    /\ item.id \in Events => item \in logged
    /\ item.id \in Requests => item.request = item.id /\ isFinished[item.id]

\* An entity is logged once, and what a buffer, a goroutine or the store has was
\* logged for the request it is kept for.
LoggedOnce ==
    /\ \A l, m \in logged : l.id = m.id => l = m
    /\ \A l \in logged : stage[l.request] = "captured"
    /\ \A r \in Requests :
         /\ Injective(buffer[r])
         /\ \A e \in Elements(buffer[r]) : Record(e, r) \in logged
    /\ \A item \in Elements(recorded) : Known(item)
    /\ \A p \in Procs : \A item \in Elements(InHand(p)) : Known(item)

\* No entity is in two places: twice in the store, in two hands, in a hand and
\* the store, or still in a buffer that will be recorded.
OnePlace ==
    /\ Distinct(recorded)
    /\ \A p \in Procs :
         /\ Distinct(InHand(p))
         /\ IdsOf(InHand(p)) \cap IdsOf(recorded) = {}
         /\ \A q \in Procs : p # q => IdsOf(InHand(p)) \cap IdsOf(InHand(q)) = {}
    /\ \A r \in Requests : ~isFinished[r] =>
         \A e \in Elements(buffer[r]) : ~Held(e)

\* Nothing gets lost: what is not held was left out for its kind, or is in a
\* buffer that will be recorded or was rejected.
NoneLost ==
    /\ \A l \in logged :
         \/ Held(l.id)
         \/ LeftOut(l.id)
         \/ /\ l.id \in Elements(buffer[l.request])
            /\ ~isFinished[l.request] \/ verdict[l.request] = "rejected"
    /\ \A r \in Requests :
         isFinished[r] => Held(r) \/ LeftOut(r) \/ verdict[r] = "rejected"

\* A request is the last its goroutine records, and what was in its buffer is in
\* the store or stands before it.
RequestLast ==
    /\ \A p \in Procs : \A i \in 1..Len(InHand(p)) :
         LET r == InHand(p)[i].id
         IN  r \in Requests =>
               /\ i = Len(InHand(p))
               /\ \A e \in Elements(buffer[r]) :
                    \/ LeftOut(e)
                    \/ e \in IdsOf(recorded)
                    \/ e \in IdsOf(InHand(p))
    /\ \A i \in 1..Len(recorded) :
         LET r == recorded[i].id
         IN  r \in Requests =>
               \A e \in Elements(buffer[r]) :
                 LeftOut(e) \/ \E k \in 1..(i - 1) : recorded[k].id = e

\* The inductive invariant.  ChildrenBeforeRequest and OneFate are about the
\* store; why they stay true rests on what the goroutines have in their hands.
FatesInv == FatesTypeOK /\ LoggedOnce /\ OnePlace /\ NoneLost /\ RequestLast

-----------------------------------------------------------------------------
(* LogRequest selects kind by kind.                                        *)

\* What kind(ids) in RecordsOf computes ...
Sel(s, ids) ==
  FoldLeft(LAMBDA found, e : IF e \in ids THEN Append(found, e) ELSE found, <<>>, s)

\* ... as a function of the positions it has gone through.
Fold(g, s, ids, D) ==
  g = [T \in SUBSET D |-> IF T = {} THEN <<>>
         ELSE IF s[Max(T)] \in ids THEN Append(g[T \ {Max(T)}], s[Max(T)])
              ELSE g[T \ {Max(T)}]]

\* The fold of the community modules is such a function, applied.
LEMMA SelFolds ==
    ASSUME NEW s, NEW ids
    PROVE  Sel(s, ids) = (CHOOSE g : Fold(g, s, ids, DOMAIN s))[DOMAIN s]
PROOF
BY DEF Sel, FoldLeft, MapThenFoldSet, Fold

\* A fold over positions takes the last one first.
LEMMA MaxOfPrefix ==
    ASSUME NEW k \in Nat
    PROVE  /\ Max(1..(k + 1)) = k + 1
           /\ (1..(k + 1)) \ {k + 1} = 1..k
           /\ \A T \in SUBSET (1..(k + 1)) : k + 1 \in T => Max(T) = k + 1
PROOF
<1>1. \A T \in SUBSET (1..(k + 1)) : k + 1 \in T => Max(T) = k + 1
  <2> SUFFICES ASSUME NEW T \in SUBSET (1..(k + 1)), k + 1 \in T PROVE Max(T) = k + 1
    OBVIOUS
  <2>1. \A y \in T : y \in Int /\ k + 1 >= y
    OBVIOUS
  <2>2. \A x \in T : (\A y \in T : x >= y) => x = k + 1
    BY <2>1
  <2> QED BY <2>1, <2>2 DEF Max
<1> QED BY <1>1

\* There is such a function for every sequence.
LEMMA FoldExists ==
    ASSUME NEW s, NEW ids, NEW n \in Nat
    PROVE  \E g : Fold(g, s, ids, 1..n)
PROOF
<1> DEFINE P == {k \in 0..n : \E g : Fold(g, s, ids, 1..k)}
<1>1. 0 \in P
  <2> DEFINE z == [T \in SUBSET {} |-> <<>>]
  <2>1. 1..0 = {}
    OBVIOUS
  <2>2. Fold(z, s, ids, {})
    BY DEF Fold
  <2> QED BY <2>1, <2>2
<1>2. ASSUME NEW k \in 0..(n - 1), k \in P PROVE (k + 1) \in P
  <2>1. PICK g : Fold(g, s, ids, 1..k)
    BY <1>2
  <2> DEFINE last == k + 1
             step(T) == IF s[last] \in ids THEN Append(g[T], s[last]) ELSE g[T]
             G == [T \in SUBSET (1..last) |->
                     IF last \in T THEN step(T \ {last}) ELSE g[T]]
  <2>2. /\ 1..k \subseteq 1..last /\ last \notin 1..k
        /\ \A T \in SUBSET (1..last) : T \ {last} \in SUBSET (1..k)
        /\ \A T \in SUBSET (1..last) : last \in T => Max(T) = last
    <3>1. k \in Nat
      OBVIOUS
    <3>2. 1..k \subseteq 1..last /\ last \notin 1..k /\ (1..last) \ {last} = 1..k
      BY <3>1
    <3>3. \A T \in SUBSET (1..last) : T \ {last} \in SUBSET (1..k)
      BY <3>2
    <3> QED BY <3>1, <3>2, <3>3, MaxOfPrefix
  <2> HIDE DEF last
  <2>3. ASSUME NEW T \in SUBSET (1..last)
        PROVE  G[T] = IF T = {} THEN <<>>
         ELSE IF s[Max(T)] \in ids THEN Append(G[T \ {Max(T)}], s[Max(T)])
              ELSE G[T \ {Max(T)}]
    <3>1. CASE last \in T
      <4>1. Max(T) = last /\ T # {}
        BY <3>1, <2>2
      <4>2. G[T \ {last}] = g[T \ {last}]
        BY <2>2
      <4>3. G[T] = step(T \ {last})
        BY <3>1
      <4> HIDE DEF G
      <4> QED BY <4>1, <4>2, <4>3
    <3>2. CASE last \notin T
      <4>1. T \in SUBSET (1..k) /\ T \ {Max(T)} \in SUBSET (1..k)
        BY <3>2, <2>2
      <4>2. G[T] = g[T] /\ G[T \ {Max(T)}] = g[T \ {Max(T)}]
        BY <3>2, <4>1, <2>2
      <4> HIDE DEF G
      <4> QED BY <2>1, <4>1, <4>2 DEF Fold
    <3> QED BY <3>1, <3>2
  <2>4. G = [T \in SUBSET (1..last) |-> G[T]]
    OBVIOUS
  <2> HIDE DEF G
  <2>5. Fold(G, s, ids, 1..last)
    BY <2>3, <2>4 DEF Fold
  <2> QED BY <2>5 DEF last
<1>3. n \in P
  <2> HIDE DEF P
  <2> QED BY <1>1, <1>2, Upwards
<1> QED BY <1>3

\* What the fold selects: the elements of that kind, each as often as before.
LEMMA SelSelects ==
    ASSUME NEW E, NEW s \in Seq(E), NEW ids
    PROVE  /\ Sel(s, ids) \in Seq(E)
           /\ Elements(Sel(s, ids)) = Elements(s) \cap ids
           /\ Injective(s) => Injective(Sel(s, ids))
PROOF
<1> DEFINE n == Len(s)
           g == CHOOSE f : Fold(f, s, ids, 1..n)
           Upto(k) == {s[i] : i \in 1..k}
           P == {k \in 0..n :
                   /\ g[1..k] \in Seq(E)
                   /\ Elements(g[1..k]) = Upto(k) \cap ids
                   /\ Injective(s) => Injective(g[1..k])}
<1>1. n \in Nat /\ DOMAIN s = 1..n /\ \A i \in 1..n : s[i] \in E
  BY ElementOfSeq
<1>2. Fold(g, s, ids, 1..n) /\ Sel(s, ids) = g[1..n]
  BY <1>1, FoldExists, SelFolds
<1> HIDE DEF n, g
<1>3. 0 \in P
  <2>1. 1..0 = {} /\ {} \in SUBSET (1..n)
    OBVIOUS
  <2>2. g[{}] = <<>>
    BY <1>2, <2>1 DEF Fold
  <2> DEFINE none == g[1..0]
  <2>3. 1..Len(none) = {} /\ none \in Seq(E)
    <3>1. none = <<>>
      BY <2>1, <2>2
    <3> HIDE DEF none
    <3>2. Len(none) = 0 /\ none \in Seq(E)
      BY <3>1
    <3> QED BY <2>1, <3>2
  <2> HIDE DEF none
  <2>4. Elements(none) = {} /\ Injective(none)
    BY <2>3 DEF Elements, Injective
  <2>5. Upto(0) = {}
    BY <2>1
  <2> QED BY <1>1, <2>3, <2>4, <2>5 DEF none
<1>4. ASSUME NEW k \in 0..(n - 1), k \in P PROVE (k + 1) \in P
  <2> DEFINE last == k + 1
             so == g[1..k]
             x == s[last]
  <2>1. /\ k \in Nat /\ last \in 1..n /\ last \in 0..n /\ 1..last \in SUBSET (1..n) /\ 1..last # {}
        /\ \A i \in 1..last : i \in 1..k \/ i = last
        /\ \A i \in 1..k : i \in 1..last /\ i \in 1..n /\ i # last
    BY <1>1
  <2>2. Max(1..last) = last /\ (1..last) \ {last} = 1..k
    BY <2>1, MaxOfPrefix
  <2>3. g[1..last] = IF x \in ids THEN Append(so, x) ELSE so
    <3> HIDE DEF last
    <3> QED BY <1>2, <2>1, <2>2 DEF Fold
  <2>4. Upto(last) = Upto(k) \cup {x}
    <3> HIDE DEF last
    <3> QED BY <2>1
  <2>5. so \in Seq(E) /\ Elements(so) = Upto(k) \cap ids /\ (Injective(s) => Injective(so))
    BY <1>4
  <2>6. x \in E
    BY <1>1, <2>1
  <2>7. Injective(s) => x \notin Upto(k)
    <3> HIDE DEF last
    <3> QED BY <2>1 DEF Injective, n
  <2> HIDE DEF last, so, x, Upto
  <2>8. CASE x \notin ids
    <3>1. g[1..last] = so
      BY <2>3, <2>8
    <3>2. Elements(so) = Upto(last) \cap ids
      BY <2>4, <2>5, <2>8
    <3> QED BY <2>1, <2>5, <3>1, <3>2 DEF last
  <2>9. CASE x \in ids
    <3> DEFINE t == Append(so, x)
               m == Len(so)
    <3>1. /\ t \in Seq(E) /\ m \in Nat /\ Len(t) = m + 1 /\ t[m + 1] = x
          /\ \A i \in 1..m : t[i] = so[i]
      BY <2>5, <2>6
    <3>2. /\ \A i \in 1..(m + 1) : i \in 1..m \/ i = m + 1
          /\ m + 1 \in 1..(m + 1) /\ \A i \in 1..m : i \in 1..(m + 1)
      BY <3>1
    <3>3. g[1..last] = t
      BY <2>3, <2>9
    <3> HIDE DEF t, m
    <3>4. Elements(t) = Elements(so) \cup {x}
      BY <3>1, <3>2 DEF Elements, m
    <3>5. Injective(s) => Injective(t)
      <4> SUFFICES ASSUME Injective(s), NEW i \in 1..(m + 1), NEW j \in 1..(m + 1), t[i] = t[j]
                   PROVE  i = j
        BY <3>1 DEF Injective
      <4>1. x \notin Elements(so)
        BY <2>5, <2>7
      <4>2. \A a \in 1..m : so[a] # x
        BY <4>1 DEF Elements, m
      <4> QED BY <2>5, <3>1, <3>2, <4>2 DEF Injective, m
    <3>6. Elements(t) = Upto(last) \cap ids
      BY <2>4, <2>5, <2>9, <3>4
    <3> QED BY <2>1, <3>1, <3>3, <3>5, <3>6 DEF last
  <2> QED BY <2>8, <2>9
<1>5. n \in P
  <2> HIDE DEF P
  <2> QED BY <1>1, <1>3, <1>4, Upwards
<1>6. Upto(n) = Elements(s)
  BY DEF Elements, n
<1> QED BY <1>2, <1>5, <1>6

\* Appending something new.
LEMMA AppendOne ==
    ASSUME NEW S, NEW s \in Seq(S), NEW x \in S
    PROVE  /\ Append(s, x) \in Seq(S)
           /\ Elements(Append(s, x)) = Elements(s) \cup {x}
           /\ IdsOf(Append(s, x)) = IdsOf(s) \cup {x.id}
           /\ Injective(s) /\ x \notin Elements(s) => Injective(Append(s, x))
           /\ Distinct(s) /\ x.id \notin IdsOf(s) => Distinct(Append(s, x))
PROOF
<1> DEFINE t == Append(s, x)
           m == Len(s)
<1>1. /\ t \in Seq(S) /\ m \in Nat /\ Len(t) = m + 1 /\ t[m + 1] = x
      /\ \A i \in 1..m : t[i] = s[i]
  OBVIOUS
<1>2. /\ \A i \in 1..(m + 1) : i \in 1..m \/ i = m + 1
      /\ m + 1 \in 1..(m + 1) /\ \A i \in 1..m : i \in 1..(m + 1)
  BY <1>1
<1> HIDE DEF t, m
<1>3. Elements(t) = Elements(s) \cup {x}
  BY <1>1, <1>2 DEF Elements, m
<1>4. IdsOf(t) = IdsOf(s) \cup {x.id}
  BY <1>1, <1>2 DEF IdsOf, m
<1>5. ASSUME Injective(s), x \notin Elements(s) PROVE Injective(t)
  BY <1>1, <1>2, <1>5 DEF Injective, Elements, m
<1>6. ASSUME Distinct(s), x.id \notin IdsOf(s) PROVE Distinct(t)
  BY <1>1, <1>2, <1>6 DEF Distinct, IdsOf, m
<1> QED BY <1>1, <1>3, <1>4, <1>5, <1>6 DEF t

\* Taking the first element off.
LEMMA TakeFirst ==
    ASSUME NEW S, NEW s \in Seq(S), s # <<>>
    PROVE  /\ Tail(s) \in Seq(S) /\ Head(s) \in S
           /\ Len(s) \in Nat \ {0} /\ Len(Tail(s)) = Len(s) - 1
           /\ \A i \in 1..Len(Tail(s)) : Tail(s)[i] = s[i + 1] /\ i + 1 \in 1..Len(s)
           /\ Elements(s) = Elements(Tail(s)) \cup {Head(s)}
           /\ IdsOf(s) = IdsOf(Tail(s)) \cup {Head(s).id}
           /\ Distinct(s) => Distinct(Tail(s)) /\ Head(s).id \notin IdsOf(Tail(s))
PROOF
<1> DEFINE t == Tail(s)
           m == Len(s)
<1>1. /\ t \in Seq(S) /\ m \in Nat /\ m # 0 /\ Len(t) = m - 1 /\ s[1] = Head(s)
      /\ \A i \in 1..(m - 1) : t[i] = s[i + 1]
      /\ Head(s) \in S
  OBVIOUS
<1>2. /\ \A i \in 1..m : i = 1 \/ (i - 1 \in 1..(m - 1) /\ (i - 1) + 1 = i)
      /\ 1 \in 1..m /\ \A i \in 1..(m - 1) : i + 1 \in 1..m /\ i + 1 # 1
  BY <1>1
<1> HIDE DEF t, m
<1>3. Elements(s) = Elements(t) \cup {Head(s)}
  <2>1. \A i \in 1..m : s[i] \in Elements(t) \cup {Head(s)}
    <3> SUFFICES ASSUME NEW i \in 1..m, i # 1 PROVE s[i] \in Elements(t)
      BY <1>1
    <3>1. i - 1 \in 1..(m - 1) /\ t[i - 1] = s[i]
      BY <1>1, <1>2
    <3> QED BY <1>1, <3>1 DEF Elements
  <2>2. \A i \in 1..(m - 1) : t[i] \in Elements(s)
    BY <1>1, <1>2 DEF Elements, m
  <2>3. Head(s) \in Elements(s)
    BY <1>1, <1>2 DEF Elements, m
  <2>4. Elements(s) \subseteq Elements(t) \cup {Head(s)}
    BY <2>1 DEF Elements, m
  <2>5. Elements(t) \subseteq Elements(s)
    BY <1>1, <2>2 DEF Elements
  <2> QED BY <2>3, <2>4, <2>5
<1>4. IdsOf(s) = IdsOf(t) \cup {Head(s).id}
  <2>1. \A i \in 1..m : s[i].id \in IdsOf(t) \cup {Head(s).id}
    <3> SUFFICES ASSUME NEW i \in 1..m, i # 1 PROVE s[i].id \in IdsOf(t)
      BY <1>1
    <3>1. i - 1 \in 1..(m - 1) /\ t[i - 1] = s[i]
      BY <1>1, <1>2
    <3> QED BY <1>1, <3>1 DEF IdsOf
  <2>2. \A i \in 1..(m - 1) : t[i].id \in IdsOf(s)
    BY <1>1, <1>2 DEF IdsOf, m
  <2>3. Head(s).id \in IdsOf(s)
    BY <1>1, <1>2 DEF IdsOf, m
  <2>4. IdsOf(s) \subseteq IdsOf(t) \cup {Head(s).id}
    BY <2>1 DEF IdsOf, m
  <2>5. IdsOf(t) \subseteq IdsOf(s)
    BY <1>1, <2>2 DEF IdsOf
  <2> QED BY <2>3, <2>4, <2>5
<1>5. ASSUME Distinct(s) PROVE Distinct(t) /\ Head(s).id \notin IdsOf(t)
  <2>1. Distinct(t)
    <3> SUFFICES ASSUME NEW i \in 1..(m - 1), NEW j \in 1..(m - 1), t[i].id = t[j].id
                 PROVE  i = j
      BY <1>1 DEF Distinct
    <3> DEFINE a == i + 1
               b == j + 1
    <3>1. a \in 1..m /\ b \in 1..m /\ s[a].id = s[b].id
      BY <1>1, <1>2
    <3> HIDE DEF a, b
    <3>2. a = b
      BY <1>5, <3>1 DEF Distinct, m
    <3> QED BY <1>1, <3>2 DEF a, b
  <2>2. Head(s).id \notin IdsOf(t)
    <3> SUFFICES ASSUME NEW i \in 1..(m - 1), t[i].id = Head(s).id PROVE FALSE
      BY <1>1 DEF IdsOf
    <3> DEFINE a == i + 1
    <3>1. a \in 1..m /\ a # 1 /\ s[a].id = s[1].id
      BY <1>1, <1>2
    <3> HIDE DEF a
    <3> QED BY <1>2, <1>5, <3>1 DEF Distinct, m
  <2> QED BY <2>1, <2>2
<1> QED BY <1>1, <1>2, <1>3, <1>4, <1>5 DEF t, m

\* Nothing is in the empty sequence.
LEMMA NothingInHand == IdsOf(<<>>) = {} /\ Elements(<<>>) = {} /\ Distinct(<<>>)
PROOF
<1> DEFINE none == <<>>
<1>1. 1..Len(none) = {}
  OBVIOUS
<1> HIDE DEF none
<1>2. IdsOf(none) = {} /\ Elements(none) = {} /\ Distinct(none)
  BY <1>1 DEF IdsOf, Elements, Distinct
<1> QED BY <1>2 DEF none

\* LogRequest: every entity of the buffer is recorded once, for its request, and
\* the request itself is recorded last.
LEMMA RecordsOfRequest ==
    ASSUME FatesTypeOK, LoggedOnce, NEW r \in Requests
    PROVE  /\ RecordsOf(r) \in Seq(Records) /\ RecordsOf(r) # <<>>
           /\ \A item \in Elements(RecordsOf(r)) : item.request = r
           /\ \A item \in Elements(RecordsOf(r)) : item.id \in Elements(buffer[r]) \cup {r}
           /\ IdsOf(RecordsOf(r)) = Elements(buffer[r]) \cup {r}
           /\ Distinct(RecordsOf(r))
           /\ \A i \in 1..Len(RecordsOf(r)) : RecordsOf(r)[i].id = r => i = Len(RecordsOf(r))
PROOF
<1> DEFINE qs == Sel(buffer[r], Queries)
           ls == Sel(buffer[r], Logs)
           children == qs \o ls
           items == RecordsOf(r)
           front == [i \in 1..Len(children) |-> Record(children[i], r)]
<1>1. items = front \o <<Record(r, r)>>
  BY DEF RecordsOf, Sel
<1>2. buffer[r] \in Seq(Events) /\ Injective(buffer[r])
  BY DEF FatesTypeOK, LoggedOnce
<1>3. /\ qs \in Seq(Events) /\ ls \in Seq(Events)
      /\ Elements(qs) = Elements(buffer[r]) \cap Queries
      /\ Elements(ls) = Elements(buffer[r]) \cap Logs
      /\ Injective(qs) /\ Injective(ls)
  BY <1>2, SelSelects
<1>4. Elements(buffer[r]) \subseteq Events
  BY <1>2, ElementOfSeq DEF Elements
<1>5. r \notin Events /\ Queries \cap Logs = {} /\ Queries \cup Logs = Events
  BY CaptureAssumption DEF Events
<1> HIDE DEF qs, ls, items
<1> DEFINE a == Len(qs)
           n == a + Len(ls)
<1>6. /\ a \in Nat /\ Len(ls) \in Nat /\ n \in Nat
      /\ children \in Seq(Events) /\ Len(children) = n
      /\ \A i \in 1..n : children[i] = IF i <= a THEN qs[i] ELSE ls[i - a]
  BY <1>3, ConcatProperties
<1> HIDE DEF children
<1>7. Elements(children) = Elements(buffer[r])
  <2>1. \A i \in 1..n : children[i] \in Elements(qs) \cup Elements(ls)
    <3> SUFFICES ASSUME NEW i \in 1..n PROVE children[i] \in Elements(qs) \cup Elements(ls)
      OBVIOUS
    <3>1. CASE i <= a
      <4>1. i \in 1..a
        BY <3>1, <1>6
      <4> QED BY <4>1, <3>1, <1>6 DEF Elements
    <3>2. CASE ~(i <= a)
      <4>1. i - a \in 1..Len(ls) /\ children[i] = ls[i - a]
        BY <3>2, <1>6
      <4> QED BY <4>1 DEF Elements
    <3> QED BY <3>1, <3>2
  <2>2. \A i \in 1..a : qs[i] = children[i] /\ i \in 1..n
    BY <1>6
  <2>3. \A i \in 1..Len(ls) : ls[i] = children[i + a] /\ i + a \in 1..n
    BY <1>6
  <2>4. Elements(children) = Elements(qs) \cup Elements(ls)
    <3>1. Elements(children) \subseteq Elements(qs) \cup Elements(ls)
      BY <1>6, <2>1 DEF Elements
    <3>2. Elements(qs) \subseteq Elements(children)
      BY <1>6, <2>2 DEF Elements
    <3>3. Elements(ls) \subseteq Elements(children)
      <4> SUFFICES ASSUME NEW i \in 1..Len(ls) PROVE ls[i] \in Elements(children)
        BY DEF Elements
      <4>1. ls[i] = children[i + a] /\ i + a \in 1..Len(children)
        BY <1>6, <2>3
      <4> QED BY <4>1 DEF Elements
    <3> QED BY <3>1, <3>2, <3>3
  <2> QED BY <2>4, <1>3, <1>4, <1>5
<1>8. Injective(children)
  <2> SUFFICES ASSUME NEW i \in 1..n, NEW j \in 1..n, children[i] = children[j], i < j
               PROVE  FALSE
    BY <1>6 DEF Injective
  <2>1. CASE j <= a
    <3>1. i \in 1..a /\ j \in 1..a /\ qs[i] = qs[j]
      BY <2>1, <1>6
    <3> QED BY <3>1, <1>3 DEF Injective
  <2>2. CASE ~(i <= a)
    <3> DEFINE u == i - a
               v == j - a
    <3>1. u \in 1..Len(ls) /\ v \in 1..Len(ls) /\ ls[u] = ls[v] /\ u # v
      BY <2>2, <1>6
    <3> HIDE DEF u, v
    <3> QED BY <3>1, <1>3 DEF Injective
  <2>3. CASE i <= a /\ ~(j <= a)
    <3>1. i \in 1..a /\ j - a \in 1..Len(ls) /\ qs[i] = ls[j - a]
      BY <2>3, <1>6
    <3>2. qs[i] \in Elements(qs) /\ ls[j - a] \in Elements(ls)
      BY <3>1 DEF Elements
    <3> QED BY <3>1, <3>2, <1>3, <1>5
  <2> QED BY <1>6, <2>1, <2>2, <2>3
<1>9. /\ front \in Seq(Records) /\ Len(front) = n
      /\ \A i \in 1..n : front[i] = Record(children[i], r)
      /\ Record(r, r) \in Records
  <2>1. \A i \in 1..n : Record(children[i], r) \in Records
    BY <1>6, ElementOfSeq DEF Record, Records
  <2>2. Record(r, r) \in Records
    BY DEF Record, Records
  <2>3. front = [i \in 1..n |-> Record(children[i], r)]
    BY <1>6
  <2> HIDE DEF front
  <2>4. front \in [1..n -> Records]
    BY <2>1, <2>3
  <2>5. front \in Seq(Records) /\ Len(front) = n
    BY <2>4, <1>6
  <2> QED BY <2>2, <2>3, <2>5
<1> HIDE DEF front
<1>10. /\ items \in Seq(Records) /\ Len(items) = n + 1
       /\ \A i \in 1..n : items[i] = Record(children[i], r)
       /\ items[n + 1] = Record(r, r)
  <2> DEFINE last == <<Record(r, r)>>
  <2>1. last \in Seq(Records) /\ Len(last) = 1 /\ last[1] = Record(r, r)
    BY <1>9
  <2>2. n \in Nat
    BY <1>6
  <2> HIDE DEF last, n
  <2>3. /\ items \in Seq(Records) /\ Len(items) = n + 1
        /\ \A i \in 1..(n + 1) : items[i] = IF i <= n THEN front[i] ELSE last[i - n]
    BY <1>1, <1>9, <2>1, ConcatProperties DEF last
  <2>4. \A i \in 1..n : i \in 1..(n + 1) /\ i <= n
    BY <2>2
  <2>5. n + 1 \in 1..(n + 1) /\ ~(n + 1 <= n) /\ (n + 1) - n = 1
    BY <2>2
  <2> QED BY <1>9, <2>1, <2>3, <2>4, <2>5
<1>11. /\ \A i \in 1..(n + 1) : i \in 1..n \/ i = n + 1
       /\ n + 1 \in 1..(n + 1) /\ \A i \in 1..n : i \in 1..(n + 1)
  BY <1>6
<1>12. \A i \in 1..n : children[i] \in Elements(buffer[r]) /\ children[i] # r
  BY <1>4, <1>5, <1>6, <1>7 DEF Elements
<1> HIDE DEF n, a
<1>18. \A x : Record(x, r).id = x /\ Record(x, r).request = r
  BY DEF Record
<1>13. IdsOf(items) = Elements(buffer[r]) \cup {r}
  <2>1. IdsOf(items) = {children[i] : i \in 1..n} \cup {r}
    BY <1>10, <1>11, <1>18 DEF IdsOf
  <2> QED BY <2>1, <1>6, <1>7 DEF Elements
<1>14. Distinct(items)
  BY <1>6, <1>8, <1>10, <1>11, <1>12, <1>18 DEF Distinct, Injective
<1>15. \A i \in 1..Len(items) : items[i].id = r => i = Len(items)
  BY <1>10, <1>11, <1>12, <1>18
<1>16. \A item \in Elements(items) : item.request = r /\ item.id \in Elements(buffer[r]) \cup {r}
  BY <1>10, <1>11, <1>12, <1>18 DEF Elements
<1>17. items # <<>>
  BY <1>10, <1>11
<1> QED BY <1>10, <1>13, <1>14, <1>15, <1>16, <1>17 DEF items

-----------------------------------------------------------------------------
(* The steps.                                                              *)

\* Nothing is logged, recorded or held at the start.
LEMMA FatesStart == Init => FatesInv
PROOF
<1> SUFFICES ASSUME Init PROVE FatesInv
  OBVIOUS
<1>1. \A p \in Procs : InHand(p) = <<>> /\ call[p].at # "record"
  BY DEF Init, InHand, Idle
<1>2. recorded = <<>> /\ logged = {} /\ DOMAIN call = Procs
      /\ \A r \in Requests : buffer[r] = <<>> /\ ~isFinished[r]
  BY DEF Init
<1> DEFINE none == <<>>
<1>3. \A S : none \in Seq(S)
  OBVIOUS
<1>4. 1..Len(none) = {}
  OBVIOUS
<1>5. IdsOf(none) = {} /\ Elements(none) = {} /\ Distinct(none) /\ Injective(none)
  BY <1>4 DEF IdsOf, Elements, Distinct, Injective
<1> HIDE DEF none
<1>6. recorded = none /\ \A p \in Procs : InHand(p) = none
  BY <1>1, <1>2 DEF none
<1>12. \A r \in Requests : buffer[r] = none
  BY <1>2 DEF none
<1>7. FatesTypeOK
  BY <1>1, <1>2, <1>3, <1>6, <1>12 DEF FatesTypeOK, Init, Stages
<1>8. LoggedOnce
  BY <1>2, <1>5, <1>6 DEF LoggedOnce
<1>9. OnePlace
  <2>1. Distinct(recorded) /\ IdsOf(recorded) = {}
    BY <1>5, <1>6
  <2>2. \A p \in Procs : Distinct(InHand(p)) /\ IdsOf(InHand(p)) = {}
    <3> SUFFICES ASSUME NEW p \in Procs PROVE Distinct(InHand(p)) /\ IdsOf(InHand(p)) = {}
      OBVIOUS
    <3>1. InHand(p) = none
      BY <1>6
    <3> QED BY <3>1, <1>5
  <2>3. \A r \in Requests : Elements(buffer[r]) = {}
    <3> SUFFICES ASSUME NEW r \in Requests PROVE Elements(buffer[r]) = {}
      OBVIOUS
    <3>1. buffer[r] = none
      BY <1>12
    <3> QED BY <3>1, <1>5
  <2> QED BY <2>1, <2>2, <2>3 DEF OnePlace
<1>10. NoneLost
  BY <1>2 DEF NoneLost
<1>11. RequestLast
  BY <1>4, <1>6 DEF RequestLast
<1> QED BY <1>7, <1>8, <1>9, <1>10, <1>11 DEF FatesInv

\* A goroutine that goes on to something else.
LEMMA CallOf ==
    ASSUME DOMAIN call = Procs, NEW p \in Procs, NEW c, call' = [call EXCEPT ![p] = c]
    PROVE  /\ DOMAIN call' = Procs /\ call'[p] = c
           /\ InHand(p)' = IF c.at = "record" THEN c.items ELSE <<>>
           /\ \A q \in Procs : q # p => call'[q] = call[q] /\ InHand(q)' = InHand(q)
PROOF
BY DEF InHand

\* ShouldCaptureRequest only moves requests that are not captured.
LEMMA SlotsLeaveFates ==
    ASSUME FatesInv, UNCHANGED captureVars, UNCHANGED recorded,
           stage' \in [Requests -> Stages],
           \A r \in Requests : stage[r] = "captured" => stage'[r] = "captured",
           DOMAIN call' = Procs,
           \A p \in Procs : InHand(p)' = InHand(p)
                            /\ (call'[p].at = "record" => call'[p] = call[p])
    PROVE  FatesInv'
PROOF
<1>1. \A id : Held(id)' <=> Held(id)
  BY DEF Held
<1>2. FatesTypeOK'
  BY DEF FatesInv, FatesTypeOK, captureVars
<1>3. LoggedOnce'
  <2>1. \A item \in Records : Known(item) => Known(item)'
    BY DEF Known, captureVars, Records
  <2>2. \A item \in Elements(recorded) : item \in Records
    BY DEF FatesInv, FatesTypeOK, Elements
  <2>3. \A p \in Procs : \A item \in Elements(InHand(p)) : item \in Records
    BY DEF FatesInv, FatesTypeOK, Elements
  <2>4. /\ \A item \in Elements(recorded)' : Known(item)'
        /\ \A p \in Procs : \A item \in Elements(InHand(p)') : Known(item)'
    BY <2>1, <2>2, <2>3 DEF FatesInv, LoggedOnce
  <2>5. \A l \in logged' : stage'[l.request] = "captured"
    BY DEF FatesInv, FatesTypeOK, LoggedOnce, captureVars
  <2> QED BY <2>4, <2>5 DEF FatesInv, LoggedOnce, captureVars
<1>4. OnePlace'
  BY <1>1 DEF FatesInv, OnePlace, captureVars
<1>5. NoneLost'
  BY <1>1 DEF FatesInv, NoneLost, captureVars
<1>6. RequestLast'
  BY DEF FatesInv, RequestLast, captureVars
<1> QED BY <1>2, <1>3, <1>4, <1>5, <1>6 DEF FatesInv

\* An entity that has not been logged is nowhere ...
LEMMA NewEverywhere ==
    ASSUME FatesInv, NEW r \in Requests, NEW e \in Events, LogNew(e, r)
    PROVE  ~Held(e) /\ \A q \in Requests : e \notin Elements(buffer[q])
PROOF
<1>1. \A l \in logged : l.id # e
  BY DEF LogNew
<1>2. \A item : Known(item) => item.id # e
  BY <1>1 DEF Known
<1>3. \A s : (\A item \in Elements(s) : Known(item)) => e \notin IdsOf(s)
  BY <1>2 DEF Elements, IdsOf
<1>4. ~Held(e)
  BY <1>3 DEF FatesInv, LoggedOnce, Held
<1>5. \A q \in Requests : Record(e, q).id = e
  BY DEF Record
<1> QED BY <1>1, <1>4, <1>5 DEF FatesInv, LoggedOnce

\* ... and being logged for one request it will not be logged again.
LEMMA LoggedStaysOnce ==
    ASSUME FatesInv, NEW r \in Requests, NEW e \in Events, stage[r] = "captured",
           LogNew(e, r), UNCHANGED stage, UNCHANGED isFinished
    PROVE  /\ logged' = logged \cup {Record(e, r)}
           /\ logged' \subseteq [id : Events, request : Requests]
           /\ \A l, m \in logged' : l.id = m.id => l = m
           /\ \A l \in logged' : stage'[l.request] = "captured"
           /\ \A item : Known(item) => Known(item)'
           /\ Known(Record(e, r))'
           /\ Record(e, r).id = e /\ Record(e, r).request = r
           /\ Record(e, r) \in Records
PROOF
<1>1. Record(e, r).id = e /\ Record(e, r).request = r /\ Record(e, r) \in Records
      /\ Record(e, r) \in [id : Events, request : Requests]
  BY DEF Record, Records
<1>2. logged' = logged \cup {Record(e, r)} /\ \A l \in logged : l.id # e
  BY DEF LogNew
<1>3. e \notin Requests
  BY CaptureAssumption
<1> QED BY <1>1, <1>2, <1>3 DEF FatesInv, FatesTypeOK, LoggedOnce, Known

\* Logging before Finish: the entity goes to the end of the buffer.
LEMMA BufferingKeepsFates ==
    ASSUME FatesInv, NEW r \in Requests, NEW e \in Events, stage[r] = "captured",
           AppendTo(r, e), LogNew(e, r),
           UNCHANGED <<slotVars, isFinished, verdict, recorded, call>>
    PROVE  FatesInv'
PROOF
<1>1. /\ ~isFinished[r]
      /\ buffer'[r] = Append(buffer[r], e)
      /\ \A q \in Requests : q # r => buffer'[q] = buffer[q]
      /\ buffer[r] \in Seq(Events) /\ buffer' \in [Requests -> Seq(Events)]
  BY DEF AppendTo, FatesInv, FatesTypeOK
<1>2. ~Held(e) /\ \A q \in Requests : e \notin Elements(buffer[q])
  BY NewEverywhere
<1>3. /\ Elements(buffer'[r]) = Elements(buffer[r]) \cup {e}
      /\ Injective(buffer[r]) => Injective(buffer'[r])
  BY <1>1, <1>2, AppendOne
<1>4. \A p \in Procs : InHand(p)' = InHand(p)
  BY DEF InHand
<1>5. \A id : Held(id)' <=> Held(id)
  BY <1>4 DEF Held
<1>6. /\ logged' = logged \cup {Record(e, r)}
      /\ logged' \subseteq [id : Events, request : Requests]
      /\ \A l, m \in logged' : l.id = m.id => l = m
      /\ \A l \in logged' : stage'[l.request] = "captured"
      /\ \A item : Known(item) => Known(item)'
      /\ Record(e, r).id = e /\ Record(e, r).request = r
  BY LoggedStaysOnce DEF slotVars
<1>7. FatesTypeOK'
  BY <1>1, <1>4, <1>6 DEF FatesInv, FatesTypeOK, slotVars
<1>8. LoggedOnce'
  <2>1. \A q \in Requests : Injective(buffer'[q])
                            /\ \A x \in Elements(buffer'[q]) : Record(x, q) \in logged'
    BY <1>1, <1>3, <1>6 DEF FatesInv, LoggedOnce
  <2> QED BY <1>4, <1>6, <2>1 DEF FatesInv, LoggedOnce
<1>9. OnePlace'
  <2>1. \A q \in Requests : ~isFinished'[q] => \A x \in Elements(buffer'[q]) : ~Held(x)'
    BY <1>1, <1>2, <1>3, <1>5 DEF FatesInv, OnePlace
  <2> QED BY <1>4, <2>1 DEF FatesInv, OnePlace
<1>10. NoneLost'
  <2>1. \A l \in logged' :
          \/ Held(l.id)'
          \/ LeftOut(l.id)
          \/ /\ l.id \in Elements(buffer'[l.request])
             /\ ~isFinished'[l.request] \/ verdict'[l.request] = "rejected"
    <3> SUFFICES ASSUME NEW l \in logged'
                 PROVE  \/ Held(l.id)'
                        \/ LeftOut(l.id)
                        \/ /\ l.id \in Elements(buffer'[l.request])
                           /\ ~isFinished'[l.request] \/ verdict'[l.request] = "rejected"
      OBVIOUS
    <3>1. CASE l = Record(e, r)
      BY <1>1, <1>3, <1>6, <3>1
    <3>2. CASE l \in logged
      <4>1. /\ l.request \in Requests
            /\ \/ Held(l.id)
               \/ LeftOut(l.id)
               \/ /\ l.id \in Elements(buffer[l.request])
                  /\ ~isFinished[l.request] \/ verdict[l.request] = "rejected"
        BY <3>2 DEF FatesInv, NoneLost, FatesTypeOK
      <4>2. Elements(buffer[l.request]) \subseteq Elements(buffer'[l.request])
        BY <1>1, <1>3, <4>1
      <4> QED BY <1>5, <4>1, <4>2
    <3> QED BY <1>6, <3>1, <3>2
  <2> QED BY <1>5, <2>1 DEF FatesInv, NoneLost
<1>11. RequestLast'
  <2>1. \A item : Known(item) /\ item.id \in Requests => buffer'[item.id] = buffer[item.id]
    BY <1>1 DEF Known
  <2>2. \A p \in Procs : \A i \in 1..Len(InHand(p)) :
          InHand(p)[i].id \in Requests => buffer'[InHand(p)[i].id] = buffer[InHand(p)[i].id]
    BY <2>1 DEF FatesInv, LoggedOnce, Elements
  <2>3. \A i \in 1..Len(recorded) :
          recorded[i].id \in Requests => buffer'[recorded[i].id] = buffer[recorded[i].id]
    BY <2>1 DEF FatesInv, LoggedOnce, Elements
  <2> QED BY <1>4, <2>2, <2>3 DEF FatesInv, RequestLast
<1> QED BY <1>7, <1>8, <1>9, <1>10, <1>11 DEF FatesInv

\* What a goroutine holds is known ...
LEMMA InHandKnown ==
    ASSUME FatesInv, NEW p \in Procs, NEW i \in 1..Len(InHand(p))
    PROVE  Known(InHand(p)[i]) /\ InHand(p)[i].id \in IdsOf(InHand(p))
           /\ InHand(p)[i] \in Records
PROOF
BY DEF FatesInv, FatesTypeOK, LoggedOnce, Elements, IdsOf

\* ... and so is what is recorded.
LEMMA RecordedKnown ==
    ASSUME FatesInv, NEW i \in 1..Len(recorded)
    PROVE  Known(recorded[i]) /\ recorded[i].id \in IdsOf(recorded) /\ recorded[i] \in Records
PROOF
BY DEF FatesInv, FatesTypeOK, LoggedOnce, Elements, IdsOf

\* Logging after Finish: the goroutine records the entity itself.
LEMMA DirectKeepsFates ==
    ASSUME FatesInv, NEW p \in Procs, NEW r \in Requests, NEW e \in Events, call[p] = Idle,
           stage[r] = "captured", LogNew(e, r), isFinished[r],
           call' = [call EXCEPT ![p] = [at |-> "record", items |-> <<Record(e, r)>>]],
           UNCHANGED <<slotVars, isFinished, buffer, verdict, recorded>>
    PROVE  FatesInv'
PROOF
<1> DEFINE item == Record(e, r)
           one == <<item>>
           c == [at |-> "record", items |-> one]
<1>1. DOMAIN call = Procs /\ c.at = "record" /\ c.items = one /\ call' = [call EXCEPT ![p] = c]
  BY DEF FatesInv, FatesTypeOK
<1>2. ~Held(e) /\ \A q \in Requests : e \notin Elements(buffer[q])
  BY NewEverywhere
<1>3. /\ logged' = logged \cup {item}
      /\ logged' \subseteq [id : Events, request : Requests]
      /\ \A l, m \in logged' : l.id = m.id => l = m
      /\ \A l \in logged' : stage'[l.request] = "captured"
      /\ \A x : Known(x) => Known(x)'
      /\ Known(item)'
      /\ item.id = e /\ item.request = r /\ item \in Records
  BY LoggedStaysOnce DEF slotVars
<1> HIDE DEF item
<1>4. one \in Seq(Records) /\ Len(one) = 1 /\ one[1] = item /\ one # <<>>
  BY <1>3
<1>5. 1..1 = {1}
  OBVIOUS
<1> HIDE DEF one
<1>6. Elements(one) = {item} /\ IdsOf(one) = {e} /\ Distinct(one)
  BY <1>3, <1>4, <1>5 DEF Elements, IdsOf, Distinct
<1> HIDE DEF c
<1>7. /\ DOMAIN call' = Procs /\ call'[p] = c /\ InHand(p)' = one
      /\ \A q \in Procs : q # p => call'[q] = call[q] /\ InHand(q)' = InHand(q)
  BY <1>1, CallOf
<1>8. InHand(p) = <<>> /\ IdsOf(InHand(p)) = {}
  BY NothingInHand DEF InHand, Idle
<1>9. \A id : Held(id)' <=> Held(id) \/ id = e
  <2>1. \A id : Held(id)' <=> \/ id \in IdsOf(recorded)
                             \/ \E q \in Procs : id \in IdsOf(InHand(q)')
    BY DEF Held
  <2> QED BY <1>6, <1>7, <1>8, <2>1 DEF Held
<1>10. FatesTypeOK'
  <2>1. /\ DOMAIN call = Procs
        /\ stage \in [Requests -> Stages]
        /\ isFinished \in [Requests -> BOOLEAN]
        /\ verdict \in [Requests -> {"none", "retained", "rejected"}]
        /\ buffer \in [Requests -> Seq(Events)]
        /\ recorded \in Seq(Records)
    BY DEF FatesInv, FatesTypeOK
  <2>2. \A q \in Procs : InHand(q)' \in Seq(Records)
    BY <1>4, <1>7 DEF FatesInv, FatesTypeOK
  <2>3. \A q \in Procs : call'[q].at = "record" => call'[q].items # <<>>
    BY <1>1, <1>4, <1>7 DEF FatesInv, FatesTypeOK
  <2> QED BY <1>3, <1>7, <2>1, <2>2, <2>3 DEF FatesTypeOK, slotVars
<1>11. LoggedOnce'
  BY <1>3, <1>6, <1>7 DEF FatesInv, LoggedOnce
<1>12. OnePlace'
  <2>1. e \notin IdsOf(recorded) /\ \A q \in Procs : e \notin IdsOf(InHand(q))
    BY <1>2 DEF Held
  <2>2. \A a \in Procs :
         /\ Distinct(InHand(a)')
         /\ IdsOf(InHand(a)') \cap IdsOf(recorded) = {}
         /\ \A b \in Procs : a # b => IdsOf(InHand(a)') \cap IdsOf(InHand(b)') = {}
    BY <1>6, <1>7, <2>1 DEF FatesInv, OnePlace
  <2>3. \A q \in Requests : ~isFinished[q] => \A x \in Elements(buffer[q]) : ~Held(x)'
    BY <1>2, <1>9 DEF FatesInv, OnePlace
  <2> QED BY <2>2, <2>3 DEF FatesInv, OnePlace
<1>13. NoneLost'
  BY <1>3, <1>9 DEF FatesInv, NoneLost
<1>14. RequestLast'
  <2>1. e \notin Requests
    BY CaptureAssumption
  <2>2. \A i \in 1..Len(InHand(p)') : InHand(p)'[i].id \notin Requests
    <3>1. one[1].id \notin Requests
      BY <1>3, <1>4, <2>1
    <3>2. \A i \in 1..Len(one) : i = 1
      BY <1>4, <1>5
    <3>3. \A i \in 1..Len(one) : one[i].id \notin Requests
      BY <3>1, <3>2
    <3> QED BY <1>7, <3>3
  <2> QED BY <1>7, <2>2 DEF FatesInv, RequestLast
<1> QED BY <1>10, <1>11, <1>12, <1>13, <1>14 DEF FatesInv

\* Finish of a request the rules reject.
LEMMA RejectKeepsFates ==
    ASSUME FatesInv, NEW r \in Requests, ~isFinished[r], stage[r] = "captured",
           isFinished' = [isFinished EXCEPT ![r] = TRUE],
           verdict' = [verdict EXCEPT ![r] = "rejected"],
           UNCHANGED <<slotVars, buffer, logged, recorded, call>>
    PROVE  FatesInv'
PROOF
<1>1. \A p \in Procs : InHand(p)' = InHand(p)
  BY DEF InHand
<1>2. \A id : Held(id)' <=> Held(id)
  BY <1>1 DEF Held
<1>3. /\ \A q \in Requests : isFinished'[q] <=> isFinished[q] \/ q = r
      /\ isFinished' \in [Requests -> BOOLEAN]
      /\ verdict' \in [Requests -> {"none", "retained", "rejected"}]
      /\ verdict'[r] = "rejected"
      /\ \A q \in Requests : q # r => verdict'[q] = verdict[q]
  BY DEF FatesInv, FatesTypeOK
<1>4. FatesTypeOK'
  BY <1>1, <1>3 DEF FatesInv, FatesTypeOK, slotVars
<1>5. LoggedOnce'
  <2>1. \A item : Known(item) => Known(item)'
    BY <1>3 DEF Known, slotVars
  <2> QED BY <1>1, <2>1 DEF FatesInv, LoggedOnce, slotVars
<1>6. OnePlace'
  BY <1>1, <1>2, <1>3 DEF FatesInv, OnePlace
<1>7. NoneLost'
  <2>1. \A l \in logged : l.request \in Requests
    BY DEF FatesInv, FatesTypeOK
  <2> QED BY <1>2, <1>3, <2>1 DEF FatesInv, NoneLost
<1>8. RequestLast'
  BY <1>1 DEF FatesInv, RequestLast
<1> QED BY <1>4, <1>5, <1>6, <1>7, <1>8 DEF FatesInv

\* Finish of a request the rules retain: its goroutine takes the whole buffer,
\* nothing of which was held before.
LEMMA RetainKeepsFates ==
    ASSUME FatesInv, NEW p \in Procs, NEW r \in Requests, call[p] = Idle,
           ~isFinished[r], stage[r] = "captured",
           isFinished' = [isFinished EXCEPT ![r] = TRUE],
           verdict' = [verdict EXCEPT ![r] = "retained"],
           call' = [call EXCEPT ![p] = [at |-> "record", items |-> RecordsOf(r)]],
           UNCHANGED <<slotVars, buffer, logged, recorded>>
    PROVE  FatesInv'
PROOF
<1> DEFINE items == RecordsOf(r)
           c == [at |-> "record", items |-> items]
           kids == Elements(buffer[r])
<1>1. DOMAIN call = Procs /\ c.at = "record" /\ c.items = items /\ call' = [call EXCEPT ![p] = c]
  BY DEF FatesInv, FatesTypeOK
<1>2. /\ items \in Seq(Records) /\ items # <<>>
      /\ \A item \in Elements(items) : item.request = r /\ item.id \in kids \cup {r}
      /\ IdsOf(items) = kids \cup {r}
      /\ Distinct(items)
      /\ \A i \in 1..Len(items) : items[i].id = r => i = Len(items)
  BY RecordsOfRequest DEF FatesInv
<1> HIDE DEF items, c
<1>3. /\ DOMAIN call' = Procs /\ call'[p] = c /\ InHand(p)' = items
      /\ \A q \in Procs : q # p => call'[q] = call[q] /\ InHand(q)' = InHand(q)
  <2>1. /\ DOMAIN call' = Procs /\ call'[p] = c
        /\ InHand(p)' = IF c.at = "record" THEN c.items ELSE <<>>
        /\ \A q \in Procs : q # p => call'[q] = call[q] /\ InHand(q)' = InHand(q)
    BY <1>1, CallOf
  <2> QED BY <1>1, <2>1
<1>4. InHand(p) = <<>> /\ IdsOf(InHand(p)) = {}
  BY NothingInHand DEF InHand, Idle
<1>5. kids \subseteq Events /\ r \notin Events
  BY CaptureAssumption DEF FatesInv, FatesTypeOK, Elements
<1>6. \A id : Held(id)' <=> Held(id) \/ id \in kids \cup {r}
  <2>1. \A id : Held(id)' <=> \/ id \in IdsOf(recorded)
                             \/ \E q \in Procs : id \in IdsOf(InHand(q)')
    BY DEF Held
  <2> QED BY <1>2, <1>3, <1>4, <2>1 DEF Held
<1>7. /\ \A q \in Requests : isFinished'[q] <=> isFinished[q] \/ q = r
      /\ isFinished' \in [Requests -> BOOLEAN]
      /\ verdict' \in [Requests -> {"none", "retained", "rejected"}]
      /\ \A q \in Requests : q # r => verdict'[q] = verdict[q]
  BY DEF FatesInv, FatesTypeOK
<1>8. \A item : Known(item) => Known(item)'
  BY <1>7 DEF Known, slotVars
<1>9. \A x \in kids \cup {r} : ~Held(x)
  <2>1. \A x \in kids : ~Held(x)
    BY DEF FatesInv, OnePlace
  <2>2. \A item : Known(item) => item.id # r
    BY DEF Known
  <2>3. \A s : (\A item \in Elements(s) : Known(item)) => r \notin IdsOf(s)
    BY <2>2 DEF Elements, IdsOf
  <2> QED BY <2>1, <2>3 DEF FatesInv, LoggedOnce, Held
<1>10. FatesTypeOK'
  <2>1. /\ stage \in [Requests -> Stages]
        /\ buffer \in [Requests -> Seq(Events)]
        /\ logged \subseteq [id : Events, request : Requests]
        /\ recorded \in Seq(Records)
    BY DEF FatesInv, FatesTypeOK
  <2>2. \A q \in Procs : InHand(q)' \in Seq(Records)
    <3>1. \A q \in Procs : InHand(q) \in Seq(Records)
      BY DEF FatesInv, FatesTypeOK
    <3>2. ASSUME NEW q \in Procs
          PROVE  InHand(q)' = InHand(q) \/ InHand(q)' = items
      BY <1>3
    <3> QED BY <1>2, <3>1, <3>2
  <2>3. \A q \in Procs : call'[q].at = "record" => call'[q].items # <<>>
    BY <1>1, <1>2, <1>3 DEF FatesInv, FatesTypeOK
  <2> QED BY <1>3, <1>7, <2>1, <2>2, <2>3 DEF FatesTypeOK, slotVars
<1>11. LoggedOnce'
  <2>1. \A item \in Elements(items) : Known(item)'
    <3> SUFFICES ASSUME NEW item \in Elements(items) PROVE Known(item)'
      OBVIOUS
    <3>1. item.request = r /\ item.id \in kids \cup {r} /\ item \in Records
      BY <1>2 DEF Elements
    <3>2. CASE item.id = r
      BY <1>5, <1>7, <3>1, <3>2 DEF Known, slotVars
    <3>3. CASE item.id \in kids
      <4>1. item = Record(item.id, r)
        BY <3>1 DEF Record, Records
      <4>2. Record(item.id, r) \in logged
        BY <3>3 DEF FatesInv, LoggedOnce
      <4>3. item.id \notin Requests
        BY <1>5, <3>3, CaptureAssumption
      <4> QED BY <3>1, <4>1, <4>2, <4>3 DEF Known, slotVars
    <3> QED BY <3>1, <3>2, <3>3
  <2> QED BY <1>3, <1>8, <2>1 DEF FatesInv, LoggedOnce, slotVars
<1>12. OnePlace'
  <2>1. IdsOf(items) \cap IdsOf(recorded) = {}
        /\ \A q \in Procs : IdsOf(items) \cap IdsOf(InHand(q)) = {}
    BY <1>2, <1>9 DEF Held
  <2>2. \A a \in Procs :
         /\ Distinct(InHand(a)')
         /\ IdsOf(InHand(a)') \cap IdsOf(recorded) = {}
         /\ \A b \in Procs : a # b => IdsOf(InHand(a)') \cap IdsOf(InHand(b)') = {}
    BY <1>2, <1>3, <2>1 DEF FatesInv, OnePlace
  <2>3. ASSUME NEW q \in Requests, ~isFinished'[q], NEW x \in Elements(buffer[q]) PROVE ~Held(x)'
    <3>1. q # r /\ ~isFinished[q] /\ ~Held(x)
      BY <1>7, <2>3 DEF FatesInv, OnePlace
    <3>2. x \in Events /\ Record(x, q) \in logged
      BY <2>3 DEF FatesInv, FatesTypeOK, LoggedOnce, Elements
    <3>3. x \notin kids
      <4> SUFFICES ASSUME x \in kids PROVE FALSE
        OBVIOUS
      <4>1. Record(x, r) \in logged
        BY DEF FatesInv, LoggedOnce
      <4>2. Record(x, r).id = x /\ Record(x, q).id = x
            /\ Record(x, r).request = r /\ Record(x, q).request = q
        BY DEF Record
      <4> QED BY <3>1, <3>2, <4>1, <4>2 DEF FatesInv, LoggedOnce
    <3> QED BY <1>5, <1>6, <3>1, <3>2, <3>3
  <2> QED BY <2>2, <2>3 DEF FatesInv, OnePlace
<1>13. NoneLost'
  <2>1. ASSUME NEW l \in logged
        PROVE  \/ Held(l.id)'
               \/ LeftOut(l.id)
               \/ /\ l.id \in Elements(buffer[l.request])
                  /\ ~isFinished'[l.request] \/ verdict'[l.request] = "rejected"
    <3>1. l.request \in Requests
      BY DEF FatesInv, FatesTypeOK
    <3> QED BY <1>6, <1>7, <3>1 DEF FatesInv, NoneLost
  <2>2. \A q \in Requests : isFinished'[q] =>
           Held(q)' \/ LeftOut(q) \/ verdict'[q] = "rejected"
    BY <1>6, <1>7 DEF FatesInv, NoneLost
  <2> QED BY <2>1, <2>2 DEF FatesInv, NoneLost
<1>14. RequestLast'
  <2>1. ASSUME NEW i \in 1..Len(items), items[i].id \in Requests
        PROVE  i = Len(items) /\ \A e \in Elements(buffer[items[i].id]) : e \in IdsOf(items)
    <3>1. items[i] \in Elements(items)
      BY DEF Elements
    <3>2. items[i].id = r
      BY <1>2, <1>5, <2>1, <3>1, CaptureAssumption
    <3> QED BY <1>2, <3>2
  <2> QED BY <1>3, <2>1 DEF FatesInv, RequestLast
<1> QED BY <1>10, <1>11, <1>12, <1>13, <1>14 DEF FatesInv

\* Profiler.record: the first thing in hand goes to the store, or nowhere.
LEMMA RecordKeepsFates ==
    ASSUME FatesInv, NEW p \in Procs, RecordNext(p)
    PROVE  FatesInv'
PROOF
<1> DEFINE items == call[p].items
           item == Head(items)
           rest == Tail(items)
           c == IF rest = <<>> THEN Idle ELSE [at |-> "record", items |-> rest]
           off == LeftOut(item.id)
<1>1. /\ call[p].at = "record" /\ call' = [call EXCEPT ![p] = c]
      /\ recorded' = IF off THEN recorded ELSE Append(recorded, item)
      /\ UNCHANGED slotVars /\ UNCHANGED captureVars
  BY DEF RecordNext
<1>2. /\ DOMAIN call = Procs /\ InHand(p) = items /\ items \in Seq(Records) /\ items # <<>>
      /\ recorded \in Seq(Records)
  BY <1>1 DEF FatesInv, FatesTypeOK, InHand
<1>3. rest # <<>> => c.at = "record" /\ c.items = rest
  OBVIOUS
<1>4. rest = <<>> => c.at # "record"
  BY DEF Idle
<1>5. /\ rest \in Seq(Records) /\ item \in Records
      /\ Len(items) \in Nat \ {0} /\ Len(rest) = Len(items) - 1
      /\ \A i \in 1..Len(rest) : rest[i] = items[i + 1] /\ i + 1 \in 1..Len(items)
      /\ Elements(items) = Elements(rest) \cup {item}
      /\ IdsOf(items) = IdsOf(rest) \cup {item.id}
      /\ Distinct(items) => Distinct(rest) /\ item.id \notin IdsOf(rest)
  BY <1>2, TakeFirst
<1>6. items[1] = item /\ 1 \in 1..Len(items)
  BY <1>2
<1> HIDE DEF c, rest, item, items, off
<1>7. /\ DOMAIN call' = Procs /\ call'[p] = c /\ InHand(p)' = rest
      /\ \A q \in Procs : q # p => call'[q] = call[q] /\ InHand(q)' = InHand(q)
  <2>1. /\ DOMAIN call' = Procs /\ call'[p] = c
        /\ InHand(p)' = IF c.at = "record" THEN c.items ELSE <<>>
        /\ \A q \in Procs : q # p => call'[q] = call[q] /\ InHand(q)' = InHand(q)
    BY <1>1, <1>2, CallOf
  <2> QED BY <1>3, <1>4, <2>1
<1>8. /\ Distinct(items) /\ IdsOf(items) \cap IdsOf(recorded) = {}
      /\ \A q \in Procs : q # p => IdsOf(items) \cap IdsOf(InHand(q)) = {}
  BY <1>2 DEF FatesInv, OnePlace
<1>9. /\ recorded' \in Seq(Records)
      /\ Distinct(recorded')
      /\ Elements(recorded') = Elements(recorded) \cup (IF off THEN {} ELSE {item})
      /\ IdsOf(recorded') = IdsOf(recorded) \cup (IF off THEN {} ELSE {item.id})
  <2>1. CASE off
    BY <1>1, <1>2, <2>1 DEF FatesInv, OnePlace
  <2>2. CASE ~off
    <3>1. item.id \notin IdsOf(recorded)
      BY <1>5, <1>8
    <3>2. /\ Append(recorded, item) \in Seq(Records)
          /\ Elements(Append(recorded, item)) = Elements(recorded) \cup {item}
          /\ IdsOf(Append(recorded, item)) = IdsOf(recorded) \cup {item.id}
          /\ Distinct(recorded) /\ item.id \notin IdsOf(recorded)
               => Distinct(Append(recorded, item))
      BY <1>2, <1>5, AppendOne
    <3> QED BY <1>1, <2>2, <3>1, <3>2 DEF FatesInv, OnePlace
  <2> QED BY <2>1, <2>2
<1>10. /\ \A id : Held(id)' => Held(id)
       /\ \A id : Held(id) => Held(id)' \/ (off /\ id = item.id)
  <2>1. \A id : Held(id)' <=> \/ id \in IdsOf(recorded')
                             \/ \E q \in Procs : id \in IdsOf(InHand(q)')
    BY DEF Held
  <2> QED BY <1>2, <1>5, <1>7, <1>9, <2>1 DEF Held
<1>11. FatesTypeOK'
  <2>1. /\ stage \in [Requests -> Stages]
        /\ isFinished \in [Requests -> BOOLEAN]
        /\ verdict \in [Requests -> {"none", "retained", "rejected"}]
        /\ buffer \in [Requests -> Seq(Events)]
        /\ logged \subseteq [id : Events, request : Requests]
    BY DEF FatesInv, FatesTypeOK
  <2>2. \A q \in Procs : InHand(q)' \in Seq(Records)
    BY <1>5, <1>7 DEF FatesInv, FatesTypeOK
  <2>3. \A q \in Procs : call'[q].at = "record" => call'[q].items # <<>>
    BY <1>3, <1>4, <1>7 DEF FatesInv, FatesTypeOK
  <2> QED BY <1>1, <1>7, <1>9, <2>1, <2>2, <2>3 DEF FatesTypeOK, slotVars, captureVars
<1>12. LoggedOnce'
  <2>1. \A x : Known(x)' <=> Known(x)
    BY <1>1 DEF Known, slotVars, captureVars
  <2>2. \A x \in Elements(items) : Known(x)
    BY <1>2 DEF FatesInv, LoggedOnce
  <2>3. \A x \in Elements(recorded') : Known(x)'
    BY <1>5, <1>9, <2>1, <2>2 DEF FatesInv, LoggedOnce
  <2>4. \A q \in Procs : \A x \in Elements(InHand(q)') : Known(x)'
    BY <1>5, <1>7, <2>1, <2>2 DEF FatesInv, LoggedOnce
  <2> QED BY <1>1, <2>3, <2>4 DEF FatesInv, LoggedOnce, slotVars, captureVars
<1>13. OnePlace'
  <2>1. IdsOf(rest) \cap IdsOf(recorded') = {} /\ Distinct(rest)
    BY <1>5, <1>8, <1>9
  <2>2. \A q \in Procs : q # p => /\ IdsOf(rest) \cap IdsOf(InHand(q)) = {}
                                 /\ IdsOf(InHand(q)) \cap IdsOf(recorded') = {}
    BY <1>5, <1>8, <1>9 DEF FatesInv, OnePlace
  <2>3. \A a \in Procs :
         /\ Distinct(InHand(a)')
         /\ IdsOf(InHand(a)') \cap IdsOf(recorded') = {}
         /\ \A b \in Procs : a # b => IdsOf(InHand(a)') \cap IdsOf(InHand(b)') = {}
    BY <1>7, <2>1, <2>2 DEF FatesInv, OnePlace
  <2>4. \A q \in Requests : ~isFinished'[q] => \A x \in Elements(buffer'[q]) : ~Held(x)'
    BY <1>1, <1>10 DEF FatesInv, OnePlace, captureVars
  <2> QED BY <1>9, <2>3, <2>4 DEF OnePlace
<1>14. NoneLost'
  BY <1>1, <1>10 DEF FatesInv, NoneLost, captureVars, off
<1>15. RequestLast'
  <2>1. ASSUME NEW i \in 1..Len(rest), rest[i].id \in Requests
        PROVE  /\ i = Len(rest)
               /\ \A e \in Elements(buffer[rest[i].id]) :
                    \/ LeftOut(e)
                    \/ e \in IdsOf(recorded')
                    \/ e \in IdsOf(rest)
    <3> DEFINE j == i + 1
    <3>1. j \in 1..Len(items) /\ items[j] = rest[i]
      BY <1>5
    <3> HIDE DEF j
    <3>2. /\ j = Len(items)
          /\ \A e \in Elements(buffer[rest[i].id]) :
               \/ LeftOut(e)
               \/ e \in IdsOf(recorded)
               \/ e \in IdsOf(items)
      BY <1>2, <2>1, <3>1 DEF FatesInv, RequestLast
    <3>3. i = Len(rest)
      BY <1>5, <3>2 DEF j
    <3> QED BY <1>5, <1>9, <3>2, <3>3 DEF off
  <2>2. \A i \in 1..Len(recorded) : recorded[i].id \in Requests =>
          \A e \in Elements(buffer[recorded[i].id]) :
            LeftOut(e) \/ \E k \in 1..(i - 1) : recorded[k].id = e
    BY DEF FatesInv, RequestLast
  <2>3. \A i \in 1..Len(recorded') : recorded'[i].id \in Requests =>
          \A e \in Elements(buffer[recorded'[i].id]) :
            LeftOut(e) \/ \E k \in 1..(i - 1) : recorded'[k].id = e
    <3>1. CASE off
      BY <1>1, <2>2, <3>1
    <3>2. CASE ~off
      <4> DEFINE n == Len(recorded)
      <4>1. /\ n \in Nat /\ Len(recorded') = n + 1 /\ recorded'[n + 1] = item
            /\ \A k \in 1..n : recorded'[k] = recorded[k]
        BY <1>1, <1>2, <1>5, <3>2
      <4>2. /\ (n + 1) - 1 = n
            /\ \A i \in 1..(n + 1) : i \in 1..n \/ i = n + 1
            /\ \A i \in 1..n : \A k \in 1..(i - 1) : k \in 1..n
        BY <4>1
      <4> HIDE DEF n
      <4>3. ASSUME item.id \in Requests, NEW e \in Elements(buffer[item.id])
            PROVE  LeftOut(e) \/ \E k \in 1..n : recorded'[k].id = e
        <5>1. /\ 1 = Len(items)
              /\ \/ LeftOut(e)
                 \/ e \in IdsOf(recorded)
                 \/ e \in IdsOf(items)
          BY <1>2, <1>6, <4>3 DEF FatesInv, RequestLast
        <5>2. 1..1 = {1}
          OBVIOUS
        <5>3. IdsOf(items) = {item.id}
          <6>1. \A i \in 1..Len(items) : items[i] = item
            BY <1>6, <5>1, <5>2
          <6>2. \E i \in 1..Len(items) : items[i] = item
            BY <1>6
          <6> QED BY <6>1, <6>2 DEF IdsOf
        <5>4. e # item.id
          BY <4>3, CaptureAssumption DEF FatesInv, FatesTypeOK, Elements
        <5> QED BY <4>1, <5>1, <5>3, <5>4 DEF IdsOf, n
      <4>4. ASSUME NEW i \in 1..n, recorded[i].id \in Requests,
                   NEW e \in Elements(buffer[recorded[i].id])
            PROVE  LeftOut(e) \/ \E k \in 1..(i - 1) : recorded'[k].id = e
        BY <2>2, <4>1, <4>2, <4>4 DEF n
      <4> QED BY <4>1, <4>2, <4>3, <4>4
    <3> QED BY <3>1, <3>2
  <2> HIDE DEF off
  <2>4. ASSUME NEW q \in Procs, NEW i \in 1..Len(InHand(q)'), InHand(q)'[i].id \in Requests
        PROVE  /\ i = Len(InHand(q)')
               /\ \A e \in Elements(buffer[InHand(q)'[i].id]) :
                    \/ LeftOut(e)
                    \/ e \in IdsOf(recorded')
                    \/ e \in IdsOf(InHand(q)')
    <3>1. CASE q = p
      BY <1>7, <2>1, <2>4, <3>1
    <3>2. CASE q # p
      BY <1>7, <1>9, <2>4, <3>2 DEF FatesInv, RequestLast
    <3> QED BY <3>1, <3>2
  <2> QED BY <1>1, <2>3, <2>4 DEF RequestLast, captureVars
<1> QED BY <1>11, <1>12, <1>13, <1>14, <1>15 DEF FatesInv

\* Every step keeps the fates.
LEMMA FatesStep == FatesInv /\ SlotsInv /\ [Next]_vars => FatesInv'
PROOF
<1> SUFFICES ASSUME FatesInv, SlotsInv, [Next]_vars PROVE FatesInv'
  OBVIOUS
<1> DEFINE Elsewhere == /\ UNCHANGED captureVars /\ UNCHANGED recorded
                        /\ stage' \in [Requests -> Stages]
                        /\ \A r \in Requests : stage[r] = "captured" => stage'[r] = "captured"
                        /\ DOMAIN call' = Procs
                        /\ \A p \in Procs : InHand(p)' = InHand(p)
                             /\ (call'[p].at = "record" => call'[p] = call[p])
<1>1. Elsewhere => FatesInv'
  BY SlotsLeaveFates
<1>2. ASSUME NEW p \in Procs, NEW r \in Requests, NEW s \in Stages, stage[r] # "captured",
             NEW c, c.at # "record", call[p].at # "record",
             stage' = stage \/ stage' = [stage EXCEPT ![r] = s],
             call' = call \/ call' = [call EXCEPT ![p] = c],
             UNCHANGED captureVars, UNCHANGED recorded
      PROVE  FatesInv'
  <2>1. DOMAIN call = Procs /\ stage \in [Requests -> Stages]
    BY DEF FatesInv, FatesTypeOK
  <2>2. stage' \in [Requests -> Stages]
        /\ \A q \in Requests : stage[q] = "captured" => stage'[q] = "captured"
    BY <1>2, <2>1
  <2>3. DOMAIN call' = Procs
        /\ \A q \in Procs : call'[q] = call[q] \/ (q = p /\ call'[q] = c)
    BY <1>2, <2>1
  <2>4. \A q \in Procs : InHand(q)' = InHand(q)
             /\ (call'[q].at = "record" => call'[q] = call[q])
    BY <1>2, <2>3 DEF InHand
  <2> QED BY <1>1, <1>2, <2>2, <2>3, <2>4
<1> HIDE DEF Elsewhere
<1>3. ASSUME NEW p \in Procs, NEW r \in Requests, Arrive(p, r) PROVE FatesInv'
  <2> DEFINE c == [at |-> "load", request |-> r]
  <2>1. /\ stage[r] # "captured" /\ call[p].at # "record"
        /\ UNCHANGED captureVars /\ UNCHANGED recorded
        /\ \/ stage' = [stage EXCEPT ![r] = "candidate"] /\ call' = [call EXCEPT ![p] = c]
           \/ stage' = [stage EXCEPT ![r] = "skipped"] /\ call' = call
    BY <1>3 DEF Arrive, Idle
  <2>2. c.at # "record" /\ "candidate" \in Stages /\ "skipped" \in Stages
    BY DEF Stages
  <2> HIDE DEF c
  <2> QED BY <1>2, <2>1, <2>2
<1>4. ASSUME NEW p \in Procs, Searching(p)
      PROVE  call[p].request \in Requests /\ stage[call[p].request] # "captured"
             /\ call[p].at # "record"
  BY <1>4 DEF SlotsInv, Searching
<1>5. ASSUME NEW p \in Procs, LoadRemaining(p) PROVE FatesInv'
  <2> DEFINE r == call[p].request
             c == [at |-> "swap", request |-> r, saw |-> remaining]
  <2>1. r \in Requests /\ stage[r] # "captured" /\ call[p].at # "record"
    BY <1>4, <1>5 DEF LoadRemaining, Searching
  <2>2. /\ UNCHANGED captureVars /\ UNCHANGED recorded
        /\ \/ stage' = [stage EXCEPT ![r] = "captured"] /\ call' = [call EXCEPT ![p] = Idle]
           \/ stage' = [stage EXCEPT ![r] = "skipped"] /\ call' = [call EXCEPT ![p] = Idle]
           \/ stage' = stage /\ call' = [call EXCEPT ![p] = c]
    BY <1>5 DEF LoadRemaining
  <2>3. c.at # "record" /\ Idle.at # "record" /\ "captured" \in Stages /\ "skipped" \in Stages
    BY DEF Stages, Idle
  <2> HIDE DEF c, r
  <2> QED BY <1>2, <2>1, <2>2, <2>3
<1>6. ASSUME NEW p \in Procs, CompareAndSwap(p) PROVE FatesInv'
  <2> DEFINE r == call[p].request
             c == [at |-> "load", request |-> r]
  <2>1. r \in Requests /\ stage[r] # "captured" /\ call[p].at # "record"
    BY <1>4, <1>6 DEF CompareAndSwap, Searching
  <2>2. /\ UNCHANGED captureVars /\ UNCHANGED recorded
        /\ \/ stage' = [stage EXCEPT ![r] = "captured"] /\ call' = [call EXCEPT ![p] = Idle]
           \/ stage' = stage /\ call' = [call EXCEPT ![p] = c]
    BY <1>6 DEF CompareAndSwap
  <2>3. c.at # "record" /\ Idle.at # "record" /\ "captured" \in Stages
    BY DEF Stages, Idle
  <2> HIDE DEF c, r
  <2> QED BY <1>2, <2>1, <2>2, <2>3
<1>7. ASSUME NEW p \in Procs, NEW r \in Requests, Finish(p, r) PROVE FatesInv'
  <2>1. CASE verdict' = [verdict EXCEPT ![r] = "rejected"] /\ UNCHANGED call
    BY <1>7, <2>1, RejectKeepsFates DEF Finish
  <2>2. CASE /\ verdict' = [verdict EXCEPT ![r] = "retained"]
             /\ call' = [call EXCEPT ![p] = [at |-> "record", items |-> RecordsOf(r)]]
    BY <1>7, <2>2, RetainKeepsFates DEF Finish
  <2> QED BY <1>7, <2>1, <2>2 DEF Finish
<1>8. ASSUME NEW p \in Procs, NEW r \in Requests, NEW e \in Events, Log(p, r, e) PROVE FatesInv'
  BY <1>8, BufferingKeepsFates DEF Log
<1>9. ASSUME NEW p \in Procs, NEW r \in Requests, NEW e \in Events, LogContext(p, r, e)
      PROVE FatesInv'
  <2>1. CASE AppendTo(r, e) /\ UNCHANGED call
    BY <1>9, <2>1, BufferingKeepsFates DEF LogContext
  <2>2. CASE ~(AppendTo(r, e) /\ UNCHANGED call)
    BY <1>9, <2>2, DirectKeepsFates DEF LogContext
  <2> QED BY <2>1, <2>2
<1>10. CASE UNCHANGED vars
  <2>1. /\ UNCHANGED captureVars /\ UNCHANGED recorded /\ UNCHANGED stage /\ UNCHANGED call
    BY <1>10 DEF vars, slotVars
  <2>2. \A p \in Procs : InHand(p)' = InHand(p)
    BY <2>1 DEF InHand
  <2> QED BY <1>1, <2>1, <2>2 DEF Elsewhere, FatesInv, FatesTypeOK
<1> QED BY <1>3, <1>5, <1>6, <1>7, <1>8, <1>9, <1>10, RecordKeepsFates DEF Next, Continue

-----------------------------------------------------------------------------
(* What the invariant says of the store.                                   *)

\* The invariant gives the order ...
LEMMA FatesGiveOrder == FatesInv => ChildrenBeforeRequest
PROOF
<1> SUFFICES ASSUME FatesInv, NEW i \in 1..Len(recorded)
             PROVE  LET r == recorded[i].request
                    IN  /\ stage[r] = "captured"
                        /\ recorded[i].id = r =>
                             \A j \in 1..Len(buffer[r]) :
                                ~LeftOut(buffer[r][j]) =>
                                  \E k \in 1..(i - 1) : recorded[k].id = buffer[r][j]
  BY DEF ChildrenBeforeRequest
<1>1. Known(recorded[i]) /\ recorded[i].request \in Requests
  BY RecordedKnown DEF Records
<1> QED BY <1>1 DEF Known, FatesInv, RequestLast, Elements

\* A set whose members are all equal.
LEMMA AtMostOne ==
    ASSUME NEW S, \A x, y \in S : x = y PROVE Cardinality(S) <= 1
PROOF
<1>1. CASE S = {}
  BY <1>1, FS_EmptySet
<1>2. CASE S # {}
  <2>1. PICK x \in S : TRUE
    BY <1>2
  <2>2. S = {x}
    BY <2>1
  <2> QED BY <2>2, FS_Singleton
<1> QED BY <1>1, <1>2

\* What OneFate counts, in the terms of the invariant.
LEMMA WaitingIsHeld ==
    ASSUME FatesInv, NEW id
    PROVE  Waiting(id) = {r \in Requests : ~isFinished[r] /\ id \in Elements(buffer[r])}
                           \cup {p \in Procs : id \in IdsOf(InHand(p))}
                           \cup {i \in 1..Len(recorded) : recorded[i].id = id}
PROOF
<1>1. \A r \in Requests : Contains(buffer[r], id) <=> id \in Elements(buffer[r])
  BY DEF Contains, Elements
<1>2. \A p \in Procs : (/\ call[p].at = "record"
                        /\ \E i \in 1..Len(call[p].items) : call[p].items[i].id = id)
                       <=> id \in IdsOf(InHand(p))
  BY NothingInHand DEF InHand, IdsOf
<1> QED BY <1>1, <1>2 DEF Waiting

\* The three kinds of place exclude each other.
LEMMA OneWaits ==
    ASSUME FatesInv, NEW id PROVE Cardinality(Waiting(id)) <= 1
PROOF
<1> DEFINE open == {r \in Requests : ~isFinished[r] /\ id \in Elements(buffer[r])}
           hands == {p \in Procs : id \in IdsOf(InHand(p))}
           stored == {i \in 1..Len(recorded) : recorded[i].id = id}
<1>1. Waiting(id) = open \cup hands \cup stored
  BY WaitingIsHeld
<1>2. \A x, y \in open : x = y
  <2> SUFFICES ASSUME NEW x \in open, NEW y \in open PROVE x = y
    OBVIOUS
  <2>1. Record(id, x) \in logged /\ Record(id, y) \in logged
    BY DEF FatesInv, LoggedOnce
  <2>2. /\ Record(id, x).id = id /\ Record(id, y).id = id
        /\ Record(id, x).request = x /\ Record(id, y).request = y
    BY DEF Record
  <2> QED BY <2>1, <2>2 DEF FatesInv, LoggedOnce
<1>3. \A x, y \in hands : x = y
  BY DEF FatesInv, OnePlace
<1>4. \A x, y \in stored : x = y
  BY DEF FatesInv, OnePlace, Distinct
<1>5. open # {} => hands = {} /\ stored = {}
  BY DEF FatesInv, OnePlace, Held, IdsOf
<1>6. stored # {} => hands = {}
  <2>1. stored # {} => id \in IdsOf(recorded)
    BY DEF IdsOf
  <2> QED BY <2>1 DEF FatesInv, OnePlace
<1> HIDE DEF open, hands, stored
<1>7. \A x, y \in Waiting(id) : x = y
  BY <1>1, <1>2, <1>3, <1>4, <1>5, <1>6
<1> QED BY <1>7, AtMostOne

\* ... and the fates.
LEMMA FatesGiveOneFate == FatesInv => OneFate
PROOF
<1> SUFFICES ASSUME FatesInv PROVE OneFate
  OBVIOUS
<1>1. \A id : Waiting(id) = {} => ~Held(id) /\ \A r \in Requests :
          ~isFinished[r] => id \notin Elements(buffer[r])
  <2> SUFFICES ASSUME NEW id, Waiting(id) = {}
               PROVE  /\ ~Held(id)
                      /\ \A r \in Requests : ~isFinished[r] => id \notin Elements(buffer[r])
    OBVIOUS
  <2> QED BY WaitingIsHeld DEF Held, IdsOf
<1>2. ASSUME NEW l \in logged, Waiting(l.id) = {} PROVE Discarded(l.id, l.request)
  <2>1. l.request \in Requests
    BY DEF FatesInv, FatesTypeOK
  <2>2. \A s : l.id \in Elements(s) => Contains(s, l.id)
    BY DEF Elements, Contains
  <2> QED BY <1>1, <1>2, <2>1, <2>2 DEF FatesInv, NoneLost, Discarded
<1>3. ASSUME NEW r \in Requests, isFinished[r], Waiting(r) = {} PROVE Discarded(r, r)
  BY <1>1, <1>3 DEF FatesInv, NoneLost, Discarded
<1> QED BY <1>2, <1>3, OneWaits DEF OneFate

\* The invariant holds of every reachable state.
LEMMA FatesAlways == Spec => [](FatesInv /\ SlotsInv)
PROOF
<1>1. Init => FatesInv /\ SlotsInv
  BY FatesStart, SlotsStart
<1>2. (FatesInv /\ SlotsInv) /\ [Next]_vars => (FatesInv /\ SlotsInv)'
  BY FatesStep, SlotsStep
<1> QED BY <1>1, <1>2, PTL DEF Spec

\* Whoever sees a request in the store can see everything its buffer held when
\* it finished: LogRequest puts the related entities first, one goroutine at a time.
THEOREM ChildrenComeFirst == Spec => []ChildrenBeforeRequest
PROOF
<1>1. FatesInv => ChildrenBeforeRequest
  BY FatesGiveOrder
<1> QED BY <1>1, FatesAlways, PTL

\* No interleaving of logging, Finish and recording loses an entity or records
\* it twice: each waits in one place, or is recorded once, or was discarded.
THEOREM FateIsUnique == Spec => []OneFate
PROOF
<1>1. FatesInv => OneFate
  BY FatesGiveOneFate
<1> QED BY <1>1, FatesAlways, PTL
=============================================================================
