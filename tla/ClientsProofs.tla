---------------------------- MODULE ClientsProofs ---------------------------
(***************************************************************************)
(* What holds of the clients of one server, for every size of the store,   *)
(* of its pages and of the channel of a subscription, and for every number *)
(* of goroutines: what the calls of the Go client return and when they are *)
(* refused, and what statistics make a browser forget.                     *)
(***************************************************************************)
EXTENDS Clients, SequenceTheorems, FiniteSetTheorems, WellFoundedInduction, TLAPS

-----------------------------------------------------------------------------
(* Pages.                                                                  *)

\* What the server stores.
Entries == [cursor : Nat, class : Classes, of : SUBSET Nat]

\* The server: the stored entries are the last ones inserted, a cursor is a
\* position among all that were, and a request is one of its own entries.
OfItself(e) == e.class \in Requests => e.cursor \in e.of

ServerInv ==
    /\ nextCursor \in Nat /\ session \in Nat
    /\ stored \in Seq(Entries)
    /\ Len(stored) <= nextCursor
    /\ \A i \in 1..Len(stored) : stored[i].cursor = (nextCursor - Len(stored)) + i
    /\ \A i \in 1..Len(stored) : OfItself(stored[i])

\* What holds of 0 and with every number of the next one holds up to n:
\* otherwise there would be a least number it does not hold of.
LEMMA Upwards ==
    ASSUME NEW n \in Nat, NEW P, 0 \in P, \A k \in 0..(n - 1) : k \in P => (k + 1) \in P
    PROVE  n \in P
PROOF
<1> DEFINE less == OpToRel(<, Nat)
           bad == {k \in 0..n : k \notin P}
<1>1. IsWellFoundedOn(less, Nat)
  BY NatLessThanWellFounded
<1>2. \A a, b \in Nat : a < b => <<a, b>> \in less
  BY DEF OpToRel
<1> HIDE DEF less
<1>3. SUFFICES ASSUME bad # {} PROVE FALSE
  OBVIOUS
<1>4. bad \subseteq Nat
  OBVIOUS
<1> HIDE DEF bad
<1>5. PICK k \in bad : \A j \in bad : ~(<<j, k>> \in less)
  BY <1>1, <1>3, <1>4, WFMin
<1> USE DEF bad
<1>6. k # 0 /\ k \in 0..n /\ k \notin P
  OBVIOUS
<1>7. k - 1 \in Nat /\ k - 1 < k /\ k - 1 \in 0..(n - 1) /\ (k - 1) + 1 = k
  BY <1>6
<1>8. k - 1 \notin bad
  <2> DEFINE j == k - 1
  <2>1. j \in Nat /\ k \in Nat /\ j < k
    BY <1>6, <1>7
  <2> HIDE DEF j
  <2>2. <<j, k>> \in less
    BY <1>2, <2>1
  <2>3. j \notin bad
    BY <1>5, <2>2
  <2> QED BY <2>3 DEF j
<1> QED BY <1>6, <1>7, <1>8

\* A set of numbers has a least member ...
LEMMA LeastOf ==
    ASSUME NEW S \in SUBSET Nat, S # {}
    PROVE  Min(S) \in S /\ \A x \in S : Min(S) <= x
PROOF
<1> DEFINE less == OpToRel(<, Nat)
<1>1. IsWellFoundedOn(less, Nat)
  BY NatLessThanWellFounded
<1>2. \A a, b \in Nat : a < b => <<a, b>> \in less
  BY DEF OpToRel
<1> HIDE DEF less
<1>3. PICK k \in S : \A j \in S : ~(<<j, k>> \in less)
  <2>1. S \subseteq Nat /\ S # {}
    OBVIOUS
  <2> QED BY <1>1, <2>1, WFMin
<1>4. \A j \in S : k <= j
  <2> SUFFICES ASSUME NEW j \in S PROVE k <= j
    OBVIOUS
  <2>1. j \in Nat /\ k \in Nat
    BY <1>3
  <2>2. ~(j < k)
    BY <1>2, <1>3, <2>1
  <2> QED BY <2>1, <2>2
<1>5. \E x \in S : \A y \in S : x <= y
  BY <1>4
<1> QED BY <1>5 DEF Min

\* ... and a bounded one a greatest.
LEMMA GreatestOf ==
    ASSUME NEW n \in Nat, NEW S \in SUBSET (0..n), S # {}
    PROVE  Max(S) \in S /\ \A x \in S : x <= Max(S)
PROOF
<1> DEFINE R == {k \in 0..n : n - k \in S}
<1>1. R \in SUBSET Nat /\ R # {}
  <2>1. PICK x : x \in S
    OBVIOUS
  <2>2. n - x \in 0..n /\ n - (n - x) = x
    BY <2>1
  <2>3. n - x \in R
    BY <2>1, <2>2
  <2> QED BY <2>3
<1> DEFINE k == Min(R)
<1>2. k \in R /\ \A j \in R : k <= j
  BY <1>1, LeastOf
<1> HIDE DEF k
<1>3. n - k \in S /\ \A x \in S : x <= n - k
  <2>1. \A x \in S : n - x \in R
    OBVIOUS
  <2>2. \A x \in S : k <= n - x /\ x \in Int
    BY <1>2, <2>1
  <2>3. k \in Int /\ n - k \in S
    BY <1>2
  <2> QED BY <2>2, <2>3
<1>4. \E x \in S : \A y \in S : x >= y
  <2>1. \A y \in S : y \in Int /\ y <= n - k
    BY <1>3
  <2>2. \A y \in S : n - k >= y
    BY <1>2, <2>1
  <2> QED BY <1>3, <2>2
<1>5. Max(S) \in S /\ \A y \in S : Max(S) >= y
  BY <1>4 DEF Max
<1> QED BY <1>5

\* A function on the positions that have been scanned, as the fold of ListBefore
\* computes it.
Scanning(g, filter, after, before, limit, D) ==
  g = [T \in SUBSET D |->
         IF T = {} THEN <<>>
         ELSE IF Eligible(filter, after, before, stored[Min(T)]) /\ Len(g[T \ {Min(T)}]) < limit
              THEN <<stored[Min(T)]>> \o g[T \ {Min(T)}]
              ELSE g[T \ {Min(T)}]]

\* ListBefore is the value of such a function at all positions ...
LEMMA ScanFolds ==
    ASSUME NEW filter, NEW after, NEW before, NEW limit
    PROVE  ListBefore(filter, after, before, limit)
             = (CHOOSE g : Scanning(g, filter, after, before, StoreLimit(limit), DOMAIN stored))
                 [DOMAIN stored]
PROOF
BY DEF ListBefore, FoldRight, MapThenFoldSet, Scanning

\* The last k of n positions, which the fold takes before the others.
Newest(n, k) == {i \in 1..n : i > n - k}

\* Each of them is the least of those taken so far.
LEMMA MinOfNewest ==
    ASSUME NEW n \in Nat, NEW k \in 0..(n - 1)
    PROVE  /\ n - k \in Newest(n, k + 1) /\ n - k \notin Newest(n, k)
           /\ Newest(n, k + 1) \ {n - k} = Newest(n, k)
           /\ Newest(n, k) \subseteq Newest(n, k + 1)
           /\ \A T \in SUBSET Newest(n, k + 1) : n - k \in T => Min(T) = n - k
PROOF
<1>1. \A T \in SUBSET Newest(n, k + 1) : n - k \in T => Min(T) = n - k
  <2> SUFFICES ASSUME NEW T \in SUBSET Newest(n, k + 1), n - k \in T PROVE Min(T) = n - k
    OBVIOUS
  <2>1. \A y \in T : y \in Nat /\ n - k <= y
    BY DEF Newest
  <2>2. Min(T) \in T /\ \A y \in T : Min(T) <= y
    BY <2>1, LeastOf
  <2> QED BY <2>1, <2>2
<1>2. /\ n - k \in Newest(n, k + 1) /\ n - k \notin Newest(n, k)
      /\ Newest(n, k + 1) \ {n - k} = Newest(n, k)
      /\ Newest(n, k) \subseteq Newest(n, k + 1)
  BY DEF Newest
<1> QED BY <1>1, <1>2

\* ... and there is one: else there would be a least number of them without.
LEMMA ScanExists ==
    ASSUME NEW filter, NEW after, NEW before, NEW limit, NEW n \in Nat
    PROVE  \E g : Scanning(g, filter, after, before, limit, Newest(n, n))
PROOF
<1> DEFINE Scans(g, k) == Scanning(g, filter, after, before, limit, Newest(n, k))
           P == {k \in 0..n : \E g : Scans(g, k)}
<1>1. 0 \in P
  <2> DEFINE none == <<>>
             z == [T \in SUBSET {} |-> none]
  <2>1. Newest(n, 0) = {}
    BY DEF Newest
  <2>2. z = [T \in SUBSET {} |->
              IF T = {} THEN <<>>
              ELSE IF /\ Len(z[T \ {Min(T)}]) < limit
                      /\ Eligible(filter, after, before, stored[Min(T)])
                   THEN <<stored[Min(T)]>> \o z[T \ {Min(T)}]
                   ELSE z[T \ {Min(T)}]]
    <3>1. \A T \in SUBSET {} : T = {}
      OBVIOUS
    <3> QED BY <3>1, Zenon
  <2>3. Scanning(z, filter, after, before, limit, {})
    BY <2>2 DEF Scanning
  <2> HIDE DEF z
  <2>4. \E g : Scans(g, 0)
    BY <2>1, <2>3
  <2> QED BY <2>4
<1>2. ASSUME NEW k \in 0..(n - 1), k \in P PROVE (k + 1) \in P
  <2>1. PICK g : Scans(g, k)
    BY <1>2
  <2> DEFINE first == n - k
             next(f, i) == IF Len(f) < limit /\ Eligible(filter, after, before, stored[i])
                           THEN <<stored[i]>> \o f ELSE f
             G == [T \in SUBSET Newest(n, k + 1) |->
                     IF first \in T THEN next(g[T \ {first}], first) ELSE g[T]]
  <2>2. /\ Newest(n, k) \subseteq Newest(n, k + 1) /\ first \notin Newest(n, k)
        /\ \A T \in SUBSET Newest(n, k + 1) : T \ {first} \in SUBSET Newest(n, k)
        /\ \A T \in SUBSET Newest(n, k + 1) : first \in T => Min(T) = first
    BY MinOfNewest
  <2>3. \A T \in SUBSET Newest(n, k) :
           g[T] = IF T = {} THEN <<>> ELSE next(g[T \ {Min(T)}], Min(T))
    BY <2>1 DEF Scanning
  <2> HIDE DEF first
  <2>4. ASSUME NEW T \in SUBSET Newest(n, k + 1)
        PROVE  G[T] = IF T = {} THEN <<>> ELSE next(G[T \ {Min(T)}], Min(T))
    <3>1. CASE first \in T
      <4>1. Min(T) = first /\ T # {}
        BY <3>1, <2>2
      <4>2. G[T \ {first}] = g[T \ {first}]
        BY <2>2
      <4>3. G[T] = next(g[T \ {first}], first)
        BY <3>1
      <4> HIDE DEF G, next
      <4> QED BY <4>1, <4>2, <4>3
    <3>2. CASE first \notin T
      <4>1. T \in SUBSET Newest(n, k) /\ T \ {Min(T)} \in SUBSET Newest(n, k)
        BY <3>2, <2>2
      <4>2. G[T] = g[T] /\ G[T \ {Min(T)}] = g[T \ {Min(T)}]
        BY <3>2, <4>1, <2>2
      <4> HIDE DEF G, next
      <4> QED BY <2>3, <4>1, <4>2
    <3> QED BY <3>1, <3>2
  <2>5. G = [T \in SUBSET Newest(n, k + 1) |-> G[T]]
    OBVIOUS
  <2> HIDE DEF G
  <2>6. Scans(G, k + 1)
    BY <2>4, <2>5 DEF Scanning
  <2> QED BY <2>6
<1>3. n \in P
  <2> HIDE DEF P
  <2> QED BY <1>1, <1>2, Upwards
<1>4. \E g : Scans(g, n)
  <2> HIDE DEF Scans
  <2> QED BY <1>3
<1> QED BY <1>4 DEF Scans

\* What a scan has found among the positions D: entries it was to find, in their
\* order, and all of those unless it has enough, and then the newest.
FoundIn(f, s, K, limit, D) ==
    /\ f \in Seq(Entries) /\ Len(f) <= limit
    /\ \A i \in 1..Len(f) : \E j \in D : j \in K /\ f[i] = s[j]
    /\ \A i, j \in 1..Len(f) : i < j => f[i].cursor < f[j].cursor
    /\ \A j \in D : j \in K =>
          \/ \E i \in 1..Len(f) : f[i] = s[j]
          \/ Len(f) = limit /\ \A i \in 1..Len(f) : s[j].cursor < f[i].cursor

\* It holds on with the entry before them.
LEMMA FoundMore ==
    ASSUME NEW s \in Seq(Entries), NEW K, NEW limit \in Nat, NEW D \in SUBSET (1..Len(s)),
           NEW first \in 1..Len(s), NEW f, FoundIn(f, s, K, limit, D),
           \A j \in D : s[first].cursor < s[j].cursor,
           NEW h, h = IF Len(f) < limit /\ first \in K THEN <<s[first]>> \o f ELSE f
    PROVE  FoundIn(h, s, K, limit, D \cup {first})
PROOF
<1> DEFINE e == s[first]
<1>1. /\ f \in Seq(Entries) /\ Len(f) \in Nat /\ Len(f) <= limit
      /\ \A i \in 1..Len(f) : f[i] \in Entries
      /\ \A j \in 1..Len(s) : s[j] \in Entries
      /\ e \in Entries
  BY ElementOfSeq DEF FoundIn
<1>2. \A i \in 1..Len(f) : e.cursor < f[i].cursor
  BY DEF FoundIn
<1>3. CASE Len(f) < limit /\ first \in K
  <2> DEFINE one == <<e>>
  <2>1. one \in Seq(Entries) /\ Len(one) = 1 /\ one[1] = e
    BY <1>1
  <2>2. h = one \o f
    BY <1>3
  <2> HIDE DEF one
  <2>3. /\ h \in Seq(Entries) /\ Len(h) = Len(f) + 1 /\ h[1] = e
        /\ \A i \in 1..Len(f) : h[i + 1] = f[i]
    <3>1. /\ h \in Seq(Entries) /\ Len(h) = Len(one) + Len(f)
          /\ \A i \in 1..(Len(one) + Len(f)) :
                h[i] = IF i <= Len(one) THEN one[i] ELSE f[i - Len(one)]
      <4>1. one \in Seq(Entries) /\ f \in Seq(Entries)
        BY <1>1, <2>1
      <4>2. /\ one \o f \in Seq(Entries) /\ Len(one \o f) = Len(one) + Len(f)
            /\ \A i \in 1..(Len(one) + Len(f)) :
                  (one \o f)[i] = IF i <= Len(one) THEN one[i] ELSE f[i - Len(one)]
        BY <4>1, ConcatProperties
      <4> QED BY <2>2, <4>2
    <3>2. h \in Seq(Entries) /\ Len(h) = Len(f) + 1 /\ h[1] = e
      BY <1>1, <2>1, <3>1
    <3>3. ASSUME NEW i \in 1..Len(f) PROVE h[i + 1] = f[i]
      <4>1. i + 1 \in 1..(Len(one) + Len(f)) /\ ~(i + 1 <= Len(one)) /\ (i + 1) - Len(one) = i
        BY <1>1, <2>1
      <4> QED BY <3>1, <4>1
    <3> QED BY <3>2, <3>3
  <2>4. \A i \in 1..Len(h) : i = 1 \/ (i - 1 \in 1..Len(f) /\ h[i] = f[i - 1])
    <3> SUFFICES ASSUME NEW i \in 1..Len(h), i # 1
                 PROVE  i - 1 \in 1..Len(f) /\ h[i] = f[i - 1]
      OBVIOUS
    <3>1. i - 1 \in 1..Len(f) /\ (i - 1) + 1 = i
      BY <1>1, <2>3
    <3> QED BY <2>3, <3>1
  <2>5. \A i \in 1..Len(h) : \E j \in D \cup {first} : j \in K /\ h[i] = s[j]
    <3> SUFFICES ASSUME NEW i \in 1..Len(h)
                 PROVE  \E j \in D \cup {first} : j \in K /\ h[i] = s[j]
      OBVIOUS
    <3>1. CASE i = 1
      BY <1>3, <2>3, <3>1
    <3>2. CASE i # 1
      <4>1. i - 1 \in 1..Len(f) /\ h[i] = f[i - 1]
        BY <2>4, <3>2
      <4> QED BY <4>1 DEF FoundIn
    <3> QED BY <3>1, <3>2
  <2>6. \A i, j \in 1..Len(h) : i < j => h[i].cursor < h[j].cursor
    <3> SUFFICES ASSUME NEW i \in 1..Len(h), NEW j \in 1..Len(h), i < j
                 PROVE  h[i].cursor < h[j].cursor
      OBVIOUS
    <3>1. j # 1 /\ j - 1 \in 1..Len(f) /\ h[j] = f[j - 1]
      BY <2>4
    <3>2. CASE i = 1
      BY <1>2, <2>3, <3>1, <3>2
    <3>3. CASE i # 1
      <4>1. i - 1 \in 1..Len(f) /\ h[i] = f[i - 1] /\ i - 1 < j - 1
        BY <2>4, <3>3
      <4> QED BY <3>1, <4>1 DEF FoundIn
    <3> QED BY <3>2, <3>3
  <2>7. ASSUME NEW j \in D \cup {first}, j \in K
        PROVE  \E i \in 1..Len(h) : h[i] = s[j]
    <3>1. CASE j = first
      BY <1>1, <2>3, <3>1
    <3>2. CASE j # first
      <4>1. PICK i \in 1..Len(f) : f[i] = s[j]
        BY <1>1, <1>3, <2>7, <3>2 DEF FoundIn
      <4>2. i + 1 \in 1..Len(h) /\ h[i + 1] = s[j]
        BY <1>1, <2>3, <4>1
      <4> QED BY <4>2
    <3> QED BY <3>1, <3>2
  <2>8. Len(h) <= limit
    BY <1>1, <1>3, <2>3
  <2> QED BY <2>3, <2>5, <2>6, <2>7, <2>8 DEF FoundIn
<1>4. CASE ~(Len(f) < limit /\ first \in K)
  <2>1. h = f
    BY <1>4
  <2>2. first \in K => Len(f) = limit
    BY <1>1, <1>4
  <2> QED BY <1>1, <1>2, <2>1, <2>2 DEF FoundIn
<1> QED BY <1>3, <1>4

\* A scan of the whole store finds what it is to find (listBeforeFiltered).
LEMMA ListBeforeFinds ==
    ASSUME ServerInv, NEW filter, NEW after, NEW before, NEW limit, StoreLimit(limit) \in Nat
    PROVE  FoundIn(ListBefore(filter, after, before, limit), stored,
                   {j \in DOMAIN stored : Eligible(filter, after, before, stored[j])},
                   StoreLimit(limit), DOMAIN stored)
PROOF
<1> DEFINE n == Len(stored)
           most == StoreLimit(limit)
           K == {j \in DOMAIN stored : Eligible(filter, after, before, stored[j])}
           g == CHOOSE f : Scanning(f, filter, after, before, most, Newest(n, n))
           Good(k) == FoundIn(g[Newest(n, k)], stored, K, most, Newest(n, k))
           P == {k \in 0..n : Good(k)}
<1>1. n \in Nat /\ DOMAIN stored = 1..n /\ stored \in Seq(Entries) /\ most \in Nat
  BY DEF ServerInv
<1>2. Newest(n, n) = 1..n /\ Newest(n, 0) = {}
  BY <1>1 DEF Newest
<1>3. /\ Scanning(g, filter, after, before, most, Newest(n, n))
      /\ ListBefore(filter, after, before, limit) = g[Newest(n, n)]
  BY <1>1, <1>2, ScanExists, ScanFolds
<1> HIDE DEF g, most
<1>4. 0 \in P
  <2> DEFINE none == <<>>
  <2>1. none \in Seq(Entries) /\ Len(none) = 0 /\ 1..0 = {}
    OBVIOUS
  <2>2. g[{}] = none
    BY <1>3 DEF Scanning
  <2> HIDE DEF none
  <2>3. FoundIn(none, stored, K, most, {})
    BY <1>1, <2>1 DEF FoundIn
  <2>4. Good(0)
    BY <1>2, <2>2, <2>3
  <2> QED BY <1>1, <2>4
<1>5. ASSUME NEW k \in 0..(n - 1), k \in P PROVE (k + 1) \in P
  <2> DEFINE first == n - k
  <2>1. /\ first \in Newest(n, k + 1) /\ first \notin Newest(n, k)
        /\ Newest(n, k + 1) \ {first} = Newest(n, k)
        /\ Min(Newest(n, k + 1)) = first
    BY <1>1, MinOfNewest
  <2>2. Newest(n, k + 1) \in SUBSET Newest(n, n) /\ Newest(n, k + 1) # {}
    BY <1>1, <2>1 DEF Newest
  <2>3. first \in 1..n /\ Newest(n, k) \in SUBSET (1..n)
    BY <1>1 DEF Newest
  <2>0. \A i \in 1..n : stored[i].cursor = (nextCursor - n) + i
    BY DEF ServerInv
  <2>4. \A j \in Newest(n, k) : stored[first].cursor < stored[j].cursor
    <3>1. nextCursor \in Nat /\ n \in Nat /\ \A j \in Newest(n, k) : j \in 1..n /\ first < j
      BY <1>1, <2>3 DEF ServerInv, Newest
    <3> HIDE DEF first
    <3> QED BY <2>3, <2>0, <3>1
  <2> DEFINE f == g[Newest(n, k)]
             h == g[Newest(n, k + 1)]
  <2> HIDE DEF first
  <2>5. h = IF Len(f) < most /\ first \in K THEN <<stored[first]>> \o f ELSE f
    <3>1. first \in K <=> Eligible(filter, after, before, stored[first])
      BY <1>1, <2>3
    <3> HIDE DEF K
    <3>2. h = IF Len(f) < most /\ Eligible(filter, after, before, stored[first])
              THEN <<stored[first]>> \o f ELSE f
      BY <1>3, <2>1, <2>2 DEF Scanning
    <3> QED BY <3>1, <3>2
  <2>6. FoundIn(f, stored, K, most, Newest(n, k))
    BY <1>5
  <2> HIDE DEF f, h, K
  <2>7. FoundIn(h, stored, K, most, Newest(n, k) \cup {first})
    BY <1>1, <2>3, <2>4, <2>5, <2>6, FoundMore
  <2>8. Newest(n, k) \cup {first} = Newest(n, k + 1)
    BY <2>1
  <2>9. FoundIn(h, stored, K, most, Newest(n, k + 1))
    BY <2>7, <2>8
  <2>10. k + 1 \in 0..n
    BY <1>1
  <2> QED BY <2>9, <2>10 DEF h, K
<1>6. n \in P
  <2> HIDE DEF P
  <2> QED BY <1>1, <1>4, <1>5, Upwards
<1> HIDE DEF K
<1>7. FoundIn(g[1..n], stored, K, most, 1..n)
  BY <1>2, <1>6
<1>8. FoundIn(ListBefore(filter, after, before, limit), stored, K, most, DOMAIN stored)
  BY <1>1, <1>2, <1>3, <1>7
<1> QED BY <1>8 DEF K, most

\* The entries a filter lets through, between two cursors.
Wanted(filter, after, before) ==
    {e \in ToSet(stored) : Eligible(filter, after, before, e)}

\* The cursors of the stored entries are the last ones given.
LEMMA StoredEntries ==
    ASSUME ServerInv
    PROVE  /\ Len(stored) \in Nat /\ DOMAIN stored = 1..Len(stored)
           /\ \A j \in 1..Len(stored) : stored[j] \in Entries
           /\ \A e \in ToSet(stored) : e \in Entries /\ \E j \in 1..Len(stored) : stored[j] = e
           /\ \A j \in 1..Len(stored) : stored[j] \in ToSet(stored)
           /\ StoredCursors = {e.cursor : e \in ToSet(stored)}
           /\ StoredCursors = {c \in 1..nextCursor : c > nextCursor - Len(stored)}
           /\ \A d, e \in ToSet(stored) : d.cursor = e.cursor => d = e
PROOF
<1>1. /\ Len(stored) \in Nat /\ DOMAIN stored = 1..Len(stored)
      /\ \A j \in 1..Len(stored) : stored[j] \in Entries
  BY ElementOfSeq DEF ServerInv
<1>2. ToSet(stored) = {stored[j] : j \in 1..Len(stored)}
  BY <1>1 DEF ToSet
<1>3. StoredCursors = {stored[j].cursor : j \in 1..Len(stored)}
  BY <1>1 DEF StoredCursors, CursorsOf
<1>4. StoredCursors = {e.cursor : e \in ToSet(stored)}
  BY <1>2, <1>3
<1>5. StoredCursors = {c \in 1..nextCursor : c > nextCursor - Len(stored)}
  <2>1. \A j \in 1..Len(stored) : /\ stored[j].cursor \in 1..nextCursor
                                  /\ stored[j].cursor > nextCursor - Len(stored)
    BY <1>1 DEF ServerInv
  <2>2. ASSUME NEW c \in 1..nextCursor, c > nextCursor - Len(stored)
        PROVE  \E j \in 1..Len(stored) : stored[j].cursor = c
    <3>1. c - (nextCursor - Len(stored)) \in 1..Len(stored)
      BY <1>1, <2>2 DEF ServerInv
    <3>2. stored[c - (nextCursor - Len(stored))].cursor = c
      BY <1>1, <2>2, <3>1 DEF ServerInv
    <3> QED BY <3>1, <3>2
  <2> QED BY <1>3, <2>1, <2>2
<1>6. \A i, j \in 1..Len(stored) : stored[i].cursor = stored[j].cursor => i = j
  BY <1>1 DEF ServerInv
<1> QED BY <1>1, <1>2, <1>4, <1>5, <1>6

\* A page holds the newest of the entries that are wanted, in their order, and
\* says whether there are more: the entry that was asked for beyond the limit is
\* the oldest (listEvents).
LEMMA PageIsNewest ==
    ASSUME ServerInv, NEW filter, NEW after, NEW before, NEW limit \in Int,
           NEW page, page = ListEvents(filter, after, before, limit)
    PROVE  /\ page.events \in Seq(Entries) /\ page.hasMore \in BOOLEAN
           /\ \A i \in 1..Len(page.events) : page.events[i] \in Wanted(filter, after, before)
           /\ \A i, j \in 1..Len(page.events) :
                 i < j => page.events[i].cursor < page.events[j].cursor
           /\ \A e \in Wanted(filter, after, before) :
                 \/ \E i \in 1..Len(page.events) : page.events[i] = e
                 \/ /\ page.hasMore
                    /\ \A i \in 1..Len(page.events) : e.cursor < page.events[i].cursor
           /\ page.hasMore => Len(page.events) > 0
PROOF
<1> DEFINE most == HandlerLimit(limit)
           all == ListBefore(filter, after, before, most + 1)
           K == {j \in DOMAIN stored : Eligible(filter, after, before, stored[j])}
           W == Wanted(filter, after, before)
<1>1. most \in 1..MaxLimit /\ StoreLimit(most + 1) = most + 1
  BY ServerAssumption DEF HandlerLimit, StoreLimit
<1>2. most \in Nat /\ most > 0
  BY <1>1, ServerAssumption
<1>3. FoundIn(all, stored, K, most + 1, DOMAIN stored)
  <2>1. StoreLimit(most + 1) \in Nat
    BY <1>1, <1>2
  <2> QED BY <1>1, <2>1, ListBeforeFinds
<1>4. \A e : e \in W <=> \E j \in DOMAIN stored : j \in K /\ e = stored[j]
  BY StoredEntries DEF Wanted
<1>5. page = IF Len(all) > most THEN [events |-> Tail(all), hasMore |-> TRUE]
                                ELSE [events |-> all, hasMore |-> FALSE]
  BY DEF ListEvents
<1> HIDE DEF most, all, K, W
<1>6. /\ all \in Seq(Entries) /\ Len(all) \in Nat /\ Len(all) <= most + 1
      /\ \A i \in 1..Len(all) : all[i] \in W /\ all[i] \in Entries
      /\ \A i, j \in 1..Len(all) : i < j => all[i].cursor < all[j].cursor
      /\ \A e \in W : \/ \E i \in 1..Len(all) : all[i] = e
                      \/ Len(all) = most + 1 /\ \A i \in 1..Len(all) : e.cursor < all[i].cursor
  BY <1>3, <1>4, ElementOfSeq DEF FoundIn
<1>7. CASE Len(all) > most
  <2>1. page.events = Tail(all) /\ page.hasMore = TRUE
    BY <1>5, <1>7
  <2>2. all # <<>>
    BY <1>2, <1>6, <1>7, EmptySeq
  <2>3. /\ Tail(all) \in Seq(Entries) /\ Len(Tail(all)) = Len(all) - 1
        /\ \A i \in 1..Len(Tail(all)) : Tail(all)[i] = all[i + 1]
    BY <1>6, <2>2, HeadTailProperties
  <2> DEFINE rest == Tail(all)
  <2> HIDE DEF rest
  <2>4. /\ rest \in Seq(Entries) /\ Len(rest) = Len(all) - 1 /\ Len(rest) > 0
        /\ \A i \in 1..Len(rest) : rest[i] = all[i + 1] /\ i + 1 \in 1..Len(all) /\ i + 1 > 1
    <3>1. /\ rest \in Seq(Entries) /\ Len(rest) = Len(all) - 1
          /\ \A i \in 1..Len(rest) : rest[i] = all[i + 1]
      BY <2>3 DEF rest
    <3>2. Len(rest) > 0
      BY <1>2, <1>6, <1>7, <3>1
    <3>3. \A i \in 1..Len(rest) : i + 1 \in 1..Len(all) /\ i + 1 > 1
      BY <1>6, <3>1
    <3> QED BY <3>1, <3>2, <3>3
  <2>5. \A i \in 1..Len(rest) : rest[i] \in W
    BY <1>6, <2>4
  <2>6. \A i, j \in 1..Len(rest) : i < j => rest[i].cursor < rest[j].cursor
    <3> SUFFICES ASSUME NEW i \in 1..Len(rest), NEW j \in 1..Len(rest), i < j
                 PROVE  rest[i].cursor < rest[j].cursor
      OBVIOUS
    <3>1. i + 1 < j + 1
      BY <1>6, <2>4
    <3> QED BY <1>6, <2>4, <3>1
  <2>7. ASSUME NEW e \in W
        PROVE  \/ \E i \in 1..Len(rest) : rest[i] = e
               \/ \A i \in 1..Len(rest) : e.cursor < rest[i].cursor
    <3>1. CASE \E i \in 1..Len(all) : all[i] = e
      <4>1. PICK i \in 1..Len(all) : all[i] = e
        BY <3>1
      <4>2. CASE i = 1
        BY <1>6, <2>4, <4>1, <4>2
      <4>3. CASE i # 1
        <5>1. i - 1 \in 1..Len(rest) /\ (i - 1) + 1 = i
          BY <1>6, <2>4, <4>3
        <5> QED BY <2>4, <4>1, <5>1
      <4> QED BY <4>2, <4>3
    <3>2. CASE \A i \in 1..Len(all) : e.cursor < all[i].cursor
      BY <2>4, <3>2
    <3> QED BY <1>6, <3>1, <3>2
  <2>8. page.events = rest
    BY <2>1 DEF rest
  <2> QED BY <2>1, <2>4, <2>5, <2>6, <2>7, <2>8 DEF W
<1>8. CASE ~(Len(all) > most)
  <2>1. page.events = all /\ page.hasMore = FALSE
    BY <1>5, <1>8
  <2>2. Len(all) # most + 1
    BY <1>2, <1>6, <1>8
  <2> QED BY <1>6, <2>1, <2>2 DEF W
<1> QED BY <1>7, <1>8

-----------------------------------------------------------------------------
(* The server.                                                             *)

\* From one state of the server to a later one of the same numbering: entries
\* come with new cursors, and leave from the oldest on.
Onward ==
    /\ nextCursor <= nextCursor'
    /\ \A e \in ToSet(stored') : e \in ToSet(stored) \/ e.cursor > nextCursor
    /\ \A e \in ToSet(stored) :
          e \in ToSet(stored') \/ \A d \in ToSet(stored') : e.cursor < d.cursor

\* The server starts with nothing.
LEMMA ServerStarts == ServerInit => ServerInv
PROOF
<1> SUFFICES ASSUME ServerInit PROVE ServerInv
  OBVIOUS
<1> DEFINE none == <<>>
<1>1. none \in Seq(Entries) /\ Len(none) = 0 /\ 1..0 = {}
  OBVIOUS
<1>2. stored = none /\ nextCursor = 0 /\ session = 0
  BY DEF ServerInit
<1> HIDE DEF none
<1> QED BY <1>1, <1>2 DEF ServerInv

\* An entry is stored, and the oldest leaves when there are too many.
LEMMA PutGoesOn ==
    ASSUME ServerInv, NEW class \in Classes, NEW requests \in SUBSET Nat, Put(class, requests)
    PROVE  ServerInv' /\ Onward /\ nextCursor' = nextCursor + 1 /\ session' = session
PROOF
<1> DEFINE own == IF class \in Requests THEN {nextCursor'} ELSE {}
           of == requests \cup own
           new == [cursor |-> nextCursor', class |-> class, of |-> of]
           all == Append(stored, new)
           n == Len(stored)
<1>1. nextCursor' = nextCursor + 1 /\ session' = session /\ nextCursor \in Nat
  BY DEF Put, ServerInv
<1>2. /\ stored \in Seq(Entries) /\ n \in Nat /\ new \in Entries /\ n <= nextCursor
      /\ \A i \in 1..n : stored[i] \in Entries /\ stored[i].cursor = (nextCursor - n) + i
      /\ \A i \in 1..n : OfItself(stored[i])
  <2>1. stored \in Seq(Entries) /\ n \in Nat /\ n <= nextCursor
    BY DEF ServerInv
  <2>2. new \in Entries
    <3>1. of \in SUBSET Nat /\ nextCursor' \in Nat
      BY <1>1
    <3> HIDE DEF of
    <3> QED BY <3>1 DEF Entries
  <2>3. \A i \in 1..n : stored[i] \in Entries
    BY <2>1, ElementOfSeq
  <2>4. /\ \A i \in 1..n : stored[i].cursor = (nextCursor - n) + i
        /\ \A i \in 1..n : OfItself(stored[i])
    BY DEF ServerInv
  <2> QED BY <2>1, <2>2, <2>3, <2>4
<1>3. stored' = IF Len(all) > MaxEvents THEN Tail(all) ELSE all
  BY DEF Put
<1>4. new.cursor = nextCursor' /\ OfItself(new)
  BY DEF OfItself
<1> HIDE DEF new, n
<1>5. /\ all \in Seq(Entries) /\ Len(all) = n + 1 /\ all[n + 1] = new
      /\ \A i \in 1..n : all[i] = stored[i]
  BY <1>2, AppendProperties DEF n
<1> HIDE DEF all
<1>6. \A i \in 1..(n + 1) : all[i].cursor = (nextCursor' - (n + 1)) + i
  <2> SUFFICES ASSUME NEW i \in 1..(n + 1)
               PROVE  all[i].cursor = (nextCursor' - (n + 1)) + i
    OBVIOUS
  <2>1. CASE i \in 1..n
    <3>1. all[i].cursor = (nextCursor - n) + i
      BY <1>2, <1>5, <2>1
    <3> QED BY <1>1, <1>2, <2>1, <3>1
  <2>2. CASE i = n + 1
    BY <1>1, <1>2, <1>4, <1>5, <2>2
  <2> QED BY <1>2, <2>1, <2>2
<1>12. \A i \in 1..(n + 1) : OfItself(all[i])
  BY <1>2, <1>4, <1>5
<1>7. /\ stored' \in Seq(Entries)
      /\ \/ Len(stored') = n + 1 /\ \A i \in 1..(n + 1) : stored'[i] = all[i]
         \/ Len(stored') = n /\ \A i \in 1..n : stored'[i] = all[i + 1]
  <2>1. CASE Len(all) > MaxEvents
    <3>1. all # <<>>
      BY <1>2, <1>5, EmptySeq
    <3>2. /\ Tail(all) \in Seq(Entries) /\ Len(Tail(all)) = Len(all) - 1
          /\ \A i \in 1..Len(Tail(all)) : Tail(all)[i] = all[i + 1]
      BY <1>5, <3>1, HeadTailProperties
    <3>3. stored' = Tail(all)
      BY <1>3, <2>1
    <3>4. Len(stored') = n
      BY <1>2, <1>5, <3>2, <3>3
    <3> QED BY <3>2, <3>3, <3>4
  <2>2. CASE ~(Len(all) > MaxEvents)
    BY <1>3, <1>5, <2>2
  <2> QED BY <2>1, <2>2
<1>8. ServerInv'
  <2>1. CASE Len(stored') = n + 1 /\ \A i \in 1..(n + 1) : stored'[i] = all[i]
    <3>1. \A i \in 1..Len(stored') : stored'[i].cursor = (nextCursor' - Len(stored')) + i
      BY <1>6, <2>1
    <3>2. Len(stored') <= nextCursor' /\ nextCursor' \in Nat /\ session' \in Nat
      BY <1>1, <1>2, <2>1 DEF ServerInv
    <3>3. \A i \in 1..Len(stored') : OfItself(stored'[i])
      BY <1>12, <2>1
    <3> QED BY <1>7, <3>1, <3>2, <3>3 DEF ServerInv
  <2>2. CASE Len(stored') = n /\ \A i \in 1..n : stored'[i] = all[i + 1]
    <3>1. \A i \in 1..n : stored'[i].cursor = (nextCursor' - n) + i
      <4> SUFFICES ASSUME NEW i \in 1..n PROVE stored'[i].cursor = (nextCursor' - n) + i
        OBVIOUS
      <4>1. i + 1 \in 1..(n + 1) /\ stored'[i] = all[i + 1]
        BY <1>2, <2>2
      <4>2. all[i + 1].cursor = (nextCursor' - (n + 1)) + (i + 1)
        BY <1>6, <4>1
      <4> QED BY <1>1, <1>2, <4>1, <4>2
    <3>2. Len(stored') <= nextCursor' /\ nextCursor' \in Nat /\ session' \in Nat
      BY <1>1, <1>2, <2>2 DEF ServerInv
    <3>3. \A i \in 1..n : OfItself(stored'[i])
      <4> SUFFICES ASSUME NEW i \in 1..n PROVE OfItself(stored'[i])
        OBVIOUS
      <4>1. i + 1 \in 1..(n + 1) /\ stored'[i] = all[i + 1]
        BY <1>2, <2>2
      <4> QED BY <1>12, <4>1
    <3> QED BY <1>7, <2>2, <3>1, <3>2, <3>3 DEF ServerInv
  <2> QED BY <1>7, <2>1, <2>2
<1>9. /\ \A e : e \in ToSet(stored) <=> \E i \in 1..n : e = stored[i]
      /\ \A e : e \in ToSet(stored') <=> \E i \in 1..Len(stored') : e = stored'[i]
  <2>1. DOMAIN stored = 1..n /\ DOMAIN stored' = 1..Len(stored')
    BY <1>2, <1>7 DEF n
  <2> QED BY <2>1 DEF ToSet
<1>10. ASSUME NEW e \in ToSet(stored') PROVE e \in ToSet(stored) \/ e.cursor > nextCursor
  <2>1. PICK i \in 1..(n + 1) : e = all[i]
    <3>1. PICK j \in 1..Len(stored') : e = stored'[j]
      BY <1>9, <1>10
    <3>2. j \in 1..(n + 1) /\ (Len(stored') = n => j + 1 \in 1..(n + 1))
      BY <1>2, <1>7, <3>1
    <3> QED BY <1>2, <1>7, <3>1, <3>2
  <2>2. CASE i \in 1..n
    BY <1>5, <1>9, <2>1, <2>2
  <2>3. CASE i = n + 1
    BY <1>1, <1>4, <1>5, <2>1, <2>3
  <2> QED BY <1>2, <2>2, <2>3
<1>11. ASSUME NEW e \in ToSet(stored)
       PROVE  e \in ToSet(stored') \/ \A d \in ToSet(stored') : e.cursor < d.cursor
  <2>1. PICK i \in 1..n : e = stored[i]
    BY <1>9
  <2>2. i \in 1..(n + 1) /\ e = all[i]
    BY <1>2, <1>5, <2>1
  <2>3. CASE Len(stored') = n + 1 /\ \A j \in 1..(n + 1) : stored'[j] = all[j]
    BY <1>9, <2>2, <2>3
  <2>4. CASE Len(stored') = n /\ \A j \in 1..n : stored'[j] = all[j + 1]
    <3>1. CASE i = 1
      <4>1. ASSUME NEW d \in ToSet(stored') PROVE e.cursor < d.cursor
        <5>1. PICK j \in 1..n : d = all[j + 1]
          BY <1>9, <2>4
        <5>2. j + 1 \in 1..(n + 1)
          BY <1>2
        <5> QED BY <1>1, <1>2, <1>6, <2>2, <3>1, <5>1, <5>2
      <4> QED BY <4>1
    <3>2. CASE i # 1
      <4>1. i - 1 \in 1..n /\ (i - 1) + 1 = i
        BY <1>2, <3>2
      <4> QED BY <1>9, <2>2, <2>4, <4>1
    <3> QED BY <3>1, <3>2
  <2> QED BY <1>7, <2>3, <2>4
<1> QED BY <1>1, <1>8, <1>10, <1>11 DEF Onward

\* The store is emptied.
Emptied == stored' = <<>>

\* It is then as good a store as before, and goes on if the numbering does.
LEMMA EmptiesIt ==
    ASSUME ServerInv, Emptied, nextCursor' \in Nat, session' \in Nat
    PROVE  ServerInv' /\ ToSet(stored') = {} /\ (nextCursor <= nextCursor' => Onward)
PROOF
<1> DEFINE none == <<>>
<1>1. none \in Seq(Entries) /\ Len(none) = 0 /\ 1..0 = {} /\ DOMAIN none = {}
  OBVIOUS
<1>2. stored' = none
  BY DEF Emptied
<1> HIDE DEF none
<1>3. ToSet(stored') = {}
  BY <1>1, <1>2 DEF ToSet
<1>4. ServerInv'
  BY <1>1, <1>2 DEF ServerInv
<1> QED BY <1>3, <1>4 DEF Onward

\* A clear empties the store and takes a cursor.
LEMMA ClearGoesOn ==
    ASSUME ServerInv, ClearEvents
    PROVE  ServerInv' /\ Onward /\ nextCursor' = nextCursor + 1 /\ session' = session
           /\ ToSet(stored') = {}
PROOF
<1>1. Emptied /\ nextCursor' = nextCursor + 1 /\ session' = session
  BY DEF ClearEvents, Emptied
<1>2. nextCursor' \in Nat /\ session' \in Nat /\ nextCursor <= nextCursor'
  BY <1>1 DEF ServerInv
<1> QED BY <1>1, <1>2, EmptiesIt

\* A restart keeps the entries and the numbering, or loses both.
LEMMA RestartGoesOn ==
    ASSUME ServerInv, Restart
    PROVE  /\ ServerInv' /\ session' = session + 1
           /\ \/ Onward /\ nextCursor' = nextCursor /\ stored' = stored
              \/ nextCursor' = 0 /\ ToSet(stored') = {} /\ Emptied
PROOF
<1>1. session' = session + 1 /\ session' \in Nat
  BY DEF Restart, ServerInv
<1>2. CASE UNCHANGED <<stored, nextCursor>>
  BY <1>1, <1>2 DEF ServerInv, Onward
<1>3. CASE Emptied /\ nextCursor' = 0
  BY <1>1, <1>3, EmptiesIt
<1> QED BY <1>1, <1>2, <1>3 DEF Restart, Emptied

\* What is used of the cursors, now and in the next state.
CursorsCounted ==
    /\ StoredCursors = {e.cursor : e \in ToSet(stored)}
    /\ \A e \in ToSet(stored) : e.cursor \in 1..nextCursor
    /\ nextCursor \in Nat

\* They are so while the server is what it is ...
LEMMA CursorsNow == ServerInv => CursorsCounted
PROOF
<1> SUFFICES ASSUME ServerInv PROVE CursorsCounted
  OBVIOUS
<1>1. nextCursor \in Nat
  BY DEF ServerInv
<1>2. StoredCursors = {e.cursor : e \in ToSet(stored)}
  BY StoredEntries
<1>3. \A e \in ToSet(stored) : e.cursor \in StoredCursors
  BY <1>2
<1>4. StoredCursors \subseteq 1..nextCursor
  BY StoredEntries
<1> QED BY <1>1, <1>2, <1>3, <1>4 DEF CursorsCounted

\* ... and after a step.
LEMMA CursorsNext == ServerInv' => CursorsCounted'
PROOF
BY CursorsNow, PTL

-----------------------------------------------------------------------------
(* The callers of the Go client.                                           *)

\* A call that is under way.
Under == {"ask", "sent", "lock", "login"}

\* The calls of all callers.
Calls ==
    [at : Under, retryAuth : BOOLEAN, cookie : Int, after : Nat, cursor : Nat,
     target : Nat, stage : 1..3, events : SUBSET Nat, hasMore : BOOLEAN, listed : Nat,
     skipped : BOOLEAN, began : Nat]

\* How a call fails.
Failures == [at : {"failed"}, began : Nat,
             error : {"not found", "unauthorized", "blocked", "cancelled"}]

\* The client knows no session that the server has not begun, and a call that is
\* tried again knows one as new as the call.
KnowsSession(k) ==
    /\ k.began <= session
    /\ k.at = "ask" /\ ~k.retryAuth => k.began <= jar
    /\ k.at = "sent" => /\ k.cookie <= session
                        /\ ~k.retryAuth => k.began <= k.cookie

\* A wait has left no match behind among those it has seen.
NoneBetween(k) ==
    \A e \in ToSet(stored) : e.class = "exact" /\ e.cursor > k.after => e.cursor > k.cursor

\* A wait goes on from what it has seen, or has skipped some.
WaitsOn(k) ==
    /\ k.after <= k.cursor
    /\ ~k.skipped => k.cursor <= nextCursor /\ NoneBetween(k)

\* A request is one of its own entries.
Known(target) == \A e \in ToSet(stored) : e.cursor = target => target \in e.of

\* What the list left out of what there was is older than all it has.
HoldsFamily(k) ==
    \A m \in Family(k.target) :
       m <= k.listed /\ m \notin k.events => k.hasMore /\ \A d \in k.events : m < d

\* A report that has its list holds the newest of the request while the store holds
\* the request itself.
Reports(k) ==
    /\ k.target <= nextCursor /\ Known(k.target)
    /\ k.stage = 3 /\ k.target \in StoredCursors =>
          k.target <= k.listed /\ k.listed <= nextCursor /\ HoldsFamily(k)

\* The call of a caller.
CallGood(c, k) ==
    \/ k \in {Idle, Returned}
    \/ k \in Failures /\ (k.error = "unauthorized" => k.began < session)
    \/ /\ k \in Calls /\ KnowsSession(k)
       /\ c \in Waiters => WaitsOn(k)
       /\ c \in Inspectors => Reports(k)

\* The inductive invariant of the callers.  ReauthSucceeds is about calls that
\* failed; that none fails without a restart rests on what the client knows of the
\* session while a call is under way.
ClientInv ==
    /\ ServerInv
    /\ jar \in Int /\ jar <= session
    /\ DOMAIN call = Callers
    /\ \A c \in Callers : CallGood(c, call[c])

\* Nobody has called.
LEMMA ClientStarts == Init => ClientInv
PROOF
<1> SUFFICES ASSUME Init PROVE ClientInv
  OBVIOUS
<1>1. ServerInv /\ session = 0
  BY ServerStarts DEF Init, ClientInit, ServerInit
<1>2. jar = -1 /\ call = [c \in Callers |-> Idle]
  BY DEF Init, ClientInit, NoCookie
<1> QED BY <1>1, <1>2 DEF ClientInv, CallGood

\* What a call under way says.
LEMMA RunningCalls ==
    ASSUME NEW c, NEW k, CallGood(c, k), k.at \in Under
    PROVE  /\ k \in Calls /\ KnowsSession(k)
           /\ c \in Waiters => WaitsOn(k)
           /\ c \in Inspectors => Reports(k)
PROOF
<1>1. k.at \notin {"idle", "ended", "failed"}
  BY DEF Under
<1>2. k \notin {Idle, Returned}
  BY <1>1 DEF Idle, Returned
<1>3. k \notin Failures
  BY <1>1 DEF Failures
<1> QED BY <1>2, <1>3 DEF CallGood

\* One caller moves; the server and the cookie stay.
LEMMA CallerMoves ==
    ASSUME ClientInv, NEW c \in Callers, NEW k, CallGood(c, k),
           call' = [call EXCEPT ![c] = k], UNCHANGED <<serverVars, jar>>
    PROVE  ClientInv'
PROOF
<1>1. /\ stored' = stored /\ nextCursor' = nextCursor /\ session' = session /\ jar' = jar
  BY DEF serverVars
<1>2. \A d \in Callers : CallGood(d, call'[d])
  BY DEF ClientInv
<1>3. \A d \in Callers : CallGood(d, call[d])'
  BY <1>1, <1>2 DEF CallGood, KnowsSession, WaitsOn, NoneBetween, Reports, HoldsFamily, Known, Family,
                    StoredCursors, CursorsOf
<1>4. ServerInv'
  BY <1>1 DEF ClientInv, ServerInv
<1> QED BY <1>1, <1>3, <1>4 DEF ClientInv

\* A call fails.
LEMMA FailsWell ==
    ASSUME NEW c, NEW k \in Calls, KnowsSession(k),
           NEW error \in {"not found", "unauthorized", "blocked", "cancelled"},
           error = "unauthorized" => k.began < session
    PROVE  CallGood(c, Failed(k, error))
PROOF
<1> DEFINE h == Failed(k, error)
<1>1. k.began \in Nat
  BY DEF Calls
<1>2. h \in Failures /\ h.error = error /\ h.began = k.began
  BY <1>1 DEF Failed, Failures
<1> HIDE DEF h
<1>3. CallGood(c, h)
  BY <1>2 DEF CallGood
<1> QED BY <1>3 DEF h

\* What a step within one call leaves alone.
SameTask(h, k) ==
    /\ h.after = k.after /\ h.cursor = k.cursor /\ h.target = k.target /\ h.stage = k.stage
    /\ h.events = k.events /\ h.hasMore = k.hasMore /\ h.listed = k.listed
    /\ h.skipped = k.skipped

\* Such a step needs only what the client knows of the session.
LEMMA TaskGoesOn ==
    ASSUME NEW c, NEW k, NEW h \in Calls, KnowsSession(h), SameTask(h, k),
           c \in Waiters => WaitsOn(k), c \in Inspectors => Reports(k)
    PROVE  CallGood(c, h)
PROOF
BY DEF CallGood, SameTask, WaitsOn, NoneBetween, Reports, HoldsFamily, Known, Family

\* The next call of an operation knows nothing of the session.
LEMMA NextCallWith ==
    ASSUME NEW k \in Calls, ClientInv
    PROVE  /\ NextCall(k) \in Calls /\ SameTask(NextCall(k), k) /\ KnowsSession(NextCall(k))
PROOF
<1> DEFINE h == NextCall(k)
<1>1. NoCookie \in Int /\ session \in Nat
  BY DEF NoCookie, ClientInv, ServerInv
<1>2. h \in Calls
  BY <1>1 DEF NextCall, Calls, Under
<1>3. SameTask(h, k)
  BY DEF NextCall, Calls, SameTask
<1>4. h.at = "ask" /\ h.retryAuth = TRUE /\ h.began = session
  BY DEF NextCall, Calls
<1>5. KnowsSession(h)
  <2> HIDE DEF h
  <2> QED BY <1>1, <1>4 DEF KnowsSession
<1> QED BY <1>2, <1>3, <1>5

\* No entry has the cursor 0, and no two have the same.
LEMMA NoneIsKnown == ClientInv => Known(0)
PROOF
BY CursorsNow DEF ClientInv, CursorsCounted, Known

LEMMA RequestsAreKnown ==
    ASSUME ServerInv, NEW e \in ToSet(stored), e.class \in Requests
    PROVE  Known(e.cursor)
PROOF
<1>1. DOMAIN stored = 1..Len(stored) /\ Len(stored) \in Nat /\ nextCursor \in Nat
  BY DEF ServerInv
<1>2. \A i \in 1..Len(stored) : /\ stored[i].cursor = (nextCursor - Len(stored)) + i
                                /\ OfItself(stored[i])
  BY DEF ServerInv
<1>3. PICK i \in 1..Len(stored) : e = stored[i]
  BY <1>1 DEF ToSet
<1>4. ASSUME NEW d \in ToSet(stored), d.cursor = e.cursor PROVE d = e
  <2>1. PICK j \in 1..Len(stored) : d = stored[j]
    BY <1>1 DEF ToSet
  <2>2. i = j
    BY <1>1, <1>2, <1>3, <1>4, <2>1
  <2> QED BY <1>3, <2>1, <2>2
<1>5. e.cursor \in e.of
  BY <1>2, <1>3 DEF OfItself
<1> QED BY <1>4, <1>5 DEF Known

\* An operation begins.
LEMMA BeginsWell ==
    ASSUME ClientInv, NEW c \in Callers, NEW after \in Nat, NEW target \in Nat,
           after <= nextCursor, target <= nextCursor, Known(target)
    PROVE  CallGood(c, NewCall(after, target))
PROOF
<1> DEFINE h == NewCall(after, target)
<1>1. session \in Nat /\ NoCookie \in Int
  BY DEF ClientInv, ServerInv, NoCookie
<1>2. h \in Calls
  BY <1>1 DEF NewCall, Calls, Under
<1>3. /\ h.at = "ask" /\ h.retryAuth = TRUE /\ h.began = session
      /\ h.after = after /\ h.cursor = after /\ h.target = target /\ h.stage = 1
  BY DEF NewCall
<1> HIDE DEF h
<1>4. KnowsSession(h)
  BY <1>1, <1>3 DEF KnowsSession
<1>5. WaitsOn(h)
  BY <1>3 DEF WaitsOn, NoneBetween
<1>6. Reports(h)
  BY <1>3 DEF Reports
<1>7. CallGood(c, h)
  BY <1>2, <1>4, <1>5, <1>6 DEF CallGood
<1> QED BY <1>7 DEF h

\* The first match of a page whose cursors grow is its least.
LEMMA FirstMatchOf ==
    ASSUME NEW f \in Seq(Entries), \A i \in 1..Len(f) : f[i].cursor > 0,
           \A i, j \in 1..Len(f) : i < j => f[i].cursor < f[j].cursor
    PROVE  /\ FirstMatch(f) \in Nat
           /\ FirstMatch(f) = 0 => \A i \in 1..Len(f) : f[i].class # "exact"
           /\ FirstMatch(f) # 0 =>
                /\ \E i \in 1..Len(f) : f[i].class = "exact" /\ FirstMatch(f) = f[i].cursor
                /\ \A i \in 1..Len(f) : f[i].class = "exact" => FirstMatch(f) <= f[i].cursor
PROOF
<1> DEFINE matching == {i \in DOMAIN f : f[i].class = "exact"}
           first == Min(matching)
<1>1. FirstMatch(f) = IF matching = {} THEN 0 ELSE f[first].cursor
  BY DEF FirstMatch
<1>2. DOMAIN f = 1..Len(f) /\ \A i \in 1..Len(f) : f[i] \in Entries
  BY ElementOfSeq
<1>3. matching \in SUBSET Nat /\ matching \subseteq 1..Len(f)
  BY <1>2
<1>4. matching # {} => first \in matching /\ \A x \in matching : first <= x
  BY <1>3, LeastOf
<1>5. \A i \in 1..Len(f) : f[i].class = "exact" <=> i \in matching
  BY <1>2
<1>6. \A i \in 1..Len(f) : f[i].cursor \in Nat
  BY <1>2 DEF Entries
<1> HIDE DEF matching, first
<1>7. CASE matching = {}
  BY <1>1, <1>5, <1>7
<1>8. CASE matching # {}
  <2>1. first \in 1..Len(f) /\ first \in matching /\ FirstMatch(f) = f[first].cursor
    BY <1>1, <1>3, <1>4, <1>8
  <2>2. ASSUME NEW i \in 1..Len(f), f[i].class = "exact" PROVE FirstMatch(f) <= f[i].cursor
    <3>1. first <= i
      BY <1>4, <1>5, <1>8, <2>2
    <3>2. first < i \/ first = i
      BY <2>1, <3>1
    <3> QED BY <1>6, <2>1, <3>2
  <2>3. FirstMatch(f) > 0 /\ FirstMatch(f) \in Nat
    BY <1>6, <2>1
  <2> QED BY <1>5, <2>1, <2>2, <2>3
<1> QED BY <1>7, <1>8

\* The matches that a wait may return.
Fresh(k) == {e \in ToSet(stored) : e.class = "exact" /\ e.cursor > k.after}

\* A page is digested: the wait goes on past the whole page, or returns the least
\* match in the store.
LEMMA DigestGoesOn ==
    ASSUME ServerInv, NEW k \in Calls, WaitsOn(k), KnowsSession(k), NEW h, h = Digest(k)
    PROVE  /\ h \in Calls /\ KnowsSession(h)
           /\ h.target = 0 => WaitsOn(h)
           /\ h.target # 0 => /\ \E e \in Fresh(k) : h.target = e.cursor
                              /\ h.skipped \/ \A e \in Fresh(k) : h.target <= e.cursor
PROOF
<1> DEFINE page == ListEvents(Matching, k.cursor, 0, WaitLimit)
           f == page.events
           n == nextCursor + k.cursor
           S == CursorsOf(page.events) \cup {k.cursor}
<1>1. k.cursor \in Nat /\ k.after \in Nat /\ k.after <= k.cursor /\ k.skipped \in BOOLEAN
  BY DEF Calls, WaitsOn
<1>2. nextCursor \in Nat /\ WaitLimit \in Int /\ n \in Nat
  BY <1>1, ClientAssumption DEF ServerInv
<1>3. /\ f \in Seq(Entries) /\ page.hasMore \in BOOLEAN
      /\ \A i \in 1..Len(f) : f[i] \in Wanted(Matching, k.cursor, 0)
      /\ \A i, j \in 1..Len(f) : i < j => f[i].cursor < f[j].cursor
      /\ \A e \in Wanted(Matching, k.cursor, 0) :
            (\E i \in 1..Len(f) : f[i] = e) \/ page.hasMore
  <2> HIDE DEF page
  <2>1. page = ListEvents(Matching, k.cursor, 0, WaitLimit)
    BY DEF page
  <2> QED BY <1>2, <2>1, PageIsNewest
<1>4. \A e \in ToSet(stored) : e \in Entries /\ e.cursor \in 1..nextCursor
  BY StoredEntries
<1>5. \A e : e \in Wanted(Matching, k.cursor, 0) <=>
             /\ e \in ToSet(stored) /\ (k.cursor > 0 => e.cursor > k.cursor)
             /\ e.class \in Requests
  BY DEF Wanted, Eligible, Accepts, Matching
<1>6. /\ h.at = k.at /\ h.retryAuth = k.retryAuth /\ h.cookie = k.cookie /\ h.after = k.after
      /\ h.stage = k.stage /\ h.events = k.events /\ h.hasMore = k.hasMore /\ h.began = k.began
      /\ h.skipped = (k.skipped \/ page.hasMore)
      /\ h.cursor = Max(S) /\ h.target = FirstMatch(f)
      /\ h = [k EXCEPT !.skipped = k.skipped \/ page.hasMore, !.cursor = Max(S),
                       !.target = FirstMatch(f)]
  BY DEF Digest, Calls
<1> HIDE DEF page
<1>7. S = {f[i].cursor : i \in 1..Len(f)} \cup {k.cursor}
  BY <1>3 DEF CursorsOf
<1>8. \A i \in 1..Len(f) : f[i].cursor \in 1..nextCursor /\ f[i] \in ToSet(stored)
  BY <1>3, <1>4, <1>5
<1>9. S \in SUBSET (0..n) /\ k.cursor \in S
  <2>1. k.cursor \in 0..n
    BY <1>1, <1>2
  <2>2. \A c \in 1..nextCursor : c \in 0..n
    BY <1>1, <1>2
  <2> HIDE DEF n, f, S
  <2> QED BY <1>7, <1>8, <2>1, <2>2
<1>10. Max(S) \in S /\ \A x \in S : x <= Max(S)
  BY <1>2, <1>9, GreatestOf
<1>11. Max(S) \in Nat /\ k.cursor <= Max(S) /\ Max(S) <= n
       /\ (k.cursor <= nextCursor => Max(S) <= nextCursor)
  <2> DEFINE greatest == Max(S)
  <2>1. greatest \in S /\ k.cursor <= greatest
    BY <1>9, <1>10
  <2> HIDE DEF greatest
  <2>2. greatest = k.cursor \/ greatest \in 1..nextCursor
    BY <1>7, <1>8, <2>1
  <2> QED BY <1>1, <1>2, <2>1, <2>2 DEF greatest
<1> DEFINE t == FirstMatch(f)
           top == Max(S)
<1>12. /\ t \in Nat
       /\ t = 0 => \A i \in 1..Len(f) : f[i].class # "exact"
       /\ t # 0 => /\ \E i \in 1..Len(f) : f[i].class = "exact" /\ t = f[i].cursor
                   /\ \A i \in 1..Len(f) : f[i].class = "exact" => t <= f[i].cursor
  <2> HIDE DEF f
  <2>1. \A i \in 1..Len(f) : f[i].cursor > 0
    BY <1>2, <1>8
  <2> QED BY <1>3, <2>1, FirstMatchOf
<1> HIDE DEF t, top
<1>13. h \in Calls
  <2>1. h = [k EXCEPT !.skipped = k.skipped \/ page.hasMore, !.cursor = top, !.target = t]
    BY <1>6 DEF t, top
  <2>2. top \in Nat /\ t \in Nat
    BY <1>11, <1>12 DEF top
  <2> QED BY <1>1, <1>3, <2>1, <2>2 DEF Calls
<1>14. KnowsSession(h)
  BY <1>6 DEF KnowsSession
<1>15. ASSUME NEW e \in Fresh(k), ~h.skipped
       PROVE  \E i \in 1..Len(f) : f[i] = e
  <2>1. ~k.skipped /\ ~page.hasMore
    BY <1>6, <1>15
  <2>2. e \in ToSet(stored) /\ e.class = "exact" /\ e.cursor > k.after
    BY DEF Fresh
  <2>3. e.cursor > k.cursor
    BY <2>1, <2>2 DEF WaitsOn, NoneBetween
  <2>4. e \in Wanted(Matching, k.cursor, 0)
    BY <1>5, <2>2, <2>3 DEF Requests
  <2> QED BY <1>3, <2>1, <2>4
<1>16. ASSUME h.target = 0 PROVE WaitsOn(h)
  <2>1. h.after <= h.cursor
    BY <1>1, <1>6, <1>11
  <2>2. ASSUME ~h.skipped PROVE h.cursor <= nextCursor
    BY <1>6, <1>11, <2>2 DEF WaitsOn
  <2>3. ASSUME ~h.skipped, NEW e \in Fresh(k) PROVE FALSE
    <3>1. PICK i \in 1..Len(f) : f[i] = e
      BY <1>15, <2>3
    <3>2. e.class = "exact"
      BY <2>3 DEF Fresh
    <3> QED BY <1>6, <1>12, <1>16, <3>1, <3>2 DEF t
  <2>4. ~h.skipped => NoneBetween(h)
    BY <1>6, <2>3 DEF NoneBetween, Fresh
  <2> QED BY <2>1, <2>2, <2>4 DEF WaitsOn
<1>17. ASSUME h.target # 0
       PROVE  /\ \E e \in Fresh(k) : h.target = e.cursor
              /\ h.skipped \/ \A e \in Fresh(k) : h.target <= e.cursor
  <2>1. t # 0 /\ h.target = t
    BY <1>6, <1>17 DEF t
  <2>2. PICK i \in 1..Len(f) : f[i].class = "exact" /\ t = f[i].cursor
    BY <1>12, <2>1
  <2>3. f[i] \in ToSet(stored) /\ f[i].cursor \in 1..nextCursor
    BY <1>8
  <2>4. k.cursor > 0 => f[i].cursor > k.cursor
    BY <1>3, <1>5
  <2>5. f[i].cursor > k.after
    BY <1>1, <1>2, <2>3, <2>4
  <2>6. f[i] \in Fresh(k)
    BY <2>2, <2>3, <2>5 DEF Fresh
  <2>7. ASSUME ~h.skipped, NEW e \in Fresh(k) PROVE h.target <= e.cursor
    <3>1. PICK j \in 1..Len(f) : f[j] = e
      BY <1>15, <2>7
    <3>2. e.class = "exact"
      BY DEF Fresh
    <3> QED BY <1>12, <2>1, <3>1, <3>2
  <2> QED BY <2>1, <2>2, <2>6, <2>7
<1> QED BY <1>13, <1>14, <1>16, <1>17

\* The list of a report.
FamilyPage(target) == ListEvents(Related(target), 0, 0, InspectLimit)

\* What it leaves out of the request is older than all it has.
LEMMA PageHoldsFamily ==
    ASSUME ServerInv, NEW target, NEW page, page = FamilyPage(target),
           NEW m \in Family(target), m \notin CursorsOf(page.events)
    PROVE  page.hasMore /\ \A d \in CursorsOf(page.events) : m < d
PROOF
<1> DEFINE f == page.events
           W == Wanted(Related(target), 0, 0)
<1>1. /\ f \in Seq(Entries)
      /\ \A e \in W : \/ \E i \in 1..Len(f) : f[i] = e
                      \/ /\ page.hasMore
                         /\ \A i \in 1..Len(f) : e.cursor < f[i].cursor
  <2>1. InspectLimit \in Int
    BY ClientAssumption
  <2> QED BY <2>1, PageIsNewest DEF FamilyPage
<1>2. \A e : e \in W <=> e \in ToSet(stored) /\ target \in e.of
  BY DEF Wanted, Eligible, Accepts, Related
<1>3. CursorsOf(f) = {f[i].cursor : i \in 1..Len(f)}
  BY <1>1 DEF CursorsOf
<1>4. PICK e \in ToSet(stored) : target \in e.of /\ e.cursor = m
  BY DEF Family
<1>5. ~\E i \in 1..Len(f) : f[i] = e
  BY <1>3, <1>4
<1> QED BY <1>1, <1>2, <1>3, <1>4, <1>5

\* An answer to InspectRequest.
LEMMA InspectionGoesOn ==
    ASSUME ClientInv, NEW c \in Inspectors, NEW k \in Calls, KnowsSession(k), Reports(k)
    PROVE  CallGood(c, AfterInspectCall(k))
PROOF
<1>1. k.stage \in 1..3 /\ k.target \in Nat /\ k.events \in SUBSET Nat /\ k.hasMore \in BOOLEAN
  BY DEF Calls
<1>2. ServerInv /\ c \notin Waiters
  BY ClientAssumption DEF ClientInv
<1>3. InspectCalls[1] = "event" /\ InspectCalls[2] = "list" /\ InspectCalls[3] = "analysis"
      /\ Len(InspectCalls) = 3
  BY DEF InspectCalls
<1>4. CASE InspectCalls[k.stage] # "list" /\ k.target \notin StoredCursors
  BY <1>4, FailsWell DEF AfterInspectCall
<1>5. CASE /\ ~(InspectCalls[k.stage] # "list" /\ k.target \notin StoredCursors)
           /\ k.stage = Len(InspectCalls)
  BY <1>5 DEF AfterInspectCall, CallGood
<1>6. CASE /\ ~(InspectCalls[k.stage] # "list" /\ k.target \notin StoredCursors)
           /\ k.stage # Len(InspectCalls)
  <2> DEFINE h == [Report(k) EXCEPT !.stage = @ + 1]
  <2>1. AfterInspectCall(k) = NextCall(h)
    BY <1>6 DEF AfterInspectCall
  <2>2. h \in Calls /\ Reports(h)
    <3>1. CASE k.stage = 1
      <4>1. h = [k EXCEPT !.stage = 2]
        BY <1>3, <3>1 DEF Report, Calls
      <4> QED BY <4>1 DEF Calls, Reports
    <3>2. CASE k.stage = 2
      <4> DEFINE page == FamilyPage(k.target)
                 events == CursorsOf(page.events)
                 more == page.hasMore
      <4>1. h = [k EXCEPT !.events = events, !.hasMore = more, !.listed = nextCursor,
                          !.stage = 3]
        <5>1. Report(k) = [k EXCEPT !.events = events, !.hasMore = more, !.listed = nextCursor]
          BY <1>3, <3>2 DEF Report, FamilyPage
        <5> HIDE DEF events, more
        <5>2. h = [[k EXCEPT !.events = events, !.hasMore = more, !.listed = nextCursor]
                     EXCEPT !.stage = @ + 1]
          BY <5>1
        <5>3. k.stage + 1 = 3
          BY <3>2
        <5> HIDE DEF h
        <5> QED BY <5>2, <5>3 DEF Calls
      <4>2. more \in BOOLEAN /\ events \in SUBSET Nat
        <5> DEFINE f == page.events
                   W == Wanted(Related(k.target), 0, 0)
        <5>1. /\ f \in Seq(Entries) /\ more \in BOOLEAN
              /\ \A i \in 1..Len(f) : f[i] \in W
          <6>1. InspectLimit \in Int
            BY ClientAssumption
          <6> QED BY <1>2, <6>1, PageIsNewest DEF FamilyPage
        <5>2. \A i \in 1..Len(f) : f[i] \in Entries
          BY <1>2, <5>1, StoredEntries DEF Wanted
        <5>3. events = {f[i].cursor : i \in 1..Len(f)}
          BY <5>1 DEF CursorsOf
        <5>4. ASSUME NEW x \in events PROVE x \in Nat
          <6> HIDE DEF events, f
          <6>1. PICK i \in 1..Len(f) : x = f[i].cursor
            BY <5>3
          <6>2. f[i] \in Entries
            BY <5>2
          <6> QED BY <6>1, <6>2 DEF Entries
        <5> HIDE DEF events
        <5> QED BY <5>1, <5>4
      <4>3. ASSUME NEW m \in Family(k.target), m \notin events
            PROVE  more /\ \A d \in events : m < d
        <5> HIDE DEF page
        <5>1. page = FamilyPage(k.target)
          BY DEF page
        <5> QED BY <1>2, <4>3, <5>1, PageHoldsFamily
      <4>4. k.target <= nextCursor /\ Known(k.target) /\ nextCursor \in Nat
        BY <1>2 DEF Reports, ServerInv
      <4> HIDE DEF page, events, more
      <4>5. h \in Calls
        <5> HIDE DEF h
        <5>1. 3 \in 1..3
          OBVIOUS
        <5> QED BY <4>1, <4>2, <4>4, <5>1 DEF Calls
      <4>6. h.target = k.target /\ h.events = events /\ h.hasMore = more /\ h.listed = nextCursor
        BY <4>1 DEF Calls
      <4> HIDE DEF h
      <4> QED BY <4>3, <4>4, <4>5, <4>6 DEF Reports, HoldsFamily
    <3> QED BY <1>1, <1>3, <1>6, <3>1, <3>2
  <2> HIDE DEF h
  <2>3. NextCall(h) \in Calls /\ SameTask(NextCall(h), h) /\ KnowsSession(NextCall(h))
    BY <2>2, NextCallWith
  <2> QED BY <1>2, <2>1, <2>2, <2>3, TaskGoesOn
<1> QED BY <1>4, <1>5, <1>6

\* An answer to WaitForRequest.
LEMMA WaitGoesOn ==
    ASSUME ClientInv, NEW c \in Waiters, NEW k \in Calls, KnowsSession(k), WaitsOn(k)
    PROVE  CallGood(c, AfterPage(k))
PROOF
<1> DEFINE h == Digest(k)
<1>1. h \in Calls /\ KnowsSession(h) /\ (h.target = 0 => WaitsOn(h))
  <2> HIDE DEF h
  <2>1. h = Digest(k) /\ ServerInv
    BY DEF ClientInv, h
  <2> QED BY <2>1, DigestGoesOn
<1>2. AfterPage(k) = IF h.target = 0 THEN NextCall(h) ELSE Returned
  BY DEF AfterPage
<1>3. c \notin Inspectors
  BY ClientAssumption
<1> HIDE DEF h
<1>4. CASE h.target = 0
  <2>1. NextCall(h) \in Calls /\ SameTask(NextCall(h), h) /\ KnowsSession(NextCall(h))
    BY <1>1, NextCallWith
  <2> QED BY <1>1, <1>2, <1>3, <1>4, <2>1, TaskGoesOn
<1>5. CASE h.target # 0
  BY <1>2, <1>5 DEF CallGood
<1> QED BY <1>4, <1>5

\* A request of the past may go, and what belonged to it then only shrinks.
LEMMA FamilyShrinks ==
    ASSUME ServerInv, ServerInv', Onward, NEW target \in Nat, target <= nextCursor
    PROVE  /\ target \in StoredCursors' => target \in StoredCursors
           /\ Known(target) => Known(target)'
           /\ \A m \in Family(target)' : m \in Family(target) \/ m > nextCursor
PROOF
<1>1. /\ StoredCursors = {e.cursor : e \in ToSet(stored)}
      /\ nextCursor \in Nat
  BY StoredEntries DEF ServerInv
<1>2. StoredCursors' = {e.cursor : e \in ToSet(stored')}
  BY CursorsNext DEF CursorsCounted
<1>3. \A e \in ToSet(stored') : e \in ToSet(stored) \/ e.cursor > nextCursor
  BY DEF Onward
<1>4. target \in StoredCursors' => target \in StoredCursors
  BY <1>1, <1>2, <1>3
<1>5. Known(target) => Known(target)'
  BY <1>1, <1>3 DEF Known
<1>6. \A m \in Family(target)' : m \in Family(target) \/ m > nextCursor
  BY <1>3 DEF Family
<1> QED BY <1>4, <1>5, <1>6

\* The entries go on under a call that does not move.
LEMMA CallOutlasts ==
    ASSUME ServerInv, ServerInv', Onward, session <= session', session' \in Nat, jar \in Int,
           jar' \in Int, jar <= jar',
           NEW c, NEW k, CallGood(c, k)
    PROVE  CallGood(c, k)'
PROOF
<1>1. nextCursor \in Nat /\ nextCursor' \in Nat /\ nextCursor <= nextCursor' /\ session \in Nat
  BY DEF Onward, ServerInv
<1>2. CASE k \in {Idle, Returned}
  BY <1>2 DEF CallGood
<1>3. CASE k \in Failures /\ (k.error = "unauthorized" => k.began < session)
  <2>1. k.began \in Nat
    BY <1>3 DEF Failures
  <2> QED BY <1>1, <1>3, <2>1 DEF CallGood
<1>4. CASE /\ k \in Calls /\ KnowsSession(k)
           /\ c \in Waiters => WaitsOn(k)
           /\ c \in Inspectors => Reports(k)
  <2>1. /\ k.began \in Nat /\ k.cookie \in Int /\ k.cursor \in Nat /\ k.target \in Nat
        /\ k.after \in Nat
    BY <1>4 DEF Calls
  <2>2. KnowsSession(k)'
    BY <1>1, <1>4, <2>1 DEF KnowsSession
  <2>3. ASSUME WaitsOn(k) PROVE WaitsOn(k)'
    <3>1. ASSUME ~k.skipped, NEW e \in ToSet(stored'), e.class = "exact", e.cursor > k.after
          PROVE  e.cursor > k.cursor
      <4>1. e \in ToSet(stored) \/ e.cursor > nextCursor
        BY DEF Onward
      <4>2. k.cursor <= nextCursor /\ NoneBetween(k)
        BY <2>3, <3>1 DEF WaitsOn
      <4>3. e.cursor \in 1..nextCursor'
        BY CursorsNext DEF CursorsCounted
      <4> QED BY <1>1, <2>1, <3>1, <4>1, <4>2, <4>3 DEF NoneBetween
    <3>2. ~k.skipped => k.cursor <= nextCursor'
      BY <1>1, <2>1, <2>3 DEF WaitsOn
    <3> QED BY <2>3, <3>1, <3>2 DEF WaitsOn, NoneBetween
  <2>4. ASSUME Reports(k) PROVE Reports(k)'
    <3>1. k.target <= nextCursor /\ k.target <= nextCursor'
      BY <1>1, <2>1, <2>4 DEF Reports
    <3>2. /\ k.target \in StoredCursors' => k.target \in StoredCursors
          /\ Known(k.target) => Known(k.target)'
          /\ \A m \in Family(k.target)' : m \in Family(k.target) \/ m > nextCursor
      <4> DEFINE t == k.target
      <4>1. t \in Nat /\ t <= nextCursor
        BY <2>1, <3>1
      <4> HIDE DEF t
      <4>2. /\ t \in StoredCursors' => t \in StoredCursors
            /\ Known(t) => Known(t)'
            /\ \A m \in Family(t)' : m \in Family(t) \/ m > nextCursor
        BY <4>1, FamilyShrinks
      <4> QED BY <4>2 DEF t
    <3>3. k.listed \in Nat
      BY <1>4 DEF Calls
    <3>4. ASSUME k.listed <= nextCursor, HoldsFamily(k) PROVE HoldsFamily(k)'
      <4>1. \A m \in Family(k.target)' : m \in Nat
        BY CursorsNext DEF CursorsCounted, Family
      <4>2. \A m \in Family(k.target)' : m <= k.listed => m \in Family(k.target)
        BY <1>1, <3>2, <3>3, <3>4, <4>1
      <4> QED BY <3>4, <4>2 DEF HoldsFamily
    <3>5. k.listed <= nextCursor => k.listed <= nextCursor'
      BY <1>1, <3>3
    <3> QED BY <2>4, <3>1, <3>2, <3>4, <3>5 DEF Reports
  <2> QED BY <1>4, <2>2, <2>3, <2>4 DEF CallGood
<1> QED BY <1>2, <1>3, <1>4 DEF CallGood

\* A caller is in one of its states.
LEMMA CallGoodNow ==
    ASSUME ClientInv, NEW c \in Callers
    PROVE  CallGood(c, call[c])
PROOF
BY DEF ClientInv

-----------------------------------------------------------------------------
(* ... and their steps.                                                    *)

\* WaitForRequest begins from a cursor that was given.
LEMMA WaitBegins ==
    ASSUME ClientInv, NEW c \in Waiters, WaitForRequest(c)
    PROVE  ClientInv'
PROOF
<1>1. c \in Callers /\ nextCursor \in Nat
  BY DEF Callers, ClientInv, ServerInv
<1>2. PICK after \in {0, nextCursor} : call' = [call EXCEPT ![c] = NewCall(after, 0)]
  BY DEF WaitForRequest
<1>3. after \in Nat /\ after <= nextCursor /\ 0 <= nextCursor
  BY <1>1
<1>4. CallGood(c, NewCall(after, 0))
  BY <1>1, <1>3, NoneIsKnown, BeginsWell
<1> DEFINE k == NewCall(after, 0)
<1>5. CallGood(c, k) /\ call' = [call EXCEPT ![c] = k] /\ UNCHANGED <<serverVars, jar>>
  BY <1>2, <1>4 DEF WaitForRequest
<1> HIDE DEF k
<1> QED BY <1>1, <1>5, CallerMoves

\* InspectRequest begins with a request that was stored.
LEMMA InspectionBegins ==
    ASSUME ClientInv, NEW c \in Inspectors, InspectRequest(c)
    PROVE  ClientInv'
PROOF
<1>1. c \in Callers /\ nextCursor \in Nat /\ ServerInv
  BY DEF Callers, ClientInv, ServerInv
<1>2. PICK e \in ToSet(stored) : /\ e.class \in Requests
                                /\ call' = [call EXCEPT ![c] = NewCall(0, e.cursor)]
  BY DEF InspectRequest
<1>3. e.cursor \in Nat /\ e.cursor <= nextCursor /\ 0 <= nextCursor
  BY <1>1, CursorsNow DEF CursorsCounted
<1> DEFINE target == e.cursor
           k == NewCall(0, target)
<1>4. CallGood(c, k)
  <2> HIDE DEF target
  <2>1. target \in Nat /\ target <= nextCursor
    BY <1>3 DEF target
  <2>2. Known(target)
    BY <1>1, <1>2, RequestsAreKnown DEF target
  <2> QED BY <1>1, <1>3, <2>1, <2>2, BeginsWell
<1>5. call' = [call EXCEPT ![c] = k] /\ UNCHANGED <<serverVars, jar>>
  BY <1>2 DEF InspectRequest
<1> HIDE DEF k
<1> QED BY <1>1, <1>4, <1>5, CallerMoves

\* Stats is one call.
LEMMA StatsBegins ==
    ASSUME ClientInv, NEW c \in Watchers, Stats(c)
    PROVE  ClientInv'
PROOF
<1>1. c \in Callers /\ nextCursor \in Nat
  BY DEF Callers, ClientInv, ServerInv
<1> DEFINE k == NewCall(0, 0)
<1>2. CallGood(c, k)
  <2>1. 0 <= nextCursor
    BY <1>1
  <2> QED BY <1>1, <2>1, NoneIsKnown, BeginsWell
<1>3. call' = [call EXCEPT ![c] = k] /\ UNCHANGED <<serverVars, jar>>
  BY DEF Stats
<1> HIDE DEF k
<1> QED BY <1>1, <1>2, <1>3, CallerMoves

\* What a running call says.
LEMMA RunningNow ==
    ASSUME ClientInv, NEW c \in Callers, call[c].at \in Under
    PROVE  /\ call[c] \in Calls /\ KnowsSession(call[c])
           /\ c \in Waiters => WaitsOn(call[c])
           /\ c \in Inspectors => Reports(call[c])
PROOF
<1> DEFINE k == call[c]
<1>1. CallGood(c, k) /\ k.at \in Under
  BY CallGoodNow
<1> HIDE DEF k
<1>2. /\ k \in Calls /\ KnowsSession(k)
      /\ c \in Waiters => WaitsOn(k)
      /\ c \in Inspectors => Reports(k)
  BY <1>1, RunningCalls
<1> QED BY <1>2 DEF k

\* A call whose task stays goes on with what it knows of the session.
LEMMA TaskStays ==
    ASSUME ClientInv, NEW c \in Callers, call[c].at \in Under,
           NEW h \in Calls, KnowsSession(h), SameTask(h, call[c])
    PROVE  CallGood(c, h)
PROOF
<1> DEFINE k == call[c]
<1>1. /\ c \in Waiters => WaitsOn(k)
      /\ c \in Inspectors => Reports(k)
      /\ SameTask(h, k)
  BY RunningNow
<1> HIDE DEF k
<1> QED BY <1>1, TaskGoesOn

\* The request leaves with the cookie of the moment ...
LEMMA AskKeeps ==
    ASSUME ClientInv, NEW c \in Callers, Ask(c)
    PROVE  ClientInv'
PROOF
<1> DEFINE k == call[c]
           h == [k EXCEPT !.at = "sent", !.cookie = jar]
<1>1. call[c].at \in Under /\ k.at = "ask" /\ call' = [call EXCEPT ![c] = h]
      /\ UNCHANGED <<serverVars, jar>>
  BY DEF Ask, Under
<1>2. k \in Calls /\ KnowsSession(k) /\ jar \in Int /\ jar <= session
  BY <1>1, RunningNow DEF ClientInv
<1> HIDE DEF k
<1>3. /\ h \in Calls /\ SameTask(h, k) /\ h.at = "sent" /\ h.cookie = jar
      /\ h.retryAuth = k.retryAuth /\ h.began = k.began
  BY <1>2 DEF Calls, Under, SameTask
<1> HIDE DEF h
<1>4. KnowsSession(h)
  BY <1>1, <1>2, <1>3 DEF KnowsSession
<1>5. CallGood(c, h)
  BY <1>1, <1>3, <1>4, TaskStays DEF k
<1> QED BY <1>1, <1>5, CallerMoves

\* ... the client logs in, one goroutine at a time ...
LEMMA AuthenticateKeeps ==
    ASSUME ClientInv, NEW c \in Callers, Authenticate(c)
    PROVE  ClientInv'
PROOF
<1> DEFINE k == call[c]
           h == [k EXCEPT !.at = "login"]
<1>1. call[c].at \in Under /\ call' = [call EXCEPT ![c] = h] /\ UNCHANGED <<serverVars, jar>>
  BY DEF Authenticate, Under
<1>2. k \in Calls /\ KnowsSession(k)
  BY <1>1, RunningNow
<1> HIDE DEF k
<1>3. h \in Calls /\ SameTask(h, k) /\ h.at = "login" /\ h.began = k.began
  BY <1>2 DEF Calls, Under, SameTask
<1> HIDE DEF h
<1>4. KnowsSession(h)
  BY <1>2, <1>3 DEF KnowsSession
<1>5. CallGood(c, h)
  BY <1>1, <1>3, <1>4, TaskStays DEF k
<1> QED BY <1>1, <1>5, CallerMoves

\* ... after a 401, which a call that was tried again gets only from a server that was
\* restarted since it began ...
LEMMA UnauthorizedKeeps ==
    ASSUME ClientInv, NEW c \in Callers, Unauthorized(c)
    PROVE  ClientInv'
PROOF
<1> DEFINE k == call[c]
           locked == [k EXCEPT !.at = "lock", !.cookie = NoCookie]
           refused == Failed(k, "unauthorized")
           h == IF k.retryAuth THEN locked ELSE refused
<1>1. /\ call[c].at \in Under /\ k.at = "sent" /\ k.cookie # session
      /\ call' = [call EXCEPT ![c] = h] /\ UNCHANGED <<serverVars, jar>>
  BY DEF Unauthorized, Authorized, Under
<1>2. k \in Calls /\ KnowsSession(k) /\ session \in Nat
  BY <1>1, RunningNow DEF ClientInv, ServerInv
<1> HIDE DEF k
<1>6. NoCookie \in Int
  BY DEF NoCookie
<1>3. ASSUME k.retryAuth PROVE CallGood(c, h)
  <2>1. /\ locked \in Calls /\ SameTask(locked, k) /\ locked.at = "lock"
        /\ locked.began = k.began
    BY <1>2, <1>6 DEF Calls, Under, SameTask
  <2>4. h = locked
    BY <1>3
  <2> HIDE DEF locked, h
  <2>2. KnowsSession(locked)
    BY <1>2, <2>1 DEF KnowsSession
  <2>3. CallGood(c, locked)
    BY <1>1, <2>1, <2>2, TaskStays DEF k
  <2> QED BY <2>3, <2>4
<1>4. ASSUME ~k.retryAuth PROVE CallGood(c, h)
  <2>1. k.began \in Nat /\ k.cookie \in Int
    BY <1>2 DEF Calls
  <2>2. k.began < session
    BY <1>1, <1>2, <1>4, <2>1 DEF KnowsSession
  <2>3. CallGood(c, refused)
    BY <1>2, <2>2, FailsWell
  <2>4. h = refused
    BY <1>4
  <2> HIDE DEF refused, h
  <2> QED BY <2>3, <2>4
<1> HIDE DEF h
<1>5. CallGood(c, h)
  BY <1>3, <1>4
<1> QED BY <1>1, <1>5, CallerMoves

\* ... a login is blocked or a call cancelled ...
LEMMA FailureKeeps ==
    ASSUME ClientInv, NEW c \in Callers, call[c].at \in Under,
           NEW error \in {"blocked", "cancelled"},
           call' = [call EXCEPT ![c] = Failed(@, error)], UNCHANGED <<serverVars, jar>>
    PROVE  ClientInv'
PROOF
<1> DEFINE k == call[c]
           h == Failed(k, error)
<1>1. k \in Calls /\ KnowsSession(k)
  BY RunningNow
<1> HIDE DEF k
<1>2. CallGood(c, h)
  BY <1>1, FailsWell
<1>3. call' = [call EXCEPT ![c] = h]
  BY DEF k
<1> HIDE DEF h
<1> QED BY <1>2, <1>3, CallerMoves

\* ... and an answer ends the call or goes on to the next.
LEMMA AnswerKeeps ==
    ASSUME ClientInv, NEW c \in Callers, Answer(c)
    PROVE  ClientInv'
PROOF
<1> DEFINE k == call[c]
           h == CASE c \in Waiters -> AfterPage(k)
                  [] c \in Inspectors -> AfterInspectCall(k)
                  [] c \in Watchers -> Returned
<1>1. /\ call[c].at \in Under /\ call' = [call EXCEPT ![c] = h]
      /\ UNCHANGED <<serverVars, jar>>
  BY DEF Answer, Under
<1>2. /\ k \in Calls /\ KnowsSession(k)
      /\ c \in Waiters => WaitsOn(k)
      /\ c \in Inspectors => Reports(k)
  BY <1>1, RunningNow
<1> HIDE DEF k
<1>3. ASSUME c \in Waiters PROVE CallGood(c, h)
  <2>1. c \notin Inspectors /\ c \notin Watchers
    BY <1>3, ClientAssumption
  <2>2. h = AfterPage(k)
    BY <1>3, <2>1
  <2>3. CallGood(c, AfterPage(k))
    BY <1>2, <1>3, WaitGoesOn
  <2> HIDE DEF h
  <2> QED BY <2>2, <2>3
<1>4. ASSUME c \in Inspectors PROVE CallGood(c, h)
  <2>1. c \notin Waiters /\ c \notin Watchers
    BY <1>4, ClientAssumption
  <2>2. h = AfterInspectCall(k)
    BY <1>4, <2>1
  <2>3. CallGood(c, AfterInspectCall(k))
    BY <1>2, <1>4, InspectionGoesOn
  <2> HIDE DEF h
  <2> QED BY <2>2, <2>3
<1>5. ASSUME c \in Watchers PROVE CallGood(c, h)
  <2>1. c \notin Waiters /\ c \notin Inspectors
    BY <1>5, ClientAssumption
  <2>2. h = Returned
    BY <1>5, <2>1
  <2> HIDE DEF h
  <2> QED BY <2>2 DEF CallGood
<1> HIDE DEF h
<1>6. CallGood(c, h)
  BY <1>3, <1>4, <1>5 DEF Callers
<1> QED BY <1>1, <1>6, CallerMoves

\* A login leaves the newest session in the jar, for all calls.
LEMMA LoginKeeps ==
    ASSUME ClientInv, NEW c \in Callers, LoginAccepts(c)
    PROVE  ClientInv'
PROOF
<1>11. PICK k : k = call[c]
  OBVIOUS
<1>12. PICK h : h = [k EXCEPT !.at = "ask", !.retryAuth = FALSE]
  OBVIOUS
<1>1. /\ call[c].at \in Under /\ call' = [call EXCEPT ![c] = h] /\ jar' = session
      /\ stored' = stored /\ nextCursor' = nextCursor /\ session' = session
  BY <1>11, <1>12 DEF LoginAccepts, Under, Retry
<1>2. k \in Calls /\ KnowsSession(k) /\ session \in Nat /\ jar \in Int /\ jar <= session
  BY <1>1, <1>11, RunningNow DEF ClientInv, ServerInv
<1>3. /\ h \in Calls /\ SameTask(h, k) /\ h.at = "ask" /\ h.began = k.began
  BY <1>2, <1>12 DEF Calls, Under, SameTask
<1>4. KnowsSession(h)'
  BY <1>1, <1>2, <1>3 DEF KnowsSession
<1>5. ServerInv' /\ Onward /\ jar' \in Int /\ jar <= jar' /\ session \in Nat
  BY <1>1, <1>2 DEF ClientInv, ServerInv, Onward
<1>6. CallGood(c, h)'
  <2>1. /\ c \in Waiters => WaitsOn(k)
        /\ c \in Inspectors => Reports(k)
    BY <1>1, <1>11, RunningNow
  <2>2. /\ c \in Waiters => WaitsOn(h)'
        /\ c \in Inspectors => Reports(h)'
    BY <1>1, <1>3, <2>1 DEF SameTask, WaitsOn, NoneBetween, Reports, HoldsFamily, Known, Family,
                            StoredCursors, CursorsOf
  <2> QED BY <1>3, <1>4, <2>2 DEF CallGood
<1>7. ASSUME NEW d \in Callers, d # c PROVE CallGood(d, call[d])'
  <2>5. PICK m : m = call[d]
    OBVIOUS
  <2>1. CallGood(d, m) /\ session <= session' /\ session' \in Nat /\ jar \in Int
    BY <1>1, <1>2, <2>5, CallGoodNow
  <2>2. call'[d] = m
    BY <1>1, <1>7, <2>5 DEF ClientInv
  <2>3. CallGood(d, m)'
    BY <1>5, <2>1, CallOutlasts DEF ClientInv
  <2> QED BY <2>2, <2>3 DEF CallGood, KnowsSession, WaitsOn, NoneBetween, Reports,
                            HoldsFamily, Known, Family
<1>8. call'[c] = h /\ DOMAIN call' = Callers
  BY <1>1 DEF ClientInv
<1>9. CallGood(c, call[c])'
  BY <1>6, <1>8 DEF CallGood, KnowsSession, WaitsOn, NoneBetween, Reports, HoldsFamily,
                    Known, Family
<1>10. \A d \in Callers : CallGood(d, call[d])'
  BY <1>7, <1>9
<1> QED BY <1>1, <1>2, <1>5, <1>8, <1>10 DEF ClientInv

\* The server goes on while no caller moves.
LEMMA ServerMoves ==
    ASSUME ClientInv, ServerInv', Onward, session <= session', UNCHANGED clientVars
    PROVE  ClientInv'
PROOF
<1>1. call' = call /\ jar' = jar /\ jar \in Int /\ jar <= session /\ ServerInv
      /\ session \in Nat /\ session' \in Nat
  BY DEF clientVars, ClientInv, ServerInv
<1>2. ASSUME NEW d \in Callers PROVE CallGood(d, call[d])'
  <2>4. PICK m : m = call[d]
    OBVIOUS
  <2>1. CallGood(d, m)
    BY <2>4, CallGoodNow
  <2>2. CallGood(d, m)'
    BY <1>1, <2>1, CallOutlasts
  <2>3. call'[d] = m
    BY <1>1, <2>4
  <2> QED BY <2>2, <2>3 DEF CallGood, KnowsSession, WaitsOn, NoneBetween, Reports, HoldsFamily,
                            Known, Family
<1> QED BY <1>1, <1>2 DEF ClientInv

\* It restarts: a numbering that begins again is noted with every running call.
LEMMA RestartKeeps ==
    ASSUME ClientInv, ClientRestart
    PROVE  ClientInv'
PROOF
<1>1. ServerInv /\ Restart /\ jar' = jar /\ session \in Nat
  BY DEF ClientRestart, ClientInv, ServerInv
<1>2. /\ ServerInv' /\ session' = session + 1
      /\ \/ Onward /\ nextCursor' = nextCursor /\ stored' = stored
         \/ nextCursor' = 0 /\ ToSet(stored') = {} /\ Emptied
  BY <1>1, RestartGoesOn
<1>3. nextCursor \in Nat /\ nextCursor' \in Nat /\ session <= session' /\ session' \in Nat
  BY <1>1, <1>2 DEF ServerInv
<1>4. CASE ~(nextCursor' < nextCursor)
  <2>1. Onward
    <3>1. CASE Emptied
      BY <1>1, <1>2, <1>3, <1>4, <3>1, EmptiesIt
    <3> QED BY <1>2, <3>1
  <2>2. \A c \in Callers : call'[c] = call[c]
    BY <1>4 DEF ClientRestart
  <2>3. DOMAIN call' = Callers /\ DOMAIN call = Callers
    BY DEF ClientRestart, ClientInv
  <2>4. ASSUME NEW d \in Callers PROVE CallGood(d, call[d])'
    <3>4. PICK m : m = call[d]
      OBVIOUS
    <3>1. CallGood(d, m) /\ jar \in Int /\ jar <= jar
      BY <3>4, CallGoodNow DEF ClientInv
    <3>2. CallGood(d, m)'
      BY <1>1, <1>2, <1>3, <2>1, <3>1, CallOutlasts
    <3>3. call'[d] = m
      BY <2>2, <3>4
    <3> QED BY <3>2, <3>3 DEF CallGood, KnowsSession, WaitsOn, NoneBetween, Reports,
                              HoldsFamily, Known, Family
  <2> QED BY <1>1, <1>2, <1>3, <2>3, <2>4 DEF ClientInv
<1>5. CASE nextCursor' < nextCursor
  <2>1. nextCursor' = 0 /\ ToSet(stored') = {}
    BY <1>2, <1>3, <1>5
  <2>2. StoredCursors' = {}
    BY <1>2, <2>1, CursorsNext DEF CursorsCounted
  <2>3. DOMAIN call' = Callers
    BY DEF ClientRestart
  <2>4. ASSUME NEW d \in Callers PROVE CallGood(d, call[d])'
    <3>5. PICK m : m = call[d]
      OBVIOUS
    <3>6. PICK h : h = [m EXCEPT !.skipped = TRUE, !.target = 0]
      OBVIOUS
    <3>1. CallGood(d, m) /\ call'[d] = IF Running(d) THEN h ELSE m
      BY <1>5, <3>5, <3>6, CallGoodNow DEF ClientRestart
    <3>2. Running(d) <=> m.at \notin {"idle", "ended", "failed"}
      BY <3>5 DEF Running
    <3>3. CASE m \in {Idle, Returned} \/ (m \in Failures /\ (m.error = "unauthorized"
                                                                => m.began < session))
      <4>1. call'[d] = m
        <5>1. m.at \in {"idle", "ended", "failed"}
          <6>1. Idle.at = "idle" /\ Returned.at = "ended"
            BY DEF Idle, Returned
          <6>2. m \in Failures => m.at = "failed"
            BY DEF Failures
          <6> QED BY <3>3, <6>1, <6>2
        <5> QED BY <3>1, <3>2, <5>1
      <4>2. m \in Failures => m.began \in Nat
        BY DEF Failures
      <4>3. CallGood(d, m)'
        BY <1>2, <1>3, <1>1, <3>3, <4>2 DEF CallGood
      <4> QED BY <4>1, <4>3 DEF CallGood, KnowsSession, WaitsOn, NoneBetween, Reports,
                                HoldsFamily, Known, Family
    <3>4. CASE /\ m \in Calls /\ KnowsSession(m)
               /\ d \in Waiters => WaitsOn(m)
               /\ d \in Inspectors => Reports(m)
      <4>1. m.at \notin {"idle", "ended", "failed"}
        BY <3>4 DEF Calls, Under
      <4>2. call'[d] = h
        BY <3>1, <3>2, <4>1
      <4>3. /\ h \in Calls /\ h.skipped = TRUE /\ h.target = 0 /\ h.after = m.after
            /\ h.cursor = m.cursor /\ h.at = m.at /\ h.retryAuth = m.retryAuth
            /\ h.cookie = m.cookie /\ h.began = m.began /\ h.stage = m.stage
        BY <3>4, <3>6 DEF Calls
      <4>4. m.began \in Nat /\ m.cookie \in Int
        BY <3>4 DEF Calls
      <4>5. KnowsSession(h)'
        BY <1>1, <1>2, <1>3, <3>4, <4>3, <4>4 DEF KnowsSession
      <4>6. d \in Waiters => WaitsOn(h)'
        BY <3>4, <4>3 DEF WaitsOn
      <4>7. Reports(h)'
        BY <2>1, <2>2, <4>3 DEF Reports, Known
      <4>8. CallGood(d, h)'
        BY <4>3, <4>5, <4>6, <4>7 DEF CallGood
      <4> QED BY <4>2, <4>8 DEF CallGood, KnowsSession, WaitsOn, NoneBetween, Reports,
                                HoldsFamily, Known, Family
    <3> QED BY <3>1, <3>3, <3>4 DEF CallGood
  <2>5. jar' \in Int /\ jar' <= session'
    BY <1>1, <1>2, <1>3 DEF ClientInv
  <2> QED BY <1>2, <2>3, <2>4, <2>5 DEF ClientInv
<1> QED BY <1>4, <1>5

\* While a browser is the client nobody calls.
NobodyCalls == kind = "browser" => \A c \in Callers : call[c] = Idle

\* Whatever the server does then.
LEMMA SilenceKeeps ==
    ASSUME ClientInv, \A c \in Callers : call[c] = Idle, UNCHANGED clientVars,
           ServerInv', session <= session'
    PROVE  ClientInv'
PROOF
<1>1. call' = call /\ jar' = jar /\ jar \in Int /\ jar <= session
      /\ session \in Nat /\ session' \in Nat
  BY DEF clientVars, ClientInv, ServerInv
<1>2. \A c \in Callers : CallGood(c, call[c])'
  BY <1>1 DEF CallGood
<1> QED BY <1>1, <1>2 DEF ClientInv

\* The steps of a call ...
LEMMA ProceedKeeps ==
    ASSUME ClientInv, NEW c \in Callers, Proceed(c) \/ Cancel(c)
    PROVE  ClientInv'
PROOF
<1>1. CASE LoginBlocks(c)
  <2>1. /\ call[c].at \in Under /\ call' = [call EXCEPT ![c] = Failed(@, "blocked")]
        /\ UNCHANGED <<serverVars, jar>>
    BY <1>1 DEF LoginBlocks, Under
  <2> QED BY <2>1, FailureKeeps
<1>2. CASE Cancel(c)
  <2>1. /\ call[c].at \in Under /\ call' = [call EXCEPT ![c] = Failed(@, "cancelled")]
        /\ UNCHANGED <<serverVars, jar>>
    BY <1>2 DEF Cancel, Under
  <2> QED BY <2>1, FailureKeeps
<1> QED BY <1>1, <1>2, AskKeeps, AnswerKeeps, UnauthorizedKeeps, AuthenticateKeeps,
           LoginKeeps DEF Proceed

\* ... and those of the callers, the server and the others that log in.
LEMMA ClientStep ==
    ASSUME ClientInv, NEW entries, entries \subseteq Classes \X SUBSET Nat,
           ClientNext(entries)
    PROVE  ClientInv'
PROOF
<1>1. ASSUME NEW c \in Callers, Proceed(c) \/ Cancel(c) PROVE ClientInv'
  BY <1>1, ProceedKeeps
<1>2. CASE ClientRestart
  BY <1>2, RestartKeeps
<1>3. CASE ClearEvents /\ UNCHANGED clientVars
  <2>1. ServerInv' /\ Onward /\ session' = session /\ session <= session'
    BY <1>3, ClearGoesOn DEF ClientInv, ServerInv
  <2> QED BY <1>3, <2>1, ServerMoves
<1>4. ASSUME NEW e \in entries, Put(e[1], e[2]), UNCHANGED clientVars
      PROVE  ClientInv'
  <2>0. e[1] \in Classes /\ e[2] \in SUBSET Nat
    OBVIOUS
  <2>1. ServerInv' /\ Onward /\ session' = session /\ session <= session'
    BY <1>4, <2>0, PutGoesOn DEF ClientInv, ServerInv
  <2> QED BY <1>4, <2>1, ServerMoves
<1>5. CASE (RecordLoginFailure \/ WindowEnds) /\ UNCHANGED clientVars
  <2>1. /\ stored' = stored /\ nextCursor' = nextCursor /\ session' = session
        /\ ServerInv /\ session \in Nat
    BY <1>5 DEF RecordLoginFailure, WindowEnds, ClientInv, ServerInv
  <2>2. ServerInv' /\ Onward /\ session <= session'
    BY <2>1 DEF ServerInv, Onward
  <2> QED BY <1>5, <2>2, ServerMoves
<1> QED BY <1>1, <1>2, <1>3, <1>4, <1>5 DEF ClientNext

\* What the steps of a browser do to the server.
LEMMA BrowserLeaves ==
    ASSUME ServerInv, BrowserNext
    PROVE  ServerInv' /\ session <= session'
PROOF
<1>1. session \in Nat
  BY DEF ServerInv
<1>2. CASE UNCHANGED <<stored, nextCursor, session>>
  BY <1>1, <1>2 DEF ServerInv
<1>3. CASE ClearEvents
  BY <1>1, <1>3, ClearGoesOn
<1>4. CASE Restart
  BY <1>1, <1>4, RestartGoesOn
<1>5. ASSUME NEW class \in Classes, Put(class, {}) PROVE ServerInv' /\ session <= session'
  BY <1>1, <1>5, PutGoesOn
<1>6. \/ AnswerLoad \/ AskOlder \/ AnswerOlder \/ ApplyOlder
      \/ AskScope \/ AnswerScope \/ ApplyScope \/ TogglePause \/ ApplyClear
      => UNCHANGED <<stored, nextCursor, session>>
  BY DEF AnswerLoad, AskOlder, AnswerOlder, ApplyOlder, AskScope, AnswerScope, ApplyScope,
         TogglePause, ApplyClear, serverVars
<1>7. ApplyLoad \/ Receive \/ Reconnect \/ Break => UNCHANGED <<stored, nextCursor, session>>
  BY DEF ApplyLoad, Receive, Reconnect, Break
<1> QED BY <1>2, <1>3, <1>4, <1>5, <1>6, <1>7
        DEF BrowserNext, ClearHere, ClearElsewhere, BrowserRestart, BrowserPut

\* Every step keeps the invariant ...
LEMMA ClientInvKept ==
    ASSUME ClientInv, NobodyCalls, Next
    PROVE  ClientInv' /\ NobodyCalls'
PROOF
<1>1. kind' = kind
  BY DEF Next
<1>2. CASE kind = "browser" /\ BrowserNext /\ UNCHANGED clientVars
  <2>1. ServerInv' /\ session <= session'
    BY <1>2, BrowserLeaves DEF ClientInv
  <2>2. ClientInv'
    BY <1>2, <2>1, SilenceKeeps DEF NobodyCalls
  <2>3. NobodyCalls'
    BY <1>1, <1>2 DEF NobodyCalls, clientVars
  <2> QED BY <2>2, <2>3
<1>3. CASE kind # "browser" /\ ClientNext(Entering)
  <2>1. Entering \subseteq Classes \X SUBSET Nat
    BY ClientsAssumption DEF Entering
  <2> QED BY <1>1, <1>3, <2>1, ClientStep DEF NobodyCalls
<1>4. ASSUME kind # "browser", NEW c \in Waiters, WaitForRequest(c)
      PROVE  ClientInv' /\ NobodyCalls'
  BY <1>1, <1>4, WaitBegins DEF NobodyCalls
<1>5. ASSUME kind # "browser", NEW c \in Inspectors, InspectRequest(c)
      PROVE  ClientInv' /\ NobodyCalls'
  BY <1>1, <1>5, InspectionBegins DEF NobodyCalls
<1>6. ASSUME kind # "browser", NEW c \in Watchers, Stats(c)
      PROVE  ClientInv' /\ NobodyCalls'
  BY <1>1, <1>6, StatsBegins DEF NobodyCalls
<1> QED BY <1>2, <1>3, <1>4, <1>5, <1>6 DEF Next

\* ... and so does one that changes nothing.
LEMMA StutterKeeps ==
    ASSUME ClientInv, NobodyCalls, UNCHANGED vars
    PROVE  ClientInv' /\ NobodyCalls'
PROOF
<1>1. /\ stored' = stored /\ nextCursor' = nextCursor /\ session' = session /\ call' = call
      /\ jar' = jar /\ kind' = kind
  BY DEF vars, serverVars, clientVars
<1>2. NobodyCalls'
  BY <1>1 DEF NobodyCalls
<1>3. ServerInv'
  BY <1>1 DEF ClientInv, ServerInv
<1>4. \A c \in Callers : CallGood(c, call[c])'
  BY <1>1 DEF ClientInv, CallGood, KnowsSession, WaitsOn, NoneBetween, Reports, HoldsFamily,
              Known, Family, StoredCursors, CursorsOf
<1> QED BY <1>1, <1>2, <1>3, <1>4 DEF ClientInv

-----------------------------------------------------------------------------
(* What their operations promise.                                          *)

\* It always holds.
LEMMA Calling == Spec => [](ClientInv /\ NobodyCalls)
PROOF
<1>1. Init => ClientInv /\ NobodyCalls
  BY ClientStarts DEF Init, ClientInit, NobodyCalls
<1>2. (ClientInv /\ NobodyCalls) /\ [Next]_vars => (ClientInv /\ NobodyCalls)'
  BY ClientInvKept, StutterKeeps
<1>3. Spec => Init /\ [][Next]_vars
  BY PTL DEF Spec
<1> QED BY <1>1, <1>2, <1>3, PTL

\* A goroutine with the right token is refused only if the server was restarted
\* during that very call, however many goroutines share the client and whoever of
\* them logs in (doJSON, authenticate).
THEOREM RefusedOnlyByARestart == Spec => []ReauthSucceeds
PROOF
<1>1. ClientInv => ReauthSucceeds
  <2> SUFFICES ASSUME ClientInv, NEW c \in Callers, call[c].at = "failed",
                      call[c].error = "unauthorized"
               PROVE  call[c].began < session
    BY DEF ReauthSucceeds
  <2> DEFINE k == call[c]
  <2>1. CallGood(c, k) /\ k.at = "failed" /\ k.error = "unauthorized"
    BY CallGoodNow
  <2> HIDE DEF k
  <2>2. k # Idle /\ k # Returned
    BY <2>1 DEF Idle, Returned
  <2>3. k \notin Calls
    BY <2>1 DEF Calls, Under
  <2>4. k.began < session
    BY <2>1, <2>2, <2>3 DEF CallGood
  <2> QED BY <2>4 DEF k
<1> QED BY <1>1, Calling, PTL

\* Only an answer ends a call.
LEMMA OnlyAnswersEnd ==
    ASSUME ClientInv, NobodyCalls, [Next]_vars, NEW c \in Callers, Returns(c)
    PROVE  Answer(c)
PROOF
<1> DEFINE k == call[c]
<1>1. /\ k.at \notin {"idle", "ended", "failed"} /\ call'[c].at = "ended"
      /\ k # Idle /\ DOMAIN call = Callers
  BY DEF Returns, Running, ClientInv, Idle
<1>2. call' # call
  BY <1>1
<1>3. ASSUME NEW d \in Callers, NEW m, m.at # "ended", call' = [call EXCEPT ![d] = m]
      PROVE  FALSE
  <2>1. d = c => call'[c] = m
    BY <1>1, <1>3
  <2>2. d # c => call'[c] = call[c]
    BY <1>3
  <2> QED BY <1>1, <1>3, <2>1, <2>2
<1>4. Next
  BY <1>2 DEF vars, clientVars
<1>5. kind # "browser"
  BY <1>1 DEF NobodyCalls
<1>6. ASSUME NEW after, NEW target, NEW d \in Callers,
             call' = [call EXCEPT ![d] = NewCall(after, target)]
      PROVE  FALSE
  <2> DEFINE m == NewCall(after, target)
  <2>1. m.at # "ended" /\ call' = [call EXCEPT ![d] = m]
    BY <1>6 DEF NewCall
  <2> HIDE DEF m
  <2> QED BY <1>3, <2>1
<1>7. ASSUME NEW d \in Callers, Proceed(d) \/ Cancel(d) PROVE Answer(c)
  <2>0. ASSUME Answer(d) PROVE Answer(c)
    <3>1. d # c => call'[c] = call[c]
      BY <2>0 DEF Answer
    <3> QED BY <1>1, <2>0, <3>1
  <2> DEFINE h == call[d]
  <2>1. ASSUME NEW m, m.at # "ended", call' = [call EXCEPT ![d] = m] PROVE FALSE
    BY <1>3, <2>1
  <2>2. ASSUME Ask(d) \/ Authenticate(d) \/ LoginAccepts(d) PROVE FALSE
    <3>1. h.at \in Under
      BY <2>2 DEF Ask, Authenticate, LoginAccepts, Under
    <3>2. h \in Calls
      BY <3>1, RunningNow
    <3> HIDE DEF h
    <3> DEFINE a == [h EXCEPT !.at = "sent", !.cookie = jar]
               b == [h EXCEPT !.at = "login"]
               e == Retry(h)
    <3>3. a.at = "sent" /\ b.at = "login" /\ e.at = "ask"
      BY <3>2 DEF Calls, Retry
    <3>4. call' \in {[call EXCEPT ![d] = a], [call EXCEPT ![d] = b], [call EXCEPT ![d] = e]}
      BY <2>2 DEF h, Ask, Authenticate, LoginAccepts
    <3> HIDE DEF a, b, e
    <3> QED BY <2>1, <3>3, <3>4
  <2>3. ASSUME Unauthorized(d) \/ LoginBlocks(d) \/ Cancel(d) PROVE FALSE
    <3>1. h.at \in Under
      BY <2>3 DEF Unauthorized, LoginBlocks, Cancel, Under
    <3>2. h \in Calls
      BY <3>1, RunningNow
    <3> HIDE DEF h
    <3> DEFINE a == [h EXCEPT !.at = "lock", !.cookie = NoCookie]
               b == Failed(h, "unauthorized")
               e == Failed(h, "blocked")
               f == Failed(h, "cancelled")
    <3>3. a.at = "lock" /\ b.at = "failed" /\ e.at = "failed" /\ f.at = "failed"
      BY <3>2 DEF Calls, Failed
    <3>4. call' \in {[call EXCEPT ![d] = a], [call EXCEPT ![d] = b], [call EXCEPT ![d] = e],
                     [call EXCEPT ![d] = f]}
      BY <2>3 DEF h, Unauthorized, LoginBlocks, Cancel
    <3> HIDE DEF a, b, e, f
    <3> QED BY <2>1, <3>3, <3>4
  <2> QED BY <1>7, <2>0, <2>2, <2>3 DEF Proceed
<1>8. CASE ClientRestart
  <2>1. k.at \in Under /\ k \in Calls
    <3>1. CallGood(c, k)
      BY CallGoodNow
    <3> HIDE DEF k
    <3>2. k # Returned /\ k \notin Failures
      <4>1. Returned.at = "ended"
        BY DEF Returned
      <4> QED BY <1>1, <4>1 DEF Failures
    <3>3. k \in Calls
      BY <1>1, <3>1, <3>2 DEF CallGood
    <3> QED BY <3>3 DEF Calls
  <2>2. call'[c] \in {k, [k EXCEPT !.skipped = TRUE, !.target = 0]}
    BY <1>8 DEF ClientRestart
  <2> HIDE DEF k
  <2>3. \A m \in {k, [k EXCEPT !.skipped = TRUE, !.target = 0]} : m.at # "ended"
    BY <1>1, <2>1 DEF Calls
  <2> QED BY <1>1, <2>2, <2>3
<1>9. ASSUME NEW d \in Watchers, Stats(d) PROVE FALSE
  BY <1>6, <1>9 DEF Stats, Callers
<1>10. ASSUME NEW d \in Waiters, WaitForRequest(d) PROVE FALSE
  BY <1>6, <1>10 DEF WaitForRequest, Callers
<1>11. ASSUME NEW d \in Inspectors, InspectRequest(d) PROVE FALSE
  BY <1>6, <1>11 DEF InspectRequest, Callers
<1>12. ~UNCHANGED clientVars
  BY <1>2 DEF clientVars
<1> QED BY <1>4, <1>5, <1>7, <1>8, <1>9, <1>10, <1>11, <1>12 DEF Next, ClientNext

\* What is known of a wait that an answer ends ...
LEMMA WaitEnds ==
    ASSUME ClientInv, NEW c \in Waiters, Answer(c), call'[c].at = "ended"
    PROVE  /\ call[c] \in Calls /\ KnowsSession(call[c]) /\ WaitsOn(call[c])
           /\ Digest(call[c]).target # 0
PROOF
<1> DEFINE k == call[c]
           h == AfterPage(k)
<1>1. c \in Callers /\ c \notin Inspectors /\ c \notin Watchers /\ call[c].at \in Under
  BY ClientAssumption DEF Callers, Answer, Under
<1>2. k \in Calls /\ KnowsSession(k) /\ WaitsOn(k)
  BY <1>1, RunningNow
<1>3. call'[c] = h
  BY <1>1 DEF Answer, ClientInv
<1> DEFINE g == Digest(k)
<1>4. g \in Calls
  <2> HIDE DEF k, g
  <2>1. g = Digest(k) /\ ServerInv
    BY DEF g, ClientInv
  <2> QED BY <1>2, <2>1, DigestGoesOn
<1>5. h = IF g.target = 0 THEN NextCall(g) ELSE Returned
  BY DEF AfterPage
<1> HIDE DEF g, h
<1>6. NextCall(g).at = "ask"
  BY <1>4 DEF NextCall, Calls
<1>7. g.target # 0
  BY <1>3, <1>5, <1>6
<1> QED BY <1>2, <1>7 DEF g

\* ... and of a report.
LEMMA InspectionEnds ==
    ASSUME ClientInv, NEW c \in Inspectors, Answer(c), call'[c].at = "ended"
    PROVE  /\ call[c] \in Calls /\ Reports(call[c])
           /\ call[c].stage = 3 /\ call[c].target \in StoredCursors
PROOF
<1> DEFINE k == call[c]
           h == AfterInspectCall(k)
<1>1. c \in Callers /\ c \notin Waiters /\ c \notin Watchers /\ call[c].at \in Under
  BY ClientAssumption DEF Callers, Answer, Under
<1>2. k \in Calls /\ Reports(k)
  BY <1>1, RunningNow
<1>3. call'[c] = h
  BY <1>1 DEF Answer, ClientInv
<1>4. k.stage \in 1..3
  BY <1>2 DEF Calls
<1> HIDE DEF k
<1>5. InspectCalls[3] = "analysis" /\ Len(InspectCalls) = 3
  BY DEF InspectCalls
<1> DEFINE f == Failed(k, "not found")
           g == [Report(k) EXCEPT !.stage = @ + 1]
           n == NextCall(g)
<1>6. f.at = "failed"
  BY DEF Failed
<1>7. n.at # "ended"
  <2>1. DOMAIN k = DOMAIN g
    BY DEF Report
  <2>2. "at" \in DOMAIN k
    BY <1>2 DEF Calls
  <2> HIDE DEF g
  <2>3. n.at = "ask"
    BY <2>1, <2>2 DEF NextCall
  <2> QED BY <2>3
<1>8. h = IF InspectCalls[k.stage] # "list" /\ k.target \notin StoredCursors THEN f
          ELSE IF k.stage = 3 THEN Returned ELSE n
  BY <1>5 DEF AfterInspectCall
<1> HIDE DEF f, g, n, h
<1>9. k.stage = 3 /\ k.target \in StoredCursors
  BY <1>3, <1>5, <1>6, <1>7, <1>8
<1> QED BY <1>2, <1>9 DEF k

\* WaitForRequest returns the first match in the store after the cursor it was
\* given, unless it skipped some: for every size of pages and of the store.
THEOREM WaitsReturnTheNext == Spec => WaitReturnsNext
PROOF
<1>1. ASSUME ClientInv, NobodyCalls, [Next]_vars, NEW c \in Waiters, Returns(c)
      PROVE  LET k == Digest(call[c])
                 matches == {e.cursor : e \in {x \in ToSet(stored) :
                                                 x.class = "exact" /\ x.cursor > k.after}}
             IN  /\ k.target \in matches
                 /\ k.skipped \/ \A m \in matches : k.target <= m
  <2> DEFINE k == call[c]
             h == Digest(k)
  <2>1. Answer(c) /\ call'[c].at = "ended"
    BY <1>1, OnlyAnswersEnd DEF Callers, Returns
  <2>2. k \in Calls /\ KnowsSession(k) /\ WaitsOn(k) /\ h.target # 0
    BY <1>1, <2>1, WaitEnds
  <2>3. /\ \E e \in Fresh(k) : h.target = e.cursor
        /\ h.skipped \/ \A e \in Fresh(k) : h.target <= e.cursor
    <3> HIDE DEF k, h
    <3>1. h = Digest(k) /\ ServerInv
      BY <1>1 DEF h, ClientInv
    <3> QED BY <2>2, <3>1, DigestGoesOn
  <2>4. h.after = k.after
    BY <2>2 DEF Digest, Calls
  <2> HIDE DEF k, h
  <2>5. {e.cursor : e \in {x \in ToSet(stored) : x.class = "exact" /\ x.cursor > h.after}}
          = {e.cursor : e \in Fresh(k)}
    BY <2>4 DEF Fresh
  <2>6. /\ h.target \in {e.cursor : e \in Fresh(k)}
        /\ h.skipped \/ \A m \in {e.cursor : e \in Fresh(k)} : h.target <= m
    BY <2>3
  <2> QED BY <2>5, <2>6 DEF h, k
<1>2. Spec => Init /\ [][Next]_vars
  BY PTL DEF Spec
<1>3. (ClientInv /\ NobodyCalls) /\ [Next]_vars
        => \A c \in Waiters : Returns(c) =>
             LET k == Digest(call[c])
                 matches == {e.cursor : e \in {x \in ToSet(stored) :
                                                 x.class = "exact" /\ x.cursor > k.after}}
             IN  /\ k.target \in matches
                 /\ k.skipped \/ \A m \in matches : k.target <= m
  BY <1>1
<1> QED BY <1>2, <1>3, Calling, PTL DEF WaitReturnsNext

\* What a report leaves out of what belonged to its request when it was listed has
\* gone meanwhile or is older than all it lists, and then it says that there is more:
\* whatever came and went between its three calls (InspectRequest).
THEOREM ReportsAreWhole == Spec => ReportIsWhole
PROOF
<1>1. ASSUME ClientInv, NobodyCalls, [Next]_vars, NEW c \in Inspectors, Returns(c)
      PROVE  LET k == Report(call[c])
             IN  \A m \in {k.target} \cup {d \in Family(k.target) : d <= k.listed} :
                   m \notin k.events => (k.hasMore /\ \A d \in k.events : m < d)
  <2>1. Answer(c) /\ call'[c].at = "ended"
    BY <1>1, OnlyAnswersEnd DEF Callers, Returns
  <2>2. /\ call[c] \in Calls /\ Reports(call[c])
        /\ call[c].stage = 3 /\ call[c].target \in StoredCursors
    BY <1>1, <2>1, InspectionEnds
  <2>3. InspectCalls[3] = "analysis"
    BY DEF InspectCalls
  <2>4. Report(call[c]) = call[c]
    BY <2>2, <2>3 DEF Report
  <2> DEFINE k == call[c]
  <2>5. k.target \in StoredCursors /\ Known(k.target) /\ HoldsFamily(k) /\ k.target <= k.listed
    BY <2>2 DEF Reports
  <2> HIDE DEF k
  <2>6. k.target \in Family(k.target)
    <3>1. PICK e \in ToSet(stored) : e.cursor = k.target
      BY <1>1, <2>5, StoredEntries DEF ClientInv
    <3> QED BY <2>5, <3>1 DEF Known, Family
  <2>7. \A m \in {k.target} \cup {d \in Family(k.target) : d <= k.listed} :
          m \notin k.events => (k.hasMore /\ \A d \in k.events : m < d)
    BY <2>5, <2>6 DEF HoldsFamily
  <2> QED BY <2>4, <2>7 DEF k
<1>2. Spec => Init /\ [][Next]_vars
  BY PTL DEF Spec
<1>3. (ClientInv /\ NobodyCalls) /\ [Next]_vars
        => \A c \in Inspectors : Returns(c) =>
             LET k == Report(call[c])
             IN  \A m \in {k.target} \cup {d \in Family(k.target) : d <= k.listed} :
                   m \notin k.events => (k.hasMore /\ \A d \in k.events : m < d)
  BY <1>1
<1> QED BY <1>2, <1>3, Calling, PTL DEF ReportIsWhole

-----------------------------------------------------------------------------
(* What statistics do to a browser.  They were true when they were made,   *)
(* and the server only ever forgets its oldest entries; so they take an    *)
(* entry that the server has only if others were not counted by them.      *)

\* The stored entries are those with higher cursors than this.
Base == nextCursor - Len(stored)

\* What may be on its way to the browser: of statistics it is known that what
\* they had not retained lies below.
Messages(b) ==
    [type : {"created"}, cursor : Nat] \cup [type : {"cleared"}]
      \cup {m \in [type : {"stats"}, retained : Nat, cursor : Nat] : m.cursor - m.retained <= b}

Sockets(b) ==
    [at : {"none", "connecting", "snapshot", "open", "closing"},
     channel : Seq(Messages(b)), lagged : BOOLEAN, wire : Seq(Messages(b))]

\* Entries as a browser shows them, finitely many.
Labels == [cursor : Nat, numbering : Nat]
Listed(S) == S \subseteq Labels /\ IsFiniteSet(S)

\* What it shows and what answers bring it.
Displayed ==
    /\ Listed(shown) /\ Listed(pending)
    /\ view.at = "loaded" => view.page.events \in Seq(Entries)
    /\ older.at = "answered" => older.page.events \in Seq(Entries)
    /\ scope.at = "answered" => scope.found \in SUBSET Nat /\ IsFiniteSet(scope.found)

BrowserInv ==
    /\ socket \in Sockets(Base)
    /\ kind # "browser" => socket = Disconnected
    /\ numbering \in Nat
    /\ Displayed

Placed == Base \in Nat /\ Len(stored) \in Nat

LEMMA BaseIsInt == ServerInv => Placed
PROOF
<1> SUFFICES ASSUME ServerInv PROVE Base \in Nat /\ Len(stored) \in Nat
  BY DEF Placed
<1>1. Len(stored) \in Nat /\ nextCursor \in Nat /\ Len(stored) <= nextCursor
  BY StoredEntries DEF ServerInv
<1> QED BY <1>1 DEF Base

LEMMA BaseIsIntNext == ServerInv' => Placed'
PROOF
BY BaseIsInt, PTL

\* What was true of a message stays true while the stored entries move on.
LEMMA StaysTrue ==
    ASSUME NEW b \in Int, NEW d \in Int, b <= d
    PROVE  Sockets(b) \subseteq Sockets(d)
PROOF
<1>1. Messages(b) \subseteq Messages(d)
  BY DEF Messages
<1>2. Seq(Messages(b)) \subseteq Seq(Messages(d))
  BY <1>1
<1> QED BY <1>2 DEF Sockets

LEMMA NoMessages == Disconnected \in Sockets(Base)
PROOF
BY DEF Disconnected, Sockets

\* A message that is broadcast is put into the channel, or the subscription ends.
LEMMA BroadcastSends ==
    ASSUME NEW b, socket \in Sockets(b), NEW m \in Messages(b), Broadcast(m)
    PROVE  socket' \in Sockets(b) /\ (socket = Disconnected => socket' = Disconnected)
PROOF
<1>1. socket.channel \in Seq(Messages(b))
  BY DEF Sockets
<1>2. Append(socket.channel, m) \in Seq(Messages(b))
  BY <1>1
<1>3. socket = Disconnected => ~Subscribed
  BY DEF Disconnected, Subscribed
<1> QED BY <1>2, <1>3 DEF Broadcast, Sockets

LEMMA PutTells ==
    ASSUME ServerInv, socket \in Sockets(Base), NEW class \in Classes,
           NEW requests \in SUBSET Nat, Put(class, requests)
    PROVE  socket' \in Sockets(Base)' /\ (socket = Disconnected => socket' = Disconnected)
PROOF
<1>1. /\ ServerInv' /\ nextCursor' = nextCursor + 1 /\ nextCursor \in Nat
  BY PutGoesOn DEF ServerInv
<1>2. Base \in Nat /\ Base' \in Nat
  BY <1>1, BaseIsInt, BaseIsIntNext DEF Placed
<1>3. Len(stored') <= Len(stored) + 1
  <2> DEFINE own == IF class \in Requests THEN {nextCursor'} ELSE {}
             new == [cursor |-> nextCursor', class |-> class, of |-> requests \cup own]
             all == Append(stored, new)
  <2>1. stored \in Seq(Entries) /\ new \in Entries
    BY <1>1 DEF ServerInv, Entries
  <2>2. stored' = IF Len(all) > MaxEvents THEN Tail(all) ELSE all
    BY DEF Put
  <2> HIDE DEF new
  <2>3. all \in Seq(Entries) /\ Len(all) = Len(stored) + 1 /\ Len(stored) \in Nat
    BY <2>1
  <2> HIDE DEF all
  <2>4. all # <<>> /\ Len(Tail(all)) = Len(stored)
    BY <2>3
  <2> QED BY <2>2, <2>3, <2>4
<1>4. Base <= Base'
  BY <1>1, <1>3, BaseIsInt DEF Base, Placed
<1>5. Created(nextCursor') \in Messages(Base)
  BY <1>1 DEF Created, Messages
<1>6. Broadcast(Created(nextCursor'))
  BY DEF Put
<1>7. socket' \in Sockets(Base) /\ (socket = Disconnected => socket' = Disconnected)
  BY <1>5, <1>6, BroadcastSends
<1> QED BY <1>2, <1>4, <1>7, StaysTrue

LEMMA ClearTells ==
    ASSUME ServerInv, socket \in Sockets(Base), ClearEvents
    PROVE  socket' \in Sockets(Base)' /\ (socket = Disconnected => socket' = Disconnected)
PROOF
<1>1. ServerInv' /\ nextCursor' = nextCursor + 1 /\ nextCursor \in Nat
  BY ClearGoesOn DEF ServerInv
<1>2. Base \in Nat /\ Base' \in Nat
  BY <1>1, BaseIsInt, BaseIsIntNext DEF Placed
<1>3. stored' = <<>> /\ Len(stored) \in Nat
  BY BaseIsInt DEF ClearEvents, Placed
<1>4. Len(stored') = 0
  BY <1>3
<1>5. Base <= Base'
  BY <1>1, <1>3, <1>4 DEF Base
<1>6. Cleared \in Messages(Base) /\ Broadcast(Cleared)
  BY DEF Cleared, Messages, ClearEvents
<1>7. socket' \in Sockets(Base) /\ (socket = Disconnected => socket' = Disconnected)
  BY <1>6, BroadcastSends
<1> QED BY <1>2, <1>5, <1>7, StaysTrue

LEMMA SnapshotIsTrue == ServerInv => Snapshot \in Messages(Base)
PROOF
<1> SUFFICES ASSUME ServerInv PROVE Snapshot \in Messages(Base)
  OBVIOUS
<1>1. Len(stored) \in Nat /\ nextCursor \in Nat
  BY BaseIsInt DEF ServerInv, Placed
<1> QED BY <1>1 DEF Snapshot, Messages, Base

LEMMA StreamTells ==
    ASSUME ServerInv, socket \in Sockets(Base), StreamStep
    PROVE  socket' \in Sockets(Base)
PROOF
<1> DEFINE M == Messages(Base)
<1>1. socket.channel \in Seq(M) /\ socket.wire \in Seq(M)
  BY DEF Sockets
<1>2. Snapshot \in M
  BY SnapshotIsTrue
<1>3. CASE Subscribe
  BY <1>3, NoMessages DEF Subscribe, Sockets
<1>4. CASE SendSnapshot
  <2>1. Append(socket.wire, Snapshot) \in Seq(M)
    BY <1>1, <1>2
  <2> QED BY <1>4, <2>1 DEF SendSnapshot, Sockets
<1>5. CASE Forward
  <2>1. socket.channel # <<>>
    BY <1>5 DEF Forward
  <2>2. Head(socket.channel) \in M /\ Tail(socket.channel) \in Seq(M)
    BY <1>1, <2>1
  <2>3. Append(socket.wire, Head(socket.channel)) \in Seq(M)
    BY <1>1, <2>2
  <2> QED BY <1>5, <2>2, <2>3 DEF Forward, Sockets
<1>6. CASE SendStats
  <2>1. <<Snapshot>> \in Seq(M)
    BY <1>2
  <2> QED BY <1>6, <2>1 DEF SendStats, Sockets
<1>7. CASE HangUp
  BY <1>7 DEF HangUp, Sockets
<1> QED BY <1>3, <1>4, <1>5, <1>6, <1>7 DEF StreamStep

\* What is added to the list is finite, too.
LEMMA ListedEntries ==
    ASSUME numbering \in Nat, NEW S \in SUBSET Nat, IsFiniteSet(S)
    PROVE  Listed(EntriesOf(S))
PROOF
<1> DEFINE f == [c \in S |-> Entry(c)]
<1>1. EntriesOf(S) \subseteq Labels
  BY DEF EntriesOf, Entry, Labels
<1>2. f \in Surjection(S, EntriesOf(S))
  BY DEF EntriesOf, Surjection
<1>3. IsFiniteSet(EntriesOf(S))
  BY <1>2, FS_Surjection
<1> QED BY <1>1, <1>3 DEF Listed

LEMMA ListedPage ==
    ASSUME numbering \in Nat, NEW page, page.events \in Seq(Entries)
    PROVE  Listed(PageEntries(page))
PROOF
<1> DEFINE s == page.events
           S == CursorsOf(s)
           f == [i \in 1..Len(s) |-> s[i].cursor]
<1>1. DOMAIN s = 1..Len(s) /\ Len(s) \in Nat /\ \A i \in 1..Len(s) : s[i] \in Entries
  BY ElementOfSeq
<1>2. S \subseteq Nat
  BY <1>1 DEF CursorsOf, Entries
<1>3. f \in Surjection(1..Len(s), S)
  BY <1>1 DEF CursorsOf, Surjection
<1>4. IsFiniteSet(1..Len(s))
  BY <1>1, FS_Interval
<1>5. IsFiniteSet(S)
  BY <1>3, <1>4, FS_Surjection
<1> QED BY <1>2, <1>5, ListedEntries DEF PageEntries

LEMMA ListedBoth ==
    ASSUME NEW S, NEW T, Listed(S), Listed(T)
    PROVE  Listed(S \cup T)
PROOF
BY FS_Union DEF Listed

LEMMA ListedFewer ==
    ASSUME NEW S, NEW T, Listed(S)
    PROVE  Listed(S \ T)
PROOF
BY FS_Difference DEF Listed

LEMMA ListedNone == Listed({})
PROOF
BY FS_EmptySet DEF Listed

-----------------------------------------------------------------------------

LEMMA BrowserStarts == Init => BrowserInv
PROOF
<1> SUFFICES ASSUME Init PROVE BrowserInv
  OBVIOUS
<1>1. /\ socket = Disconnected /\ shown = {} /\ pending = {} /\ numbering = 0
      /\ view = [at |-> "load"] /\ older = NoCall /\ scope = NoCall
  BY DEF Init, BrowserInit, ServerInit
<1> QED BY <1>1, NoMessages, ListedNone DEF BrowserInv, Displayed, NoCall

\* A step that keeps the server as it is.
LEMMA SameBase ==
    ASSUME UNCHANGED <<stored, nextCursor>>
    PROVE  Sockets(Base)' = Sockets(Base)
PROOF
BY DEF Base, Sockets, Messages

\* Calls, and what is shown of their answers.
LEMMA AnswersKeep ==
    ASSUME ServerInv, BrowserInv, kind' = kind,
           \/ AnswerLoad \/ AskOlder \/ AnswerOlder \/ ApplyOlder
           \/ AskScope \/ AnswerScope \/ ApplyScope \/ TogglePause \/ ApplyClear
    PROVE  BrowserInv'
PROOF
<1>1. UNCHANGED serverVars /\ numbering' = numbering
  BY DEF AnswerLoad, AskOlder, AnswerOlder, ApplyOlder, AskScope, AnswerScope, ApplyScope,
         TogglePause, ApplyClear, history
<1>2. UNCHANGED <<stored, nextCursor, socket>>
  BY <1>1 DEF serverVars
<1>3. (socket \in Sockets(Base) /\ (kind # "browser" => socket = Disconnected))'
  BY <1>2, SameBase DEF BrowserInv
<1>4. PageSize \in Int
  BY BrowserAssumption
<1>5. ASSUME NEW before PROVE ListEvents(Everything, 0, before, PageSize).events \in Seq(Entries)
  BY <1>4, PageIsNewest
<1> USE DEF Displayed
<1>6. Displayed
  BY DEF BrowserInv
<1>7. Displayed'
  <2>1. CASE AnswerLoad
    BY <1>5, <1>6, <2>1 DEF AnswerLoad, calls
  <2>2. CASE AskOlder
    BY <1>6, <2>2 DEF AskOlder, display
  <2>3. CASE AnswerOlder
    BY <1>5, <1>6, <2>3 DEF AnswerOlder, display
  <2>4. CASE ApplyOlder
    <3>1. Listed(PageEntries(older.page))
      BY <1>6, <2>4, ListedPage DEF ApplyOlder, BrowserInv
    <3>2. Listed(shown')
      BY <1>6, <2>4, <3>1, ListedBoth DEF ApplyOlder
    <3> QED BY <1>6, <2>4, <3>2 DEF ApplyOlder, NoCall
  <2>5. CASE AskScope
    BY <1>6, <2>5 DEF AskScope, display
  <2>6. CASE AnswerScope
    <3>1. PICK found \in SUBSET StoredCursors : scope' = [at |-> "answered", found |-> found]
      BY <2>6 DEF AnswerScope
    <3>2. StoredCursors \subseteq 1..nextCursor /\ nextCursor \in Nat
      BY StoredEntries DEF ServerInv
    <3>3. found \in SUBSET Nat /\ found \in SUBSET (1..nextCursor) /\ IsFiniteSet(1..nextCursor)
      BY <3>2, FS_Interval
    <3>4. IsFiniteSet(found)
      BY <3>3, FS_Subset
    <3> QED BY <1>6, <2>6, <3>1, <3>3, <3>4 DEF AnswerScope, display
  <2>7. CASE ApplyScope
    <3>1. Listed(EntriesOf(scope.found))
      BY <1>6, <2>7, ListedEntries DEF ApplyScope, BrowserInv
    <3>2. Listed(shown')
      BY <1>6, <2>7, <3>1, ListedBoth DEF ApplyScope
    <3> QED BY <1>6, <2>7, <3>2 DEF ApplyScope, NoCall
  <2>8. CASE TogglePause
    <3>1. Listed(shown') /\ Listed(pending')
      BY <1>6, <2>8, ListedBoth, ListedNone DEF TogglePause
    <3> QED BY <1>6, <2>8, <3>1 DEF TogglePause, calls
  <2>9. CASE ApplyClear
    <3>1. Listed(shown')
      BY <1>6, <2>9, ListedFewer DEF ApplyClear, Forgets
    <3> QED BY <1>6, <2>9, <3>1 DEF ApplyClear
  <2> QED BY <2>1, <2>2, <2>3, <2>4, <2>5, <2>6, <2>7, <2>8, <2>9
<1> QED BY <1>1, <1>3, <1>7 DEF BrowserInv

\* The first page, and the stream.
LEMMA ConnectionKeeps ==
    ASSUME ServerInv, BrowserInv, kind = "browser", kind' = kind,
           \/ ApplyLoad \/ Receive \/ Reconnect \/ Break
           \/ StreamStep /\ UNCHANGED <<stored, nextCursor, session, failures, browserVars>>
    PROVE  BrowserInv'
PROOF
<1> USE DEF Displayed
<1>1. Displayed /\ socket \in Sockets(Base) /\ numbering \in Nat
  BY DEF BrowserInv
<1>2. UNCHANGED <<stored, nextCursor>> /\ numbering' = numbering
  BY DEF ApplyLoad, Receive, Reconnect, Break, browserVars, history
<1>3. Sockets(Base)' = Sockets(Base)
  BY <1>2, SameBase
<1>4. socket' \in Sockets(Base) /\ Displayed'
  <2>1. CASE ApplyLoad
    <3>1. Listed(shown')
      BY <1>1, <2>1, ListedPage DEF ApplyLoad
    <3>2. socket' \in Sockets(Base)
      BY <1>1, <2>1 DEF ApplyLoad, Sockets
    <3> QED BY <1>1, <2>1, <3>1, <3>2 DEF ApplyLoad, calls
  <2>2. CASE Receive
    <3>1. socket.wire \in Seq(Messages(Base)) /\ socket.wire # <<>>
      BY <1>1, <2>2 DEF Sockets, Receive
    <3> DEFINE M == Messages(Base)
    <3>2. Head(socket.wire) \in M /\ Tail(socket.wire) \in Seq(M)
      <4> HIDE DEF M
      <4>1. socket.wire \in Seq(M) /\ socket.wire # <<>>
        BY <3>1 DEF M
      <4> QED BY <4>1
    <3>3. socket' \in Sockets(Base)
      BY <1>1, <2>2, <3>2 DEF Receive, Sockets
    <3> DEFINE m == Head(socket.wire)
    <3>4. Listed(shown') /\ Listed(pending')
      <4>1. CASE m.type = "created" /\ ReceiveEntry(Entry(m.cursor))
        <5>1. m.cursor \in Nat
          BY <3>2, <4>1 DEF Messages
        <5> DEFINE e == Entry(m.cursor)
        <5>2. e \in Labels
          BY <1>1, <5>1 DEF Entry, Labels
        <5> HIDE DEF e
        <5>3. Listed(shown \cup {e}) /\ Listed(pending \cup {e})
          BY <1>1, <5>2, FS_AddElement DEF Listed
        <5> QED BY <1>1, <4>1, <5>3 DEF ReceiveEntry, e
      <4>2. CASE m.type = "cleared" /\ ReceiveCleared
        BY <1>1, <4>2, ListedNone DEF ReceiveCleared
      <4>3. CASE m.type = "stats" /\ ReceiveStats(m.retained)
        <5>1. shown' = shown \/ \E gone : shown' = shown \ gone
          BY <4>3 DEF ReceiveStats, Forgets
        <5>2. pending' = pending
          BY <4>3 DEF ReceiveStats
        <5> QED BY <1>1, <5>1, <5>2, ListedFewer
      <4> QED BY <2>2, <4>1, <4>2, <4>3 DEF Receive
    <3> QED BY <1>1, <2>2, <3>3, <3>4 DEF Receive, calls
  <2>3. CASE Reconnect
    <3>1. socket' \in Sockets(Base)
      BY <1>1, <2>3, NoMessages DEF Reconnect, Sockets
    <3> QED BY <1>1, <2>3, <3>1 DEF Reconnect, browserVars, display, calls
  <2>4. CASE Break
    <3>1. socket' \in Sockets(Base)
      BY <1>1, <2>4, NoMessages DEF Break, Sockets
    <3> QED BY <1>1, <2>4, <3>1 DEF Break, display, calls
  <2>5. CASE StreamStep /\ UNCHANGED <<stored, nextCursor, session, failures, browserVars>>
    BY <1>1, <2>5, StreamTells DEF browserVars, display, calls
  <2> QED BY <2>1, <2>2, <2>3, <2>4, <2>5
<1> QED BY <1>1, <1>2, <1>3, <1>4 DEF BrowserInv

\* Steps of the server.
LEMMA ServerKeeps ==
    ASSUME ServerInv, BrowserInv, kind = "browser", kind' = kind,
           \/ ClearHere \/ ClearElsewhere \/ BrowserRestart
           \/ \E class \in Classes : BrowserPut(class)
    PROVE  BrowserInv'
PROOF
<1> USE DEF Displayed
<1>1. Displayed /\ socket \in Sockets(Base) /\ numbering \in Nat
  BY DEF BrowserInv
<1>2. Displayed' /\ numbering' \in Nat
  <2>1. CASE ClearHere \/ ClearElsewhere
    BY <1>1, <2>1 DEF ClearHere, ClearElsewhere, display, calls
  <2>2. CASE BrowserRestart
    BY <1>1, <2>2 DEF BrowserRestart, NoCall
  <2>3. ASSUME NEW class \in Classes, BrowserPut(class) PROVE Displayed' /\ numbering' \in Nat
    BY <1>1, <2>3 DEF BrowserPut, display, calls
  <2> QED BY <2>1, <2>2, <2>3
<1>3. socket' \in Sockets(Base)'
  <2>1. CASE ClearHere \/ ClearElsewhere
    BY <1>1, <2>1, ClearTells DEF ClearHere, ClearElsewhere
  <2>2. CASE BrowserRestart
    <3>1. socket' = Disconnected \/ socket' = [Disconnected EXCEPT !.at = "closing"]
      BY <2>2 DEF BrowserRestart
    <3>2. <<>> \in Seq(Messages(Base)')
      OBVIOUS
    <3>3. Disconnected \in Sockets(Base)'
      BY <3>2 DEF Disconnected, Sockets
    <3> QED BY <3>1, <3>3 DEF Sockets
  <2>3. ASSUME NEW class \in Classes, BrowserPut(class) PROVE socket' \in Sockets(Base)'
    BY <1>1, <2>3, PutTells DEF BrowserPut
  <2> QED BY <2>1, <2>2, <2>3
<1> QED BY <1>2, <1>3 DEF BrowserInv

\* The callers of the Go client leave the browser alone, which is not there.
LEMMA CallersKeep ==
    ASSUME ServerInv, BrowserInv, kind # "browser", kind' = kind, UNCHANGED browserVars,
           \/ ClientNext(Entering)
           \/ \E c \in Waiters : WaitForRequest(c)
           \/ \E c \in Inspectors : InspectRequest(c)
           \/ \E c \in Watchers : Stats(c)
    PROVE  BrowserInv'
PROOF
<1> USE DEF Displayed
<1>1. /\ Displayed /\ numbering \in Nat /\ socket \in Sockets(Base) /\ socket = Disconnected
  BY DEF BrowserInv
<1>2. Displayed' /\ numbering' \in Nat
  BY <1>1 DEF browserVars, display, calls, history
<1>3. socket' = Disconnected
  <2>1. ASSUME NEW e \in Entering, Put(e[1], e[2])
        PROVE  socket' = Disconnected
    <3>1. e[1] \in Classes /\ e[2] \in SUBSET Nat
      BY ClientsAssumption DEF Entering
    <3> QED BY <1>1, <2>1, <3>1, PutTells
  <2>2. CASE ClearEvents
    BY <1>1, <2>2, ClearTells
  <2>3. CASE ClientRestart \/ RecordLoginFailure \/ WindowEnds
    BY <1>1, <2>3 DEF ClientRestart, RecordLoginFailure, WindowEnds
  <2>4. ASSUME NEW c, Proceed(c) \/ Cancel(c) PROVE socket' = socket
    BY <2>4 DEF Proceed, Cancel, Ask, Authenticate, Unauthorized, LoginBlocks, LoginAccepts, Answer,
                serverVars
  <2>5. ASSUME NEW c, Stats(c) \/ WaitForRequest(c) \/ InspectRequest(c) PROVE socket' = socket
    BY <2>5 DEF Stats, WaitForRequest, InspectRequest, serverVars
  <2> QED BY <1>1, <2>1, <2>2, <2>3, <2>4, <2>5 DEF ClientNext
<1>4. <<>> \in Seq(Messages(Base)')
  OBVIOUS
<1>5. Disconnected \in Sockets(Base)'
  BY <1>4 DEF Disconnected, Sockets
<1> QED BY <1>2, <1>3, <1>5 DEF BrowserInv

\* Every step keeps it, and one that changes nothing.
LEMMA BrowserInvKept ==
    ASSUME ServerInv, BrowserInv, [Next]_vars
    PROVE  BrowserInv'
PROOF
<1>1. CASE UNCHANGED vars
  <2>1. UNCHANGED <<stored, nextCursor, socket, kind, numbering, shown, pending, view, older, scope>>
    BY <1>1 DEF vars, serverVars, browserVars, display, calls, history
  <2>2. Sockets(Base)' = Sockets(Base)
    BY <2>1, SameBase
  <2> QED BY <2>1, <2>2 DEF BrowserInv, Displayed
<1>2. CASE Next
  <2>1. kind' = kind
    BY <1>2 DEF Next
  <2>2. CASE kind = "browser" /\ BrowserNext
    BY <2>1, <2>2, AnswersKeep, ConnectionKeeps, ServerKeeps DEF BrowserNext
  <2>3. CASE kind # "browser" /\ UNCHANGED browserVars
    BY <1>2, <2>1, <2>3, CallersKeep DEF Next
  <2> QED BY <1>2, <2>2, <2>3 DEF Next
<1> QED BY <1>1, <1>2

\* There are not more of the entries above a cursor than cursors.
LEMMA NotMoreThanCursors ==
    ASSUME NEW c \in Nat, NEW u \in Nat, c <= u, NEW S \in SUBSET EntriesOf((c + 1)..u)
    PROVE  Cardinality(S) <= u - c
PROOF
<1> DEFINE I == (c + 1)..u
           f == [i \in I |-> Entry(i)]
<1>1. IsFiniteSet(I) /\ Cardinality(I) = u - c
  <2> DEFINE a == c + 1
  <2>1. a \in Int /\ u \in Int /\ (a <= u => (u - a) + 1 = u - c) /\ (~(a <= u) => u - c = 0)
    OBVIOUS
  <2> HIDE DEF a
  <2>2. IsFiniteSet(a..u) /\ Cardinality(a..u) = u - c
    BY <2>1, FS_Interval
  <2> QED BY <2>2 DEF a
<1>2. f \in Surjection(I, EntriesOf(I))
  BY DEF EntriesOf, Surjection
<1>3. IsFiniteSet(EntriesOf(I)) /\ Cardinality(EntriesOf(I)) <= Cardinality(I)
  BY <1>1, <1>2, FS_Surjection
<1>4. /\ Cardinality(S) <= Cardinality(EntriesOf(I)) /\ Cardinality(S) \in Nat
      /\ Cardinality(EntriesOf(I)) \in Nat
  BY <1>3, FS_Subset, FS_CardinalityType
<1> QED BY <1>1, <1>3, <1>4

\* Statistics make the browser forget as many entries as there are too many.  If one
\* of them is stored, there are not enough cursors above it for those that stay,
\* which are therefore not all of this server or newer than the statistics.
LEMMA CountedAgainst ==
    ASSUME ServerInv, BrowserInv, Receive, Head(socket.wire).type = "stats",
           NEW c \in StoredCursors, Entry(c) \in shown \ shown'
    PROVE  \E e \in shown :
              /\ e.cursor >= c
              /\ e.numbering # numbering \/ e.cursor > Head(socket.wire).cursor
PROOF
<1> DEFINE m == Head(socket.wire)
           n == m.retained
           u == m.cursor
<1>1. m \in Messages(Base)
  <2> DEFINE M == Messages(Base)
  <2>1. socket.wire \in Seq(M) /\ socket.wire # <<>>
    BY DEF BrowserInv, Sockets, Receive
  <2> HIDE DEF M
  <2>2. Head(socket.wire) \in M
    BY <2>1
  <2> QED BY <2>2 DEF M
<1>2. n \in Nat /\ u \in Nat /\ u - n <= Base
  BY <1>1 DEF Messages
<1>3. c \in Nat /\ c > Base /\ Base \in Nat
  BY StoredEntries, BaseIsInt DEF Base, Placed, ServerInv
<1>4. shown \subseteq Labels /\ IsFiniteSet(shown) /\ Cardinality(shown) \in Nat
  BY FS_CardinalityType DEF BrowserInv, Displayed, Listed
<1>5. ReceiveStats(n)
  BY DEF Receive
<1> HIDE DEF m, n, u
<1>6. Cardinality(shown) > n
  BY <1>2, <1>4, <1>5 DEF ReceiveStats
<1>7. PICK gone \in Expired(shown, Cardinality(shown) - n) : shown' = shown \ gone
  BY <1>2, <1>4, <1>5, <1>6 DEF ReceiveStats, Forgets
<1> DEFINE kept == shown \ gone
<1>8. /\ gone \in SUBSET shown /\ Cardinality(gone) = Cardinality(shown) - n
      /\ \A e \in gone, f \in kept : e.cursor <= f.cursor
  BY <1>7 DEF Expired
<1>9. Cardinality(kept) = n
  <2>1. shown \cap gone = gone
    BY <1>8
  <2>2. Cardinality(kept) = Cardinality(shown) - Cardinality(gone)
    BY <1>4, <2>1, FS_Difference
  <2> QED BY <1>2, <1>4, <1>8, <2>2
<1>10. Entry(c) \in gone /\ Entry(c) \notin kept /\ Entry(c).cursor = c
       /\ Entry(c).numbering = numbering
  BY <1>7, <1>8 DEF Entry
<1>11. SUFFICES ASSUME \A e \in shown : e.cursor >= c => e.numbering = numbering /\ e.cursor <= u
                PROVE  FALSE
  BY <1>3, <1>2, <1>4 DEF Labels, u, m
<1>12. c <= u
  BY <1>3, <1>8, <1>10, <1>11
<1>13. kept \in SUBSET EntriesOf((c + 1)..u)
  <2> SUFFICES ASSUME NEW f \in kept PROVE f \in EntriesOf((c + 1)..u)
    OBVIOUS
  <2>1. f \in Labels /\ f \in shown /\ c <= f.cursor
    BY <1>4, <1>8, <1>10
  <2>2. f.cursor \in Nat /\ f.numbering = numbering /\ f.cursor <= u
    BY <1>3, <1>11, <2>1 DEF Labels
  <2>3. f = Entry(f.cursor)
    BY <2>1, <2>2 DEF Labels, Entry
  <2>4. f.cursor # c
    BY <1>10, <2>3
  <2>5. f.cursor \in (c + 1)..u
    BY <1>2, <1>3, <2>1, <2>2, <2>4
  <2> QED BY <2>3, <2>5 DEF EntriesOf
<1> HIDE DEF kept
<1>14. n <= u - c
  BY <1>2, <1>3, <1>9, <1>12, <1>13, NotMoreThanCursors
<1> QED BY <1>2, <1>3, <1>14

\* Statistics make the browser forget an entry that the server still has only if they
\* did not count an entry that it shows (receiveStats, reconcileLoadedEvents): for
\* every size of the store, the pages and the channel of the stream, and
\* whatever is restarted, cleared, held back or asked for meanwhile.
THEOREM StatsForgetNothing == Spec => ForgetsOnlyRetired
PROOF
<1>1. Spec => Init /\ [][Next]_vars
  BY PTL DEF Spec
<1>2. Init => BrowserInv
  BY BrowserStarts
<1>3. ClientInv => ServerInv
  BY DEF ClientInv
<1>4. ServerInv /\ BrowserInv /\ [Next]_vars => BrowserInv'
  BY BrowserInvKept
<1>5. ServerInv /\ BrowserInv =>
        (Receive /\ Head(socket.wire).type = "stats" =>
           \A c \in StoredCursors : Entry(c) \in shown \ shown' =>
             \E e \in shown :
                /\ e.cursor >= c
                /\ e.numbering # numbering \/ e.cursor > Head(socket.wire).cursor)
  BY CountedAgainst
<1> QED BY <1>1, <1>2, <1>3, <1>4, <1>5, Calling, PTL DEF ForgetsOnlyRetired
=============================================================================
