-------------------------- MODULE ProfilingProofs ---------------------------
(***************************************************************************)
(* What holds of the parts around the store: of the profilers of a process *)
(* for every number of goroutines and routers, however many profilers are  *)
(* created and closed; of the spans of a trace, however many there are; of *)
(* a captured response; and of an operation of an integration, whatever    *)
(* plans the database answers and however much is sent at once.            *)
(***************************************************************************)
EXTENDS Profiling, SequenceTheorems, FiniteSetTheorems, WellFoundedInduction, TLAPS

-----------------------------------------------------------------------------
(* The profilers of a process.                                             *)

ProfilerRecords ==
    [open : BOOLEAN, server : BOOLEAN, handed : BOOLEAN,
     listener : {"none", "bound", "serving", "closing", "closed"}]

CallerRecords ==
    [at : {"idle", "url", "shutdown", "stop", "close", "clear"}, p : Nat, server : BOOLEAN]

LifecycleTypeOK ==
    /\ default \in Nat
    /\ mutex \in Goroutines \cup {Nobody}
    /\ profilers \in Seq(ProfilerRecords)
    /\ caller \in [Goroutines -> CallerRecords]

Releases(g) == caller[g].at \in {"stop", "close", "clear"}

(***************************************************************************)
(* The lock: who releases a profiler holds it, and releases one that has   *)
(* been handed out and whose server it has taken.                          *)
(***************************************************************************)
Locked ==
    \A g \in Goroutines :
        /\ Releases(g) <=> mutex = g
        /\ caller[g].at # "idle" => caller[g].p \in Known
        /\ Releases(g) => ~profilers[caller[g].p].server
        /\ caller[g].at = "clear" => ~profilers[caller[g].p].open

\* Of the profilers handed out only the default one is open, and it is but for
\* the step between its closing and the clearing of the default.
OnlyDefaultOpen ==
    /\ \A p \in Known : profilers[p].open => p = default
    /\ default # NoProfiler =>
         /\ default \in Known
         /\ \/ profilers[default].open
            \/ \E g \in Goroutines : caller[g].at = "clear" /\ caller[g].p = default

Listens(p) == profilers[p].listener \in {"bound", "serving"}

\* A server goes before its store: a listener that is not about to be stopped
\* belongs to a profiler that knows its server, and neither outlives the step
\* that stops it.
ServersGoFirst ==
    \A p \in DOMAIN profilers :
        /\ profilers[p].server \/ Listens(p) => profilers[p].open /\ p \in Known
        /\ Listens(p) =>
             \/ profilers[p].server
             \/ \E g \in Goroutines :
                   caller[g].at = "stop" /\ caller[g].p = p /\ caller[g].server
        /\ \A g \in Goroutines :
             caller[g].at \in {"close", "clear"} /\ caller[g].p = p => ~Listens(p)

LifecycleInv == LifecycleTypeOK /\ Locked /\ OnlyDefaultOpen /\ ServersGoFirst

-----------------------------------------------------------------------------

LEMMA LifecycleStarts == LifecycleInit => LifecycleInv
PROOF
<1> SUFFICES ASSUME LifecycleInit PROVE LifecycleInv
  OBVIOUS
<1>1. profilers = <<>> /\ DOMAIN profilers = {} /\ Known = {}
  BY DEF LifecycleInit, Known
<1>2. LifecycleTypeOK
  BY <1>1 DEF LifecycleInit, LifecycleTypeOK, CallerRecords, Idle, NoProfiler
<1>3. Locked
  BY LifecycleAssumption DEF LifecycleInit, Locked, Releases, Idle
<1>4. OnlyDefaultOpen
  BY <1>1 DEF LifecycleInit, OnlyDefaultOpen
<1>5. ServersGoFirst
  BY <1>1 DEF ServersGoFirst
<1> QED BY <1>2, <1>3, <1>4, <1>5 DEF LifecycleInv

\* A profiler joins: what the others are and who knows them does not change.
LEMMA Joins ==
    ASSUME LifecycleTypeOK, NEW e \in ProfilerRecords,
           profilers' = Append(profilers, e)
    PROVE  LET n == Len(profilers) + 1 IN
           /\ n \in Nat \ {0}
           /\ profilers' \in Seq(ProfilerRecords)
           /\ Len(profilers') = n
           /\ n \notin DOMAIN profilers
           /\ DOMAIN profilers' = DOMAIN profilers \cup {n}
           /\ \A p \in DOMAIN profilers : profilers'[p] = profilers[p]
           /\ profilers'[n] = e
           /\ Known' = IF e.handed THEN Known \cup {n} ELSE Known
PROOF
<1> DEFINE n == Len(profilers) + 1
<1>1. /\ profilers \in Seq(ProfilerRecords) /\ Len(profilers) \in Nat
      /\ DOMAIN profilers = 1 .. Len(profilers)
  BY DEF LifecycleTypeOK
<1>2. /\ profilers' \in Seq(ProfilerRecords) /\ Len(profilers') = n
      /\ \A p \in 1 .. Len(profilers) : profilers'[p] = profilers[p]
      /\ profilers'[n] = e
  BY <1>1, AppendProperties
<1>3. DOMAIN profilers' = DOMAIN profilers \cup {n}
  BY <1>1, <1>2
<1>4. Known' = IF e.handed THEN Known \cup {n} ELSE Known
  BY <1>1, <1>2, <1>3 DEF Known
<1> QED BY <1>1, <1>2, <1>3, <1>4

\* A profiler changes, but for whether it has been handed out.
LEMMA Changes ==
    ASSUME LifecycleTypeOK, NEW p \in DOMAIN profilers, NEW e \in ProfilerRecords,
           e.handed = profilers[p].handed,
           profilers' = [profilers EXCEPT ![p] = e]
    PROVE  /\ profilers' \in Seq(ProfilerRecords)
           /\ DOMAIN profilers' = DOMAIN profilers
           /\ profilers'[p] = e
           /\ \A q \in DOMAIN profilers : q # p => profilers'[q] = profilers[q]
           /\ Known' = Known
PROOF
<1>1. profilers \in Seq(ProfilerRecords) /\ DOMAIN profilers = 1 .. Len(profilers)
  BY DEF LifecycleTypeOK
<1>2. profilers' \in Seq(ProfilerRecords) /\ Len(profilers') = Len(profilers)
  BY <1>1, ExceptSeq
<1>3. DOMAIN profilers' = DOMAIN profilers
  OBVIOUS
<1>4. /\ profilers'[p] = e
      /\ \A q \in DOMAIN profilers : q # p => profilers'[q] = profilers[q]
  OBVIOUS
<1>5. Known' = Known
  BY <1>3, <1>4 DEF Known
<1> QED BY <1>2, <1>3, <1>4, <1>5

-----------------------------------------------------------------------------
(* Each step keeps the invariant.                                          *)

\* New and Start: the new profiler is the default, and nobody knows it before.
LEMMA NewKeeps ==
    ASSUME LifecycleInv, default = NoProfiler, mutex = Nobody,
           NEW listener \in {"none", "bound"},
           profilers' = Append(profilers, Profiler(listener, TRUE)),
           default' = Len(profilers'), UNCHANGED <<mutex, caller>>
    PROVE  LifecycleInv'
PROOF
<1> DEFINE e == Profiler(listener, TRUE)
           n == Len(profilers) + 1
<1>1. e \in ProfilerRecords /\ e.handed /\ e.open /\ (e.server <=> listener = "bound")
      /\ e.listener = listener
  BY DEF Profiler, ProfilerRecords
<1>2. LifecycleTypeOK
  BY DEF LifecycleInv
<1> HIDE DEF e
<1>3. profilers' = Append(profilers, e)
  BY DEF e
<1>4. /\ n \in Nat \ {0}
      /\ profilers' \in Seq(ProfilerRecords)
      /\ Len(profilers') = n
      /\ n \notin DOMAIN profilers
      /\ DOMAIN profilers' = DOMAIN profilers \cup {n}
      /\ \A p \in DOMAIN profilers : profilers'[p] = profilers[p]
      /\ profilers'[n] = e
      /\ Known' = Known \cup {n}
  BY <1>1, <1>2, <1>3, Joins
<1>5. default' = n
  BY <1>4
<1> HIDE DEF n
<1>6. LifecycleTypeOK'
  BY <1>2, <1>4, <1>5 DEF LifecycleTypeOK
<1>7. Known \subseteq DOMAIN profilers
  BY DEF Known
<1>8. \A g \in Goroutines : ~Releases(g)
  BY LifecycleAssumption DEF LifecycleInv, Locked
<1>9. Locked'
  BY <1>4, <1>8, LifecycleAssumption DEF LifecycleInv, Locked, Releases
<1>10. OnlyDefaultOpen'
  <2>1. \A p \in DOMAIN profilers : p # 0
    BY <1>2 DEF LifecycleTypeOK
  <2>2. \A p \in Known : ~profilers[p].open
    BY <2>1, <1>7 DEF LifecycleInv, OnlyDefaultOpen, NoProfiler
  <2>3. n \in Known' /\ profilers'[n].open
    BY <1>1, <1>4
  <2>4. \A p \in Known' : profilers'[p].open => p = n
    BY <1>4, <1>7, <2>2
  <2> QED BY <1>5, <2>3, <2>4 DEF OnlyDefaultOpen
<1>11. ServersGoFirst'
  <2> SUFFICES ASSUME NEW p \in DOMAIN profilers'
               PROVE  /\ profilers'[p].server \/ Listens(p)' => profilers'[p].open /\ p \in Known'
                      /\ Listens(p)' => profilers'[p].server
                      /\ \A g \in Goroutines :
                           ~(caller[g].at \in {"close", "clear"} /\ caller[g].p = p)
    BY DEF ServersGoFirst
  <2>1. \A g \in Goroutines : caller[g].at \notin {"stop", "close", "clear"}
    BY <1>8 DEF Releases
  <2>2. CASE p = n
    BY <1>1, <1>4, <2>1, <2>2 DEF Listens
  <2>3. CASE p \in DOMAIN profilers
    BY <1>4, <2>1, <2>3 DEF LifecycleInv, ServersGoFirst, Listens
  <2> QED BY <1>4, <2>2, <2>3
<1> QED BY <1>6, <1>9, <1>10, <1>11 DEF LifecycleInv

\* register panics: the profiler is nobody's.
LEMMA PanicKeeps ==
    ASSUME LifecycleInv, NEW g \in Goroutines, NEW r, NewPanics(g, r)
    PROVE  LifecycleInv'
PROOF
<1> DEFINE e == Profiler("none", FALSE)
           n == Len(profilers) + 1
<1>1. e \in ProfilerRecords /\ ~e.handed /\ ~e.server /\ e.listener = "none"
  BY DEF Profiler, ProfilerRecords
<1>2. LifecycleTypeOK
  BY DEF LifecycleInv
<1> HIDE DEF e
<1>3. profilers' = Append(profilers, e) /\ UNCHANGED <<default, mutex, caller>>
  BY DEF NewPanics, e
<1>4. /\ n \in Nat \ {0}
      /\ profilers' \in Seq(ProfilerRecords)
      /\ n \notin DOMAIN profilers
      /\ DOMAIN profilers' = DOMAIN profilers \cup {n}
      /\ \A p \in DOMAIN profilers : profilers'[p] = profilers[p]
      /\ profilers'[n] = e
      /\ Known' = Known
  BY <1>1, <1>2, <1>3, Joins
<1> HIDE DEF n
<1>5. LifecycleTypeOK'
  BY <1>2, <1>3, <1>4 DEF LifecycleTypeOK
<1>6. Known \subseteq DOMAIN profilers
  BY DEF Known
<1>7. Locked'
  BY <1>3, <1>4, <1>6 DEF LifecycleInv, Locked, Releases
<1>8. OnlyDefaultOpen'
  BY <1>3, <1>4, <1>6 DEF LifecycleInv, OnlyDefaultOpen
<1>9. ServersGoFirst'
  <2> SUFFICES ASSUME NEW p \in DOMAIN profilers'
               PROVE  /\ profilers'[p].server \/ Listens(p)' => profilers'[p].open /\ p \in Known'
                      /\ Listens(p)' =>
                           \/ profilers'[p].server
                           \/ \E h \in Goroutines :
                                 caller[h].at = "stop" /\ caller[h].p = p /\ caller[h].server
                      /\ \A h \in Goroutines :
                           caller[h].at \in {"close", "clear"} /\ caller[h].p = p => ~Listens(p)'
    BY <1>3 DEF ServersGoFirst
  <2>1. CASE p = n
    BY <1>1, <1>4, <2>1 DEF Listens
  <2>2. CASE p \in DOMAIN profilers
    BY <1>4, <2>2 DEF LifecycleInv, ServersGoFirst, Listens
  <2> QED BY <1>4, <2>1, <2>2
<1> QED BY <1>5, <1>7, <1>8, <1>9 DEF LifecycleInv

\* A goroutine that asks for a URL, or reads the default, holds nothing yet.
LEMMA ReadingKeeps ==
    ASSUME LifecycleInv, NEW g \in Goroutines, ~Releases(g), NEW c \in CallerRecords,
           c.at \in {"idle", "url", "shutdown"}, c.at # "idle" => c.p \in Known,
           caller' = [caller EXCEPT ![g] = c],
           UNCHANGED <<default, mutex, profilers, mounted>>
    PROVE  LifecycleInv'
PROOF
<1> USE DEF LifecycleInv
<1>1. LifecycleTypeOK'
  BY DEF LifecycleTypeOK
<1>2. /\ caller'[g] = c
      /\ \A h \in Goroutines : h # g => caller'[h] = caller[h]
      /\ Known' = Known
  BY DEF LifecycleTypeOK, Known
<1>3. Locked'
  BY <1>2 DEF Locked, Releases
<1>4. OnlyDefaultOpen'
  BY <1>2 DEF OnlyDefaultOpen, Releases
<1>5. ServersGoFirst'
  BY <1>2 DEF ServersGoFirst, Releases, Listens
<1> QED BY <1>1, <1>3, <1>4, <1>5

\* Serve ends or begins what is bound; it touches neither store nor server.
LEMMA ServeKeeps ==
    ASSUME LifecycleInv, NEW p \in DOMAIN profilers, Serve(p)
    PROVE  LifecycleInv'
PROOF
<1> DEFINE e == [profilers[p] EXCEPT !.listener =
                    IF @ = "bound" THEN "serving" ELSE "closed"]
<1>1. LifecycleTypeOK /\ profilers[p] \in ProfilerRecords
  BY ElementOfSeq DEF LifecycleInv, LifecycleTypeOK
<1>2. /\ e \in ProfilerRecords
      /\ e.open = profilers[p].open /\ e.server = profilers[p].server
      /\ e.handed = profilers[p].handed
      /\ e.listener \in {"bound", "serving"} => Listens(p)
  BY <1>1 DEF ProfilerRecords, Listens
<1>3. profilers' = [profilers EXCEPT ![p] = e] /\ UNCHANGED <<default, mutex, caller>>
  BY DEF Serve
<1> HIDE DEF e
<1>4. /\ profilers' \in Seq(ProfilerRecords)
      /\ DOMAIN profilers' = DOMAIN profilers
      /\ profilers'[p] = e
      /\ \A q \in DOMAIN profilers : q # p => profilers'[q] = profilers[q]
      /\ Known' = Known
  BY <1>1, <1>2, <1>3, Changes
<1>5. \A q \in DOMAIN profilers :
        /\ profilers'[q].open = profilers[q].open
        /\ profilers'[q].server = profilers[q].server
        /\ Listens(q)' => Listens(q)
  BY <1>2, <1>4 DEF Listens
<1>6. Known \subseteq DOMAIN profilers
  BY DEF Known
<1>7. LifecycleTypeOK'
  BY <1>1, <1>3, <1>4 DEF LifecycleTypeOK
<1>8. Locked'
  BY <1>3, <1>4, <1>5, <1>6 DEF LifecycleInv, Locked, Releases
<1>9. OnlyDefaultOpen'
  BY <1>3, <1>4, <1>5, <1>6 DEF LifecycleInv, OnlyDefaultOpen
<1>10. ServersGoFirst'
  BY <1>3, <1>4, <1>5 DEF LifecycleInv, ServersGoFirst
<1> QED BY <1>7, <1>8, <1>9, <1>10 DEF LifecycleInv

\* Close and Shutdown take the server of a profiler, and the lock with it.
LEMMA TakeKeeps ==
    ASSUME LifecycleInv, NEW g \in Goroutines, NEW p \in Known, mutex = Nobody,
           TakeServer(g, p)
    PROVE  LifecycleInv'
PROOF
<1> DEFINE e == [profilers[p] EXCEPT !.server = FALSE]
           c == [at |-> "stop", p |-> p, server |-> profilers[p].server]
<1>1. /\ LifecycleTypeOK /\ p \in DOMAIN profilers /\ p \in Nat
      /\ profilers[p] \in ProfilerRecords
  BY ElementOfSeq DEF LifecycleInv, LifecycleTypeOK, Known
<1>2. /\ e \in ProfilerRecords
      /\ e.open = profilers[p].open /\ ~e.server
      /\ e.handed = profilers[p].handed /\ e.listener = profilers[p].listener
      /\ c \in CallerRecords
  BY <1>1 DEF ProfilerRecords, CallerRecords
<1>3. /\ profilers' = [profilers EXCEPT ![p] = e]
      /\ caller' = [caller EXCEPT ![g] = c]
      /\ mutex' = g /\ default' = default
  BY DEF TakeServer
<1>4. c.at = "stop" /\ c.p = p /\ c.server = profilers[p].server
  OBVIOUS
<1> HIDE DEF e, c
<1>5. /\ profilers' \in Seq(ProfilerRecords)
      /\ DOMAIN profilers' = DOMAIN profilers
      /\ profilers'[p] = e
      /\ \A q \in DOMAIN profilers : q # p => profilers'[q] = profilers[q]
      /\ Known' = Known
  BY <1>1, <1>2, <1>3, Changes
<1>6. /\ caller'[g] = c
      /\ \A h \in Goroutines : h # g => caller'[h] = caller[h]
  BY <1>1, <1>3 DEF LifecycleTypeOK
<1>7. \A h \in Goroutines : ~Releases(h)
  BY LifecycleAssumption DEF LifecycleInv, Locked
<1>8. Known \subseteq DOMAIN profilers
  BY DEF Known
<1>9. LifecycleTypeOK'
  BY <1>1, <1>2, <1>3, <1>5 DEF LifecycleTypeOK
<1>10. Locked'
  BY <1>2, <1>3, <1>4, <1>5, <1>6, <1>7 DEF LifecycleInv, Locked, Releases
<1>11. OnlyDefaultOpen'
  BY <1>2, <1>3, <1>5, <1>7, <1>8 DEF LifecycleInv, OnlyDefaultOpen, Releases
<1>12. ServersGoFirst'
  <2> SUFFICES ASSUME NEW q \in DOMAIN profilers
               PROVE  /\ profilers'[q].server \/ Listens(q)' => profilers'[q].open /\ q \in Known
                      /\ Listens(q)' =>
                           \/ profilers'[q].server
                           \/ \E h \in Goroutines :
                                 caller'[h].at = "stop" /\ caller'[h].p = q /\ caller'[h].server
                      /\ \A h \in Goroutines :
                           caller'[h].at \in {"close", "clear"} /\ caller'[h].p = q => ~Listens(q)'
    BY <1>5 DEF ServersGoFirst
  <2>1. \A h \in Goroutines : caller'[h].at \notin {"close", "clear"}
    BY <1>4, <1>6, <1>7 DEF Releases
  <2>2. Listens(q)' <=> Listens(q)
    BY <1>2, <1>5 DEF Listens
  <2>3. profilers'[q].open = profilers[q].open /\ (profilers'[q].server => profilers[q].server)
    BY <1>2, <1>5
  <2>4. /\ profilers[q].server \/ Listens(q) => profilers[q].open /\ q \in Known
        /\ Listens(q) => profilers[q].server
    BY <1>7 DEF LifecycleInv, ServersGoFirst, Releases
  <2>5. CASE q = p
    BY <1>4, <1>6, <2>1, <2>2, <2>3, <2>4, <2>5
  <2>6. CASE q # p
    BY <1>5, <2>1, <2>2, <2>3, <2>4, <2>6
  <2> QED BY <2>5, <2>6
<1> QED BY <1>9, <1>10, <1>11, <1>12 DEF LifecycleInv

\* server.Close or server.Shutdown: no listener of the profiler is left.
LEMMA StopKeeps ==
    ASSUME LifecycleInv, NEW g \in Goroutines, StopServer(g)
    PROVE  LifecycleInv'
PROOF
<1> DEFINE p == caller[g].p
           e == IF caller[g].server
                THEN [profilers[p] EXCEPT !.listener = IF @ = "bound" THEN "closing" ELSE "closed"]
                ELSE profilers[p]
           c == [caller[g] EXCEPT !.at = "close"]
<1>1. /\ LifecycleTypeOK /\ caller[g] \in CallerRecords /\ caller[g].at = "stop" /\ Releases(g)
      /\ mutex = g /\ p \in Known /\ ~profilers[p].server
  BY DEF LifecycleInv, LifecycleTypeOK, Locked, Releases, StopServer
<1>2. p \in DOMAIN profilers /\ profilers[p] \in ProfilerRecords
  BY <1>1, ElementOfSeq DEF LifecycleTypeOK, Known
<1>3. \A h \in Goroutines : Releases(h) => h = g
  BY <1>1 DEF LifecycleInv, Locked
<1>4. Listens(p) => caller[g].server
  BY <1>1, <1>2, <1>3 DEF LifecycleInv, ServersGoFirst, Releases
<1>5. /\ e \in ProfilerRecords
      /\ e.open = profilers[p].open /\ ~e.server /\ e.handed = profilers[p].handed
      /\ e.listener \notin {"bound", "serving"}
  BY <1>1, <1>2, <1>4 DEF ProfilerRecords, Listens
<1>6. c \in CallerRecords /\ c.at = "close" /\ c.p = p
  BY <1>1 DEF CallerRecords
<1>7. profilers' = [profilers EXCEPT ![p] = e]
  <2>1. CASE caller[g].server
    BY <2>1 DEF StopServer
  <2>2. CASE ~caller[g].server
    <3>1. profilers' = profilers /\ e = profilers[p]
      BY <2>2 DEF StopServer
    <3>2. profilers \in [1 .. Len(profilers) -> ProfilerRecords]
      BY <1>1 DEF LifecycleTypeOK
    <3> HIDE DEF e, p
    <3>3. profilers = [profilers EXCEPT ![p] = profilers[p]]
      BY <3>2
    <3> QED BY <3>1, <3>3
  <2> QED BY <2>1, <2>2
<1>8. caller' = [caller EXCEPT ![g] = c] /\ mutex' = mutex /\ default' = default
  BY DEF StopServer
<1> HIDE DEF e, c, p
<1>9. /\ profilers' \in Seq(ProfilerRecords)
      /\ DOMAIN profilers' = DOMAIN profilers
      /\ profilers'[p] = e
      /\ \A q \in DOMAIN profilers : q # p => profilers'[q] = profilers[q]
      /\ Known' = Known
  BY <1>1, <1>2, <1>5, <1>7, Changes
<1>10. /\ caller'[g] = c
       /\ \A h \in Goroutines : h # g => caller'[h] = caller[h]
  BY <1>1, <1>8 DEF LifecycleTypeOK
<1>11. Known \subseteq DOMAIN profilers
  BY DEF Known
<1>12. LifecycleTypeOK'
  BY <1>1, <1>6, <1>8, <1>9 DEF LifecycleTypeOK
<1>13. Locked'
  <2> SUFFICES ASSUME NEW h \in Goroutines
               PROVE  /\ Releases(h)' <=> mutex = h
                      /\ caller'[h].at # "idle" => caller'[h].p \in Known
                      /\ Releases(h)' => ~profilers'[caller'[h].p].server
                      /\ caller'[h].at = "clear" => ~profilers'[caller'[h].p].open
    BY <1>8, <1>9 DEF Locked
  <2>1. CASE h = g
    BY <1>1, <1>5, <1>6, <1>9, <1>10, <2>1 DEF Releases
  <2>2. CASE h # g
    BY <1>1, <1>3, <1>10, <2>2 DEF LifecycleInv, Locked, Releases
  <2> QED BY <2>1, <2>2
<1>14. OnlyDefaultOpen'
  <2>1. \A h \in Goroutines : caller[h].at # "clear"
    BY <1>1, <1>3 DEF Releases
  <2>2. \A q \in Known : profilers'[q].open = profilers[q].open
    BY <1>5, <1>9, <1>11
  <2> QED BY <1>8, <1>9, <2>1, <2>2 DEF LifecycleInv, OnlyDefaultOpen
<1>15. ServersGoFirst'
  <2> SUFFICES ASSUME NEW q \in DOMAIN profilers
               PROVE  /\ profilers'[q].server \/ Listens(q)' => profilers'[q].open /\ q \in Known
                      /\ Listens(q)' => profilers'[q].server
                      /\ \A h \in Goroutines :
                           caller'[h].at \in {"close", "clear"} /\ caller'[h].p = q => ~Listens(q)'
    BY <1>9 DEF ServersGoFirst
  <2>1. CASE q = p
    BY <1>5, <1>9, <2>1 DEF Listens
  <2>2. CASE q # p
    <3>1. profilers'[q] = profilers[q] /\ (Listens(q)' <=> Listens(q))
      BY <1>9, <2>2 DEF Listens
    <3>2. Listens(q) => profilers[q].server
      BY <1>3, <2>2 DEF LifecycleInv, ServersGoFirst, Releases, p
    <3>3. \A h \in Goroutines : caller'[h].at \in {"close", "clear"} => h = g
      BY <1>3, <1>10 DEF Releases
    <3> QED BY <1>6, <1>10, <2>2, <3>1, <3>2, <3>3 DEF LifecycleInv, ServersGoFirst
  <2> QED BY <2>1, <2>2
<1> QED BY <1>12, <1>13, <1>14, <1>15 DEF LifecycleInv

\* The store is closed after the server, by the one who holds the lock.
LEMMA CloseKeeps ==
    ASSUME LifecycleInv, NEW g \in Goroutines, CloseStore(g)
    PROVE  LifecycleInv'
PROOF
<1> DEFINE p == caller[g].p
           e == [profilers[p] EXCEPT !.open = FALSE]
           c == [caller[g] EXCEPT !.at = "clear"]
<1>1. /\ LifecycleTypeOK /\ caller[g] \in CallerRecords /\ caller[g].at = "close" /\ Releases(g)
      /\ mutex = g /\ p \in Known /\ ~profilers[p].server
  BY DEF LifecycleInv, LifecycleTypeOK, Locked, Releases, CloseStore
<1>2. p \in DOMAIN profilers /\ profilers[p] \in ProfilerRecords
  BY <1>1, ElementOfSeq DEF LifecycleTypeOK, Known
<1>3. \A h \in Goroutines : Releases(h) => h = g
  BY <1>1 DEF LifecycleInv, Locked
<1>4. ~Listens(p)
  BY <1>1, <1>2 DEF LifecycleInv, ServersGoFirst
<1>5. /\ e \in ProfilerRecords
      /\ ~e.open /\ ~e.server /\ e.handed = profilers[p].handed
      /\ e.listener = profilers[p].listener
  BY <1>1, <1>2 DEF ProfilerRecords
<1>6. c \in CallerRecords /\ c.at = "clear" /\ c.p = p
  BY <1>1 DEF CallerRecords
<1>7. /\ profilers' = [profilers EXCEPT ![p] = e]
      /\ caller' = [caller EXCEPT ![g] = c] /\ mutex' = mutex /\ default' = default
  BY DEF CloseStore
<1> HIDE DEF e, c, p
<1>8. /\ profilers' \in Seq(ProfilerRecords)
      /\ DOMAIN profilers' = DOMAIN profilers
      /\ profilers'[p] = e
      /\ \A q \in DOMAIN profilers : q # p => profilers'[q] = profilers[q]
      /\ Known' = Known
  BY <1>1, <1>2, <1>5, <1>7, Changes
<1>9. /\ caller'[g] = c
      /\ \A h \in Goroutines : h # g => caller'[h] = caller[h]
  BY <1>1, <1>7 DEF LifecycleTypeOK
<1>10. Known \subseteq DOMAIN profilers
  BY DEF Known
<1>11. LifecycleTypeOK'
  BY <1>1, <1>6, <1>7, <1>8 DEF LifecycleTypeOK
<1>12. Locked'
  <2> SUFFICES ASSUME NEW h \in Goroutines
               PROVE  /\ Releases(h)' <=> mutex = h
                      /\ caller'[h].at # "idle" => caller'[h].p \in Known
                      /\ Releases(h)' => ~profilers'[caller'[h].p].server
                      /\ caller'[h].at = "clear" => ~profilers'[caller'[h].p].open
    BY <1>7, <1>8 DEF Locked
  <2>1. CASE h = g
    BY <1>1, <1>5, <1>6, <1>8, <1>9, <2>1 DEF Releases
  <2>2. CASE h # g
    BY <1>1, <1>3, <1>9, <2>2 DEF LifecycleInv, Locked, Releases
  <2> QED BY <2>1, <2>2
<1>13. OnlyDefaultOpen'
  <2>1. \A q \in Known : profilers'[q].open => profilers[q].open
    BY <1>5, <1>8, <1>10
  <2>2. CASE default = p
    BY <1>1, <1>6, <1>7, <1>8, <1>9, <2>1, <2>2 DEF LifecycleInv, OnlyDefaultOpen
  <2>3. CASE default # p
    <3>1. default # NoProfiler => profilers[default].open /\ default \in Known
      BY <1>1, <1>3, <2>3 DEF LifecycleInv, OnlyDefaultOpen, Releases
    <3> QED BY <1>7, <1>8, <1>10, <2>1, <2>3, <3>1 DEF LifecycleInv, OnlyDefaultOpen
  <2> QED BY <2>2, <2>3
<1>14. ServersGoFirst'
  <2> SUFFICES ASSUME NEW q \in DOMAIN profilers
               PROVE  /\ profilers'[q].server \/ Listens(q)' => profilers'[q].open /\ q \in Known
                      /\ Listens(q)' => profilers'[q].server
                      /\ \A h \in Goroutines :
                           caller'[h].at \in {"close", "clear"} /\ caller'[h].p = q => ~Listens(q)'
    BY <1>8 DEF ServersGoFirst
  <2>1. CASE q = p
    BY <1>4, <1>5, <1>8, <2>1 DEF Listens
  <2>2. CASE q # p
    <3>1. profilers'[q] = profilers[q] /\ (Listens(q)' <=> Listens(q))
      BY <1>8, <2>2 DEF Listens
    <3>2. Listens(q) => profilers[q].server
      BY <1>1, <1>3 DEF LifecycleInv, ServersGoFirst, Releases
    <3>3. \A h \in Goroutines : caller'[h].at \in {"close", "clear"} => h = g
      BY <1>3, <1>9 DEF Releases
    <3> QED BY <1>6, <1>9, <2>2, <3>1, <3>2, <3>3 DEF LifecycleInv, ServersGoFirst
  <2> QED BY <2>1, <2>2
<1> QED BY <1>11, <1>12, <1>13, <1>14 DEF LifecycleInv

\* The compare-and-swap: an older profiler leaves the default alone.
LEMMA ClearKeeps ==
    ASSUME LifecycleInv, NEW g \in Goroutines, ClearDefault(g)
    PROVE  LifecycleInv'
PROOF
<1> DEFINE p == caller[g].p
<1>1. /\ LifecycleTypeOK /\ caller[g].at = "clear" /\ Releases(g)
      /\ mutex = g /\ p \in Known /\ ~profilers[p].open
  BY DEF LifecycleInv, LifecycleTypeOK, Locked, Releases, ClearDefault
<1>2. \A h \in Goroutines : Releases(h) => h = g
  BY <1>1 DEF LifecycleInv, Locked
<1>3. /\ default' = IF default = p THEN NoProfiler ELSE default
      /\ mutex' = Nobody /\ profilers' = profilers
      /\ caller' = [caller EXCEPT ![g] = Idle]
  BY DEF ClearDefault, DefaultAfter
<1> HIDE DEF p
<1>4. Idle \in CallerRecords /\ Idle.at = "idle"
  BY DEF Idle, CallerRecords, NoProfiler
<1>5. /\ caller'[g] = Idle /\ Known' = Known
      /\ \A h \in Goroutines : h # g => caller'[h] = caller[h]
  BY <1>1, <1>3 DEF LifecycleTypeOK, Known
<1>6. LifecycleTypeOK'
  BY <1>1, <1>3, <1>4 DEF LifecycleTypeOK, NoProfiler
<1>7. \A h \in Goroutines : ~Releases(h)'
  BY <1>2, <1>4, <1>5 DEF Releases
<1>8. Locked'
  <2>1. \A h \in Goroutines : caller'[h].at # "clear"
    BY <1>7 DEF Releases
  <2>2. \A h \in Goroutines : caller'[h].at # "idle" => caller'[h].p \in Known
    BY <1>4, <1>5 DEF LifecycleInv, Locked
  <2> QED BY <1>3, <1>5, <1>7, <2>1, <2>2, LifecycleAssumption DEF Locked
<1>9. OnlyDefaultOpen'
  <2>1. \A q \in Known : profilers[q].open => q # p
    BY <1>1
  <2>2. CASE default = p
    BY <1>3, <1>5, <2>1, <2>2 DEF LifecycleInv, OnlyDefaultOpen
  <2>3. CASE default # p
    <3>1. default # NoProfiler => profilers[default].open /\ default \in Known
      BY <1>1, <1>2, <2>3 DEF LifecycleInv, OnlyDefaultOpen, Releases, p
    <3> QED BY <1>3, <1>5, <2>3, <3>1 DEF LifecycleInv, OnlyDefaultOpen
  <2> QED BY <2>2, <2>3
<1>10. ServersGoFirst'
  <2>1. \A h \in Goroutines : caller'[h].at \notin {"stop", "close", "clear"}
    BY <1>7 DEF Releases
  <2>2. \A q \in DOMAIN profilers : Listens(q) => profilers[q].server
    BY <1>1, <1>2 DEF LifecycleInv, ServersGoFirst, Releases
  <2> QED BY <1>3, <1>5, <2>1, <2>2 DEF LifecycleInv, ServersGoFirst, Listens
<1> QED BY <1>6, <1>8, <1>9, <1>10 DEF LifecycleInv

-----------------------------------------------------------------------------

LEMMA LifecycleStep == LifecycleInv /\ [LifecycleNext]_lifecycleVars => LifecycleInv'
PROOF
<1> SUFFICES ASSUME LifecycleInv, [LifecycleNext]_lifecycleVars PROVE LifecycleInv'
  OBVIOUS
<1>1. ASSUME NEW g \in Goroutines, NEW r \in Routers, New(g, r) PROVE LifecycleInv'
  BY <1>1, NewKeeps DEF New, MayEnter
<1>2. ASSUME NEW g \in Goroutines, NEW r \in Routers, NewPanics(g, r) PROVE LifecycleInv'
  BY <1>2, PanicKeeps
<1>3. ASSUME NEW g \in Goroutines, Start(g) PROVE LifecycleInv'
  BY <1>3, NewKeeps DEF Start, MayEnter
<1>4. ASSUME NEW g \in Goroutines, NEW at \in {"url", "shutdown"}, caller[g] = Idle,
             default # NoProfiler, Enter(g, at, default),
             UNCHANGED <<default, mutex, profilers, mounted>>
      PROVE LifecycleInv'
  <2> DEFINE c == [Idle EXCEPT !.at = at, !.p = default]
  <2>1. /\ c \in CallerRecords /\ c.at = at /\ c.p = default
    BY DEF LifecycleInv, LifecycleTypeOK, CallerRecords, Idle, NoProfiler
  <2>2. caller' = [caller EXCEPT ![g] = c]
    BY <1>4 DEF Enter
  <2>3. default \in Known /\ ~Releases(g)
    BY <1>4 DEF LifecycleInv, OnlyDefaultOpen, Releases, Idle
  <2> HIDE DEF c
  <2> QED BY <1>4, <2>1, <2>2, <2>3, ReadingKeeps
<1>5. ASSUME NEW g \in Goroutines, StartFinds(g) PROVE LifecycleInv'
  BY <1>4, <1>5 DEF StartFinds, MayEnter
<1>6. ASSUME NEW g \in Goroutines, StartAnswers(g) PROVE LifecycleInv'
  <2>1. Idle \in CallerRecords /\ Idle.at = "idle"
    BY DEF Idle, CallerRecords, NoProfiler
  <2> QED BY <1>6, <2>1, ReadingKeeps DEF StartAnswers, Releases
<1>7. ASSUME NEW g \in Goroutines, ShutdownDefault(g) PROVE LifecycleInv'
  BY <1>4, <1>7 DEF ShutdownDefault
<1>8. ASSUME NEW g \in Goroutines, Release(g) PROVE LifecycleInv'
  BY <1>8, TakeKeeps DEF Release, MayEnter
<1>9. ASSUME NEW g \in Goroutines, ShutdownEnters(g) PROVE LifecycleInv'
  <2>1. caller[g].p \in Known
    BY <1>9 DEF ShutdownEnters, LifecycleInv, Locked
  <2> QED BY <1>9, <2>1, TakeKeeps DEF ShutdownEnters
<1>10. ASSUME NEW g \in Goroutines, StopServer(g) \/ CloseStore(g) \/ ClearDefault(g)
       PROVE LifecycleInv'
  BY <1>10, StopKeeps, CloseKeeps, ClearKeeps
<1>11. ASSUME NEW p \in DOMAIN profilers, Serve(p) PROVE LifecycleInv'
  BY <1>11, ServeKeeps
<1>12. CASE UNCHANGED lifecycleVars
  BY <1>12 DEF lifecycleVars, LifecycleInv, LifecycleTypeOK, Locked, OnlyDefaultOpen,
               ServersGoFirst, Releases, Listens, Known
<1> QED
  BY <1>1, <1>2, <1>3, <1>5, <1>6, <1>7, <1>8, <1>9, <1>10, <1>11, <1>12
  DEF LifecycleNext

LEMMA LifecycleImplies == LifecycleInv => DefaultIsOpen
PROOF
<1> SUFFICES ASSUME LifecycleInv PROVE DefaultIsOpen
  OBVIOUS
<1> DEFINE open == {p \in Known : profilers[p].open}
           active == {p \in DOMAIN profilers : profilers[p].server
                                               \/ profilers[p].listener \in {"bound", "serving"}}
<1>1. open \subseteq {default}
  BY DEF LifecycleInv, OnlyDefaultOpen
<1>2. Cardinality(open) <= 1
  <2>1. IsFiniteSet({default}) /\ Cardinality({default}) = 1
    BY FS_Singleton
  <2> QED BY <1>1, <2>1, FS_Subset
<1>3. active \subseteq open
  BY DEF LifecycleInv, ServersGoFirst, Listens
<1>4. mutex = Nobody => open = {default} \ {NoProfiler}
  <2>1. ASSUME mutex = Nobody PROVE \A g \in Goroutines : caller[g].at # "clear"
    BY <2>1, LifecycleAssumption DEF LifecycleInv, Locked, Releases
  <2>2. NoProfiler \notin Known
    BY DEF LifecycleInv, LifecycleTypeOK, Known, NoProfiler
  <2> QED BY <1>1, <2>1, <2>2 DEF LifecycleInv, OnlyDefaultOpen
<1> QED BY <1>2, <1>3, <1>4 DEF DefaultIsOpen

\* A step of the lifecycle, or of another part.
LEMMA LifecycleUntouched == [Next]_vars => [LifecycleNext]_lifecycleVars
PROOF
<1> SUFFICES ASSUME [Next]_vars PROVE [LifecycleNext]_lifecycleVars
  OBVIOUS
<1>1. CASE UNCHANGED vars
  BY <1>1 DEF vars
<1>2. CASE StartingAndClosing
  BY <1>2 DEF StartingAndClosing
<1> QED
  BY <1>1, <1>2 DEF Next, Ordering, Analyzing, Operating, Timing, Responding, Tracing

\* "A process has at most one active default Profiler" (profiler.go): whatever
\* order New, Start, Close and Shutdown run in, by however many goroutines, and
\* however late a profiler of before is closed again.
THEOREM OneActiveDefault == Spec => []DefaultIsOpen
PROOF
<1>1. Init => LifecycleInv
  BY LifecycleStarts DEF Init
<1>2. LifecycleInv /\ [Next]_vars => LifecycleInv'
  BY LifecycleStep, LifecycleUntouched
<1>3. LifecycleInv => DefaultIsOpen
  BY LifecycleImplies
<1> QED BY <1>1, <1>2, <1>3, PTL DEF Spec

-----------------------------------------------------------------------------
(* The spans of a trace.                                                   *)

SpansTypeOK ==
    /\ rootOf \in SpanIds \cup {NoSpan}
    /\ span \in [SpanIds -> [at : {"none", "running", "ending", "logged", "ignored"},
                             kind : Kinds, request : SpanIds \cup {NoSpan}]]

\* The servers of the trace that have started.
Serving(t) == span[t].at # "none" /\ span[t].kind \in Served

(***************************************************************************)
(* The root is an HTTP request that is under way; it is missing only when  *)
(* none has begun, or when a server that has ended took it along.          *)
(***************************************************************************)
RootServes ==
    /\ rootOf # NoSpan =>
         span[rootOf].kind = "http_server" /\ span[rootOf].at \in {"running", "ending"}
    /\ (\A t \in SpanIds : Serving(t) => ~Over(t))
       /\ (\E t \in SpanIds : span[t].at # "none" /\ span[t].kind = "http_server")
       => rootOf # NoSpan

SpansInv == SpansTypeOK /\ RootServes

-----------------------------------------------------------------------------

LEMMA SpansStart == SpansInit => SpansInv
PROOF
<1> SUFFICES ASSUME SpansInit PROVE SpansInv
  OBVIOUS
<1>1. SpansTypeOK
  BY DEF SpansInit, SpansTypeOK, Kinds
<1>2. RootServes
  BY DEF SpansInit, RootServes
<1> QED BY <1>1, <1>2 DEF SpansInv

LEMMA OnStartKeeps ==
    ASSUME SpansInv, NEW s \in SpanIds, OnStart(s)
    PROVE  SpansInv'
PROOF
<1>1. PICK kind \in Kinds :
        /\ span' = [span EXCEPT ![s].at = "running", ![s].kind = kind]
        /\ rootOf' = IF kind = "http_server" THEN s ELSE rootOf
  BY DEF OnStart
<1>2. SpansTypeOK /\ span[s].at = "none"
  BY DEF SpansInv, OnStart
<1>3. /\ span'[s].at = "running" /\ span'[s].kind = kind
      /\ \A t \in SpanIds : t # s => span'[t] = span[t]
  BY <1>1, <1>2 DEF SpansTypeOK
<1>4. SpansTypeOK'
  BY <1>1, <1>2 DEF SpansTypeOK
<1>5. RootServes'
  <2>1. CASE kind = "http_server"
    BY <1>1, <1>3, <2>1, SpansAssumption DEF RootServes
  <2>2. CASE kind # "http_server"
    <3>1. rootOf' = rootOf /\ (rootOf # NoSpan => rootOf # s /\ rootOf \in SpanIds)
      BY <1>1, <1>2, <2>2 DEF SpansInv, SpansTypeOK, RootServes
    <3>2. /\ (\A t \in SpanIds : Serving(t)' => ~Over(t)') => \A t \in SpanIds : Serving(t) => ~Over(t)
          /\ \A t \in SpanIds : span'[t].at # "none" /\ span'[t].kind = "http_server"
                                => span[t].at # "none" /\ span[t].kind = "http_server"
      BY <1>2, <1>3, <2>2 DEF Serving, Over
    <3> QED BY <1>3, <3>1, <3>2 DEF SpansInv, RootServes
  <2> QED BY <2>1, <2>2
<1> QED BY <1>4, <1>5 DEF SpansInv

LEMMA OnEndKeeps ==
    ASSUME SpansInv, NEW s \in SpanIds, OnEnd(s)
    PROVE  SpansInv'
PROOF
<1>1. SpansTypeOK /\ span[s].at = "running"
  BY DEF SpansInv, OnEnd
<1>2. /\ span' = [span EXCEPT ![s].at = "ending", ![s].request = rootOf]
      /\ rootOf' = rootOf
  BY DEF OnEnd
<1>3. /\ span'[s].at = "ending" /\ span'[s].kind = span[s].kind
      /\ \A t \in SpanIds : t # s => span'[t] = span[t]
  BY <1>1, <1>2 DEF SpansTypeOK
<1>4. SpansTypeOK'
  BY <1>1, <1>2 DEF SpansTypeOK
<1>5. \A t \in SpanIds : /\ span'[t].kind = span[t].kind
                         /\ span'[t].at # "none" <=> span[t].at # "none"
                         /\ Over(t)' <=> Over(t)
                         /\ Serving(t)' <=> Serving(t)
  BY <1>1, <1>3 DEF Over, Serving
<1>6. RootServes'
  BY <1>1, <1>2, <1>3, <1>5 DEF SpansInv, RootServes, SpansTypeOK
<1> QED BY <1>4, <1>6 DEF SpansInv

LEMMA OnEndDoneKeeps ==
    ASSUME SpansInv, NEW s \in SpanIds, OnEndDone(s)
    PROVE  SpansInv'
PROOF
<1>1. SpansTypeOK /\ span[s].at = "ending"
  BY DEF SpansInv, OnEndDone
<1>2. PICK end \in {"logged", "ignored"} :
        /\ span' = [span EXCEPT ![s].at = end]
        /\ rootOf' = IF span[s].kind \in Served THEN NoSpan ELSE rootOf
  BY DEF OnEndDone, RootAfter
<1>3. /\ span'[s].at = end /\ span'[s].kind = span[s].kind
      /\ \A t \in SpanIds : t # s => span'[t] = span[t]
  BY <1>1, <1>2 DEF SpansTypeOK
<1>4. SpansTypeOK'
  BY <1>1, <1>2 DEF SpansTypeOK
<1>5. RootServes'
  <2>1. Over(s)'
    BY <1>3 DEF Over
  <2>2. CASE span[s].kind \in Served
    BY <1>2, <1>3, <2>1, <2>2 DEF RootServes, Serving
  <2>3. CASE span[s].kind \notin Served
    <3>1. rootOf' = rootOf /\ (rootOf # NoSpan => rootOf # s /\ rootOf \in SpanIds)
      BY <1>1, <1>2, <2>3 DEF SpansInv, SpansTypeOK, RootServes, Served
    <3>2. /\ (\A t \in SpanIds : Serving(t)' => ~Over(t)') => \A t \in SpanIds : Serving(t) => ~Over(t)
          /\ \A t \in SpanIds : span'[t].at # "none" /\ span'[t].kind = "http_server"
                                => span[t].at # "none" /\ span[t].kind = "http_server"
      BY <1>1, <1>3, <2>3 DEF Serving, Over, Served
    <3> QED BY <1>3, <3>1, <3>2 DEF SpansInv, RootServes
  <2> QED BY <2>2, <2>3
<1> QED BY <1>4, <1>5 DEF SpansInv

LEMMA SpansStep == SpansInv /\ [SpansNext]_spanVars => SpansInv'
PROOF
<1>1. ASSUME SpansInv, UNCHANGED spanVars PROVE SpansInv'
  BY <1>1 DEF spanVars, SpansInv, SpansTypeOK, RootServes, Serving, Over
<1> QED BY <1>1, OnStartKeeps, OnEndKeeps, OnEndDoneKeeps DEF SpansNext

\* OnEnd files a span (meta) under the request that the invariant speaks of.
LEMMA FilesWell ==
    ASSUME SpansInv, [SpansNext]_spanVars, NEW s \in SpanIds,
           span[s].at = "running", span'[s].at = "ending"
    PROVE  LET r == span'[s].request
               servers == {t \in SpanIds : span[t].at # "none" /\ span[t].kind \in Served}
           IN  /\ r # NoSpan => span[r].kind = "http_server" /\ ~Over(r)
               /\ (\A t \in servers : ~Over(t)) /\ (\E t \in servers : span[t].kind = "http_server")
                  => r # NoSpan
PROOF
<1>1. SpansTypeOK
  BY DEF SpansInv
<1>2. span'[s].request = rootOf
  <2>1. ASSUME NEW t \in SpanIds, OnEnd(t) PROVE span'[s].request = rootOf
    BY <1>1, <2>1 DEF OnEnd, SpansTypeOK
  <2>2. ~UNCHANGED spanVars
    BY DEF spanVars
  <2>3. ASSUME NEW t \in SpanIds, OnStart(t) PROVE FALSE
    <3>1. PICK kind \in Kinds : span' = [span EXCEPT ![t].at = "running", ![t].kind = kind]
      BY <2>3 DEF OnStart
    <3> QED BY <1>1, <3>1 DEF SpansTypeOK
  <2>4. ASSUME NEW t \in SpanIds, OnEndDone(t) PROVE FALSE
    BY <1>1, <2>4 DEF OnEndDone, SpansTypeOK
  <2> QED BY <2>1, <2>2, <2>3, <2>4 DEF SpansNext
<1> QED BY <1>2 DEF SpansInv, RootServes, Over, Serving

\* A step of the spans, or of another part.
LEMMA SpansUntouched == [Next]_vars => [SpansNext]_spanVars
PROOF
<1> SUFFICES ASSUME [Next]_vars PROVE [SpansNext]_spanVars
  OBVIOUS
<1>1. CASE UNCHANGED vars
  BY <1>1 DEF vars
<1>2. CASE Tracing
  BY <1>2 DEF Tracing
<1> QED
  BY <1>1, <1>2 DEF Next, Ordering, Analyzing, Operating, Timing, Responding, StartingAndClosing

\* A span is filed under an HTTP request that is under way, and under none only
\* when there was none or another server of the trace has ended (OnStart, OnEnd).
THEOREM SpansFiledWhileServing == Spec => FiledWhileServing
PROOF
<1>1. Init => SpansInv
  BY SpansStart DEF Init
<1>2. SpansInv /\ [Next]_vars => SpansInv'
  BY SpansStep, SpansUntouched
<1>3. SpansInv /\ [Next]_vars =>
        [\A s \in SpanIds :
           /\ span[s].at = "running" /\ span'[s].at = "ending"
           => LET r == span'[s].request
                  servers == {t \in SpanIds : span[t].at # "none" /\ span[t].kind \in Served}
              IN  /\ r # NoSpan => span[r].kind = "http_server" /\ ~Over(r)
                  /\ (\A t \in servers : ~Over(t)) /\ (\E t \in servers : span[t].kind = "http_server")
                     => r # NoSpan]_spanVars
  BY FilesWell, SpansUntouched
<1> QED BY <1>1, <1>2, <1>3, PTL DEF Spec, FiledWhileServing

-----------------------------------------------------------------------------
(* Numbers.                                                                *)

\* The lesser of two numbers ...
LEMMA MinOf ==
    ASSUME NEW a \in Int, NEW b \in Int
    PROVE  Min({a, b}) = IF a <= b THEN a ELSE b
PROOF
<1> DEFINE m == IF a <= b THEN a ELSE b
<1>1. m \in {a, b} /\ \A y \in {a, b} : m <= y
  OBVIOUS
<1>2. \A x \in {a, b} : (\A y \in {a, b} : x <= y) => x = m
  OBVIOUS
<1> HIDE DEF m
<1>3. Min({a, b}) = m
  BY <1>1, <1>2 DEF Min
<1> QED BY <1>3 DEF m

\* ... and that the greater one is a number.
LEMMA MaxOf ==
    ASSUME NEW a \in Int, NEW b \in Int
    PROVE  Max({a, b}) \in Int
PROOF
<1> DEFINE m == IF a <= b THEN b ELSE a
<1>1. m \in {a, b} /\ \A y \in {a, b} : m >= y
  OBVIOUS
<1>2. \A x \in {a, b} : (\A y \in {a, b} : x >= y) => x = m
  OBVIOUS
<1> HIDE DEF m
<1>3. Max({a, b}) = m
  BY <1>1, <1>2 DEF Max
<1> QED BY <1>3 DEF m

\* A fold over positions takes the last one first.
LEMMA MaxOfPrefix ==
    ASSUME NEW k \in Nat
    PROVE  /\ (1..(k + 1)) \ {k + 1} = 1..k
           /\ \A T \in SUBSET (1..(k + 1)) : k + 1 \in T => Max(T) = k + 1
PROOF
<1>1. \A T \in SUBSET (1..(k + 1)) : k + 1 \in T => Max(T) = k + 1
  <2> SUFFICES ASSUME NEW T \in SUBSET (1..(k + 1)), k + 1 \in T PROVE Max(T) = k + 1
    OBVIOUS
  <2>1. \A y \in T : y \in Int /\ k + 1 >= y
    OBVIOUS
  <2>2. \A x \in T : (\A y \in T : x >= y) => x = k + 1
    BY <2>1
  <2> QED BY <2>1, <2>2 DEF Max
<1>2. (1..(k + 1)) \ {k + 1} = 1..k
  OBVIOUS
<1> QED BY <1>1, <1>2

\* What holds of 0 and with every number of the next one holds up to n:
\* otherwise there would be a least number it does not hold of.
LEMMA Upwards ==
    ASSUME NEW n \in Nat, NEW P, 0 \in P, \A k \in 0..(n - 1) : k \in P => (k + 1) \in P
    PROVE  n \in P
PROOF
<1> DEFINE less == OpToRel(<, Nat)
           bad == {k \in 0..n : k \notin P}
<1>1. IsWellFoundedOn(less, Nat)
  BY NatLessThanWellFounded
<1>2. \A a, b \in Nat : a < b => <<a, b>> \in less
  BY DEF OpToRel
<1> HIDE DEF less
<1>3. SUFFICES ASSUME bad # {} PROVE FALSE
  OBVIOUS
<1>4. bad \subseteq Nat
  OBVIOUS
<1> HIDE DEF bad
<1>5. PICK k \in bad : \A j \in bad : ~(<<j, k>> \in less)
  BY <1>1, <1>3, <1>4, WFMin
<1> USE DEF bad
<1>6. k # 0 /\ k \in 0..n /\ k \notin P
  OBVIOUS
<1>7. k - 1 \in Nat /\ k - 1 < k /\ k - 1 \in 0..(n - 1) /\ (k - 1) + 1 = k
  BY <1>6
<1>8. k - 1 \notin bad
  <2> DEFINE j == k - 1
  <2>1. j \in Nat /\ k \in Nat /\ j < k
    BY <1>6, <1>7
  <2> HIDE DEF j
  <2>2. <<j, k>> \in less
    BY <1>2, <2>1
  <2>3. j \notin bad
    BY <1>5, <2>2
  <2> QED BY <2>3 DEF j
<1> QED BY <1>6, <1>7, <1>8

-----------------------------------------------------------------------------
(* A captured response.                                                    *)

\* What the observer keeps and what net/http was told.
responseVars == <<observer, bodyLimit, wire>>

\* The types.
Observers ==
    [status : Nat, wroteHeader : BOOLEAN, size : Nat, body : Nat, truncated : BOOLEAN,
     writes : Nat, result : {"none", "returned", "panicked"}]

Wires == [status : Nat, hijacked : BOOLEAN, size : Nat, offered : Nat]

\* A status the observer keeps was sent, unless 101 was before it or the
\* connection was taken over first; while it keeps none, none but 101 was.
Agree(o, w) ==
    IF o.wroteHeader
    THEN o.status >= 200 /\ (w.status \in {o.status, 101} \/ (w.status = 0 /\ w.hijacked))
    ELSE o.status = 200 /\ w.status \in {0, 101}

\* What was kept of the body, against everything the handler offered: a write
\* that the connection cuts short is kept in full.
Holds(o, offered) ==
    /\ o.body = Min({offered, bodyLimit})
    /\ o.truncated <=> bodyLimit > 0 /\ offered > bodyLimit

BodyAsSent ==
    /\ observer.size = wire.size
    /\ Holds(observer, wire.offered)

\* The inductive invariant: what is true once the handler has returned rests on
\* what is kept after every call of it.
ObservedInv ==
    /\ observer \in Observers /\ wire \in Wires /\ bodyLimit \in Nat
    /\ observer.result = "none" => Agree(observer, wire)
    /\ BodyAsSent
    /\ ObservedAsSent

\* Nothing is kept or sent at the start.
LEMMA ObservedStart == Init => ObservedInv
PROOF
<1> SUFFICES ASSUME Init PROVE ObservedInv
  OBVIOUS
<1>1. /\ observer = NoResponse
      /\ wire = [status |-> 0, hijacked |-> FALSE, size |-> 0, offered |-> 0]
  BY DEF Init, TimingInit
<1>2. bodyLimit \in Nat
  BY TimingAssumption DEF Init, TimingInit
<1>3. Min({0, bodyLimit}) = 0
  BY <1>2, MinOf
<1> QED BY <1>1, <1>2, <1>3 DEF ObservedInv, Observers, Wires, Agree, BodyAsSent, Holds,
           ObservedAsSent, NoResponse

\* The observer and net/http take the same status for the final one: each call
\* that may send a header leaves them agreed.
LEMMA HeaderGoesOut ==
    ASSUME observer \in Observers, wire \in Wires, Agree(observer, wire),
           NEW status \in Nat, status >= 100,
           NEW o, o = HeaderWritten(observer, status),
           NEW w, w = IF status >= 200 /\ observer.wroteHeader THEN wire
                      ELSE SentHeader(wire, status)
    PROVE  /\ o \in Observers /\ w \in Wires /\ Agree(o, w)
           /\ status >= 200 => o.wroteHeader
           /\ o.size = observer.size /\ o.body = observer.body
           /\ o.truncated = observer.truncated /\ o.result = observer.result
           /\ o.writes = observer.writes
           /\ w.size = wire.size /\ w.offered = wire.offered /\ w.hijacked = wire.hijacked
PROOF
<1>1. CASE status \in 100 .. 199
  <2>1. o = observer
    BY <1>1 DEF HeaderWritten
  <2>2. w = wire \/ (status = 101 /\ wire.status = 0 /\ w = [wire EXCEPT !.status = status])
    BY <1>1 DEF SentHeader, SwitchingProtocols
  <2>3. CASE w = wire
    BY <1>1, <2>1, <2>3
  <2>4. CASE status = 101 /\ wire.status = 0 /\ w = [wire EXCEPT !.status = status]
    <3>1. /\ w \in Wires /\ w.status = 101 /\ w.size = wire.size /\ w.offered = wire.offered
          /\ w.hijacked = wire.hijacked
      BY <2>4 DEF Wires
    <3> QED BY <1>1, <2>1, <3>1 DEF Agree
  <2> QED BY <2>2, <2>3, <2>4
<1>2. CASE status >= 200 /\ observer.wroteHeader
  BY <1>2 DEF HeaderWritten
<1>3. CASE status >= 200 /\ ~observer.wroteHeader
  <2>1. o = [observer EXCEPT !.wroteHeader = TRUE, !.status = status]
    BY <1>3 DEF HeaderWritten
  <2>2. w = IF wire.status = 0 /\ ~wire.hijacked THEN [wire EXCEPT !.status = status] ELSE wire
    BY <1>3 DEF SentHeader
  <2>3. /\ o.wroteHeader /\ o.status = status /\ o.size = observer.size /\ o.body = observer.body
        /\ o.truncated = observer.truncated /\ o.result = observer.result
        /\ o.writes = observer.writes
    BY <2>1 DEF Observers
  <2>4. /\ w.status = IF wire.status = 0 /\ ~wire.hijacked THEN status ELSE wire.status
        /\ w.size = wire.size /\ w.offered = wire.offered /\ w.hijacked = wire.hijacked
    BY <2>2 DEF Wires
  <2>5. o \in Observers
    BY <2>1 DEF Observers
  <2>6. w \in Wires
    BY <2>2 DEF Wires
  <2>7. Agree(o, w)
    BY <1>3, <2>3, <2>4 DEF Agree, Wires
  <2> QED BY <1>3, <2>3, <2>4, <2>5, <2>6, <2>7
<1> QED BY <1>1, <1>2, <1>3

\* A call that touches neither body nor size keeps the invariant if it leaves
\* them agreed.
LEMMA HeaderStepKeeps ==
    ASSUME ObservedInv, observer.result = "none", UNCHANGED bodyLimit,
           NEW o \in Observers, NEW w \in Wires, Agree(o, w),
           o.size = observer.size, o.body = observer.body,
           o.truncated = observer.truncated, o.result = observer.result,
           w.size = wire.size, w.offered = wire.offered,
           observer' = [o EXCEPT !.writes = @ + 1], wire' = w
    PROVE  ObservedInv'
PROOF
<1>1. /\ observer' \in Observers /\ observer'.wroteHeader = o.wroteHeader
      /\ observer'.status = o.status /\ observer'.size = o.size /\ observer'.body = o.body
      /\ observer'.truncated = o.truncated /\ observer'.result = o.result
  <2> DEFINE n == o.writes + 1
  <2>1. n \in Nat
    BY DEF Observers
  <2>2. observer' = [o EXCEPT !.writes = n]
    OBVIOUS
  <2> HIDE DEF n
  <2> QED BY <2>1, <2>2 DEF Observers
<1>2. Agree(observer', wire')
  BY <1>1 DEF Agree
<1>3. BodyAsSent'
  BY <1>1 DEF ObservedInv, BodyAsSent, Holds
<1>4. observer'.result = "none"
  BY <1>1
<1> QED BY <1>1, <1>2, <1>3, <1>4 DEF ObservedInv, ObservedAsSent

SameButBody(b, o) ==
    /\ b.wroteHeader = o.wroteHeader /\ b.status = o.status /\ b.size = o.size
    /\ b.result = o.result /\ b.writes = o.writes

\* A write keeps as much of what it is given as there is room for.
LEMMA BodyGoesIn ==
    ASSUME NEW o \in Observers, NEW length \in Nat, length > 0, NEW offered \in Nat,
           bodyLimit \in Nat, Holds(o, offered)
    PROVE  /\ BodyWritten(o, length) \in Observers
           /\ Holds(BodyWritten(o, length), offered + length)
           /\ SameButBody(BodyWritten(o, length), o)
PROOF
<1> SUFFICES ASSUME NEW b, b = BodyWritten(o, length)
             PROVE  /\ b \in Observers
                    /\ b.body = Min({offered + length, bodyLimit})
                    /\ b.truncated <=> bodyLimit > 0 /\ offered + length > bodyLimit
                    /\ b.wroteHeader = o.wroteHeader /\ b.status = o.status /\ b.size = o.size
                    /\ b.result = o.result /\ b.writes = o.writes
  BY DEF Holds, SameButBody
<1>0. /\ o.body = Min({offered, bodyLimit})
      /\ o.truncated <=> bodyLimit > 0 /\ offered > bodyLimit
  BY DEF Holds
<1> DEFINE remaining == bodyLimit - o.body
           kept == Min({length, remaining})
           more == length > remaining
           sum == offered + length
<1>1. o.body = IF offered <= bodyLimit THEN offered ELSE bodyLimit
  BY <1>0, MinOf
<1>2. sum \in Nat /\ Min({sum, bodyLimit}) = IF sum <= bodyLimit THEN sum ELSE bodyLimit
  <2>1. sum \in Nat
    OBVIOUS
  <2> HIDE DEF sum
  <2> QED BY <2>1, MinOf
<1>3. CASE bodyLimit <= 0
  <2>1. b = o
    BY <1>3 DEF BodyWritten
  <2>2. sum > 0 /\ bodyLimit = 0
    BY <1>3
  <2> HIDE DEF sum
  <2>3. o.body = 0 /\ Min({sum, bodyLimit}) = 0
    BY <1>1, <1>2, <2>2
  <2> QED BY <1>0, <2>1, <2>2, <2>3 DEF sum
<1>4. CASE ~(bodyLimit <= 0)
  <2>1. b = [o EXCEPT !.body = @ + kept, !.truncated = @ \/ more]
    BY <1>4 DEF BodyWritten
  <2>2. remaining \in Nat
    BY <1>1
  <2>3. kept = IF length <= remaining THEN length ELSE remaining
    <3> HIDE DEF remaining
    <3> QED BY <2>2, MinOf
  <2> HIDE DEF kept
  <2>4. kept \in Nat /\ more \in BOOLEAN
    BY <2>2, <2>3
  <2>5. o.body + kept = IF sum <= bodyLimit THEN sum ELSE bodyLimit
    BY <1>1, <2>3
  <2>6. o.truncated \/ more <=> bodyLimit > 0 /\ sum > bodyLimit
    BY <1>0, <1>1, <1>4
  <2> HIDE DEF more, sum
  <2>7. /\ b \in Observers /\ b.body = o.body + kept /\ (b.truncated <=> o.truncated \/ more)
        /\ b.wroteHeader = o.wroteHeader /\ b.status = o.status /\ b.size = o.size
        /\ b.result = o.result /\ b.writes = o.writes
    <3> DEFINE x == o.body + kept
               y == o.truncated \/ more
    <3>1. x \in Nat /\ y \in BOOLEAN
      BY <2>4 DEF Observers
    <3>2. b = [o EXCEPT !.body = x, !.truncated = y]
      BY <2>1
    <3> HIDE DEF x, y
    <3>3. b \in Observers /\ b.body = x /\ b.truncated = y
      BY <3>1, <3>2 DEF Observers
    <3>4. /\ b.wroteHeader = o.wroteHeader /\ b.status = o.status /\ b.size = o.size
          /\ b.result = o.result /\ b.writes = o.writes
      BY <3>2 DEF Observers
    <3> QED BY <3>3, <3>4 DEF x, y
  <2>8. b.body = Min({sum, bodyLimit})
    BY <1>2, <2>5, <2>7
  <2>9. b.truncated <=> bodyLimit > 0 /\ sum > bodyLimit
    BY <2>6, <2>7
  <2> QED BY <2>7, <2>8, <2>9 DEF sum
<1> QED BY <1>3, <1>4

\* A write of the handler, of which the connection may take less.
LEMMA WriteKeeps == ObservedInv /\ Write => ObservedInv'
PROOF
<1> SUFFICES ASSUME ObservedInv, Write PROVE ObservedInv'
  OBVIOUS
<1>1. PICK length \in Chunks : \E written \in 0 .. length :
        /\ written > 0 => TakesBody(SentHeader(wire, 200))
        /\ observer' = [BodyWritten(HeaderWritten(observer, 200), length)
                          EXCEPT !.size = @ + written, !.writes = @ + 1]
        /\ wire' = [SentHeader(wire, 200) EXCEPT !.size = @ + written, !.offered = @ + length]
  BY ZenonT(60) DEF Write
<1>2. PICK written \in 0 .. length :
        /\ observer' = [BodyWritten(HeaderWritten(observer, 200), length)
                          EXCEPT !.size = @ + written, !.writes = @ + 1]
        /\ wire' = [SentHeader(wire, 200) EXCEPT !.size = @ + written, !.offered = @ + length]
  BY <1>1, ZenonT(60)
<1>3. /\ length \in Nat /\ written \in Nat /\ length > 0 /\ observer.result = "none"
      /\ bodyLimit' = bodyLimit /\ bodyLimit \in Nat
  BY <1>1, TimingAssumption DEF Write, HandlerRuns, ObservedInv
<1> DEFINE o == HeaderWritten(observer, 200)
           w == SentHeader(wire, 200)
           b == BodyWritten(o, length)
<1>4. w = IF 200 >= 200 /\ observer.wroteHeader THEN wire ELSE w
  BY <1>3 DEF SentHeader, ObservedInv, Agree
<1>5. /\ o \in Observers /\ w \in Wires /\ Agree(o, w)
      /\ o.size = observer.size /\ o.body = observer.body
      /\ o.truncated = observer.truncated /\ o.result = "none"
      /\ w.size = wire.size /\ w.offered = wire.offered
  BY <1>3, <1>4, HeaderGoesOut DEF ObservedInv
<1>6. observer' = [b EXCEPT !.size = @ + written, !.writes = @ + 1]
      /\ wire' = [w EXCEPT !.size = @ + written, !.offered = @ + length]
  BY <1>2
<1> HIDE DEF o, w
<1>7. w.offered \in Nat /\ Holds(o, w.offered)
  BY <1>5 DEF ObservedInv, BodyAsSent, Holds, Wires
<1>8. b \in Observers /\ Holds(b, w.offered + length) /\ SameButBody(b, o)
  BY <1>3, <1>5, <1>7, BodyGoesIn
<1> HIDE DEF b
<1>9. /\ wire' \in Wires /\ wire'.status = w.status /\ wire'.hijacked = w.hijacked
      /\ wire'.size = w.size + written /\ wire'.offered = w.offered + length
  <2> DEFINE x == w.size + written
             y == w.offered + length
  <2>1. x \in Nat /\ y \in Nat
    BY <1>3, <1>5 DEF Wires
  <2>2. wire' = [w EXCEPT !.size = x, !.offered = y]
    BY <1>6
  <2> HIDE DEF x, y
  <2>3. /\ wire' \in Wires /\ wire'.status = w.status /\ wire'.hijacked = w.hijacked
        /\ wire'.size = x /\ wire'.offered = y
    BY <1>5, <2>1, <2>2 DEF Wires
  <2> QED BY <2>3 DEF x, y
<1>10. /\ observer' \in Observers /\ observer'.wroteHeader = b.wroteHeader
       /\ observer'.status = b.status /\ observer'.size = b.size + written
       /\ observer'.body = b.body /\ observer'.truncated = b.truncated
       /\ observer'.result = b.result
  <2> DEFINE x == b.size + written
             y == b.writes + 1
  <2>1. x \in Nat /\ y \in Nat
    BY <1>3, <1>8 DEF Observers
  <2>2. observer' = [b EXCEPT !.size = x, !.writes = y]
    BY <1>6
  <2> HIDE DEF x, y
  <2>3. /\ observer' \in Observers /\ observer'.wroteHeader = b.wroteHeader
        /\ observer'.status = b.status /\ observer'.size = x
        /\ observer'.body = b.body /\ observer'.truncated = b.truncated
        /\ observer'.result = b.result
    BY <1>8, <2>1, <2>2 DEF Observers
  <2> QED BY <2>3 DEF x
<1>11. Agree(observer', wire')
  BY <1>5, <1>8, <1>9, <1>10 DEF Agree, SameButBody
<1>12. BodyAsSent'
  <2>1. observer'.size = wire'.size
    BY <1>5, <1>8, <1>9, <1>10 DEF ObservedInv, BodyAsSent, SameButBody
  <2>2. /\ observer'.body = Min({wire'.offered, bodyLimit'})
        /\ observer'.truncated <=> bodyLimit' > 0 /\ wire'.offered > bodyLimit'
    BY <1>3, <1>8, <1>9, <1>10 DEF Holds
  <2> QED BY <2>1, <2>2 DEF BodyAsSent, Holds
<1>13. observer'.result = "none"
  BY <1>5, <1>8, <1>10 DEF SameButBody
<1> QED BY <1>3, <1>9, <1>10, <1>11, <1>12, <1>13 DEF ObservedInv, ObservedAsSent

\* Every call of the handler keeps the invariant, and so does its end.
LEMMA ObservedStep == ObservedInv /\ [ResponseNext]_responseVars => ObservedInv'
PROOF
<1> SUFFICES ASSUME ObservedInv, [ResponseNext]_responseVars PROVE ObservedInv'
  OBVIOUS
<1>0. observer \in Observers /\ wire \in Wires /\ bodyLimit \in Nat
  BY DEF ObservedInv
<1>1. CASE WriteHeader
  <2>1. PICK status \in Statuses :
          /\ observer' = [HeaderWritten(observer, status) EXCEPT !.writes = @ + 1]
          /\ wire' = IF status >= 200 /\ observer.wroteHeader THEN wire
                     ELSE SentHeader(wire, status)
    BY <1>1 DEF WriteHeader
  <2>2. /\ status \in Nat /\ status >= 100 /\ observer.result = "none"
        /\ Agree(observer, wire) /\ UNCHANGED bodyLimit
    BY <1>1, TimingAssumption DEF WriteHeader, HandlerRuns, ObservedInv
  <2> DEFINE o == HeaderWritten(observer, status)
             w == IF status >= 200 /\ observer.wroteHeader THEN wire ELSE SentHeader(wire, status)
  <2>3. observer' = [o EXCEPT !.writes = @ + 1] /\ wire' = w
    BY <2>1
  <2>4. /\ o \in Observers /\ w \in Wires /\ Agree(o, w)
        /\ o.size = observer.size /\ o.body = observer.body
        /\ o.truncated = observer.truncated /\ o.result = observer.result
        /\ w.size = wire.size /\ w.offered = wire.offered
    BY <1>0, <2>2, HeaderGoesOut
  <2> HIDE DEF o, w
  <2> QED BY <2>2, <2>3, <2>4, HeaderStepKeeps
<1>2. CASE Write
  BY <1>2, WriteKeeps
<1>3. CASE Flush
  <2> DEFINE o == HeaderWritten(observer, 200)
             w == SentHeader(wire, 200)
  <2>1. /\ observer' = [o EXCEPT !.writes = @ + 1] /\ wire' = w /\ observer.result = "none"
        /\ Agree(observer, wire) /\ UNCHANGED bodyLimit
    BY <1>3 DEF Flush, HandlerRuns, ObservedInv
  <2>2. w = IF 200 >= 200 /\ observer.wroteHeader THEN wire ELSE w
    BY <2>1 DEF SentHeader, Agree
  <2>3. /\ o \in Observers /\ w \in Wires /\ Agree(o, w)
        /\ o.size = observer.size /\ o.body = observer.body
        /\ o.truncated = observer.truncated /\ o.result = observer.result
        /\ w.size = wire.size /\ w.offered = wire.offered
    BY <1>0, <2>1, <2>2, HeaderGoesOut
  <2> HIDE DEF o, w
  <2> QED BY <2>1, <2>3, HeaderStepKeeps
<1>4. CASE Hijack
  <2>1. /\ observer' = [observer EXCEPT !.writes = @ + 1] /\ observer.result = "none"
        /\ Agree(observer, wire) /\ UNCHANGED bodyLimit
        /\ wire' = wire \/ wire' = [wire EXCEPT !.hijacked = TRUE]
    BY <1>4 DEF Hijack, HandlerRuns, ObservedInv
  <2>2. /\ wire' \in Wires /\ wire'.status = wire.status
        /\ wire'.size = wire.size /\ wire'.offered = wire.offered
        /\ wire.hijacked => wire'.hijacked
    BY <1>0, <2>1 DEF Wires
  <2>3. Agree(observer, wire')
    BY <2>1, <2>2 DEF Agree
  <2> DEFINE w == wire'
  <2>4. /\ w \in Wires /\ Agree(observer, w) /\ wire' = w
        /\ w.size = wire.size /\ w.offered = wire.offered
    BY <2>2, <2>3
  <2> HIDE DEF w
  <2> QED BY <1>0, <2>1, <2>4, HeaderStepKeeps
<1>5. CASE HandlerReturns
  <2>1. /\ observer.result = "none" /\ observer' = [observer EXCEPT !.result = "returned"]
        /\ wire' = SentHeader(wire, 200) /\ bodyLimit' = bodyLimit /\ Agree(observer, wire)
    BY <1>5 DEF HandlerReturns, ObservedInv
  <2>2. wire' = IF wire.status = 0 /\ ~wire.hijacked THEN [wire EXCEPT !.status = 200] ELSE wire
    BY <2>1 DEF SentHeader
  <2>3. /\ wire' \in Wires /\ wire'.size = wire.size /\ wire'.offered = wire.offered
        /\ wire'.hijacked = wire.hijacked
        /\ wire'.status = IF wire.status = 0 /\ ~wire.hijacked THEN 200 ELSE wire.status
    BY <1>0, <2>2 DEF Wires
  <2>4. /\ observer' \in Observers /\ observer'.status = observer.status
        /\ observer'.size = observer.size /\ observer'.body = observer.body
        /\ observer'.truncated = observer.truncated /\ observer'.result = "returned"
    BY <1>0, <2>1 DEF Observers
  <2>5. BodyAsSent'
    BY <2>1, <2>3, <2>4 DEF ObservedInv, BodyAsSent, Holds
  <2>6. /\ wire'.status \notin {0, 101} => observer'.status = wire'.status
        /\ wire'.status = 0 => wire'.hijacked
    BY <2>1, <2>3, <2>4 DEF Agree
  <2>7. ObservedAsSent'
    BY <2>5, <2>6 DEF ObservedAsSent, BodyAsSent, Holds, SwitchingProtocols
  <2> QED BY <1>0, <2>1, <2>3, <2>4, <2>5, <2>7 DEF ObservedInv
<1>6. CASE HandlerPanics
  <2>1. /\ observer' = [observer EXCEPT !.result = "panicked", !.status = 500]
        /\ wire' = wire /\ bodyLimit' = bodyLimit
    BY <1>6 DEF HandlerPanics
  <2>2. /\ observer' \in Observers /\ observer'.result = "panicked"
        /\ observer'.size = observer.size /\ observer'.body = observer.body
        /\ observer'.truncated = observer.truncated
    <3> DEFINE a == "panicked"
               b == 500
    <3>1. a \in {"none", "returned", "panicked"} /\ b \in Nat
      OBVIOUS
    <3>2. observer' = [observer EXCEPT !.result = a, !.status = b] /\ observer \in Observers
      BY <1>0, <2>1
    <3> HIDE DEF a, b
    <3>3. /\ observer' \in Observers /\ observer'.result = a
          /\ observer'.size = observer.size /\ observer'.body = observer.body
          /\ observer'.truncated = observer.truncated
      BY <3>1, <3>2 DEF Observers
    <3> QED BY <3>3 DEF a
  <2>3. BodyAsSent'
    BY <2>1, <2>2 DEF ObservedInv, BodyAsSent, Holds
  <2> QED BY <1>0, <2>1, <2>2, <2>3 DEF ObservedInv, ObservedAsSent
<1>7. CASE UNCHANGED responseVars
  BY <1>7 DEF responseVars, ObservedInv, BodyAsSent, Holds, ObservedAsSent, Agree
<1> QED BY <1>1, <1>2, <1>3, <1>4, <1>5, <1>6, <1>7 DEF ResponseNext

\* A step of the response, or of another part.
LEMMA ResponseUntouched == [Next]_vars => [ResponseNext]_responseVars
PROOF
<1> SUFFICES ASSUME [Next]_vars PROVE [ResponseNext]_responseVars
  OBVIOUS
<1>1. CASE UNCHANGED vars
  BY <1>1 DEF vars, timingVars, responseVars
<1>2. CASE Responding
  BY <1>2 DEF Responding
<1>3. CASE Timing
  BY <1>3 DEF Timing, MiddlewareNext, Tick, Invoke, FinishInvocation, LogMiddleware, CallNext,
              ReturnFromNext, responseVars
<1> QED
  BY <1>1, <1>2, <1>3 DEF Next, Ordering, Analyzing, Operating, StartingAndClosing, Tracing, timingVars,
                          responseVars

\* A captured response is the one that was sent, whatever the handler writes, in
\* whatever order and sizes, however little of it the connection takes, and
\* whatever the limit on bodies is.  Its status is the final one net/http sent, but
\* for 101 and for a connection taken over before there was one
\* (responseObserver, BodyRecorder).
THEOREM ResponseObservedAsSent == Spec => []ObservedAsSent
PROOF
<1>1. Init => ObservedInv
  BY ObservedStart
<1>2. ObservedInv /\ [Next]_vars => ObservedInv'
  BY ObservedStep, ResponseUntouched
<1>3. ObservedInv => ObservedAsSent
  BY DEF ObservedInv
<1> QED BY <1>1, <1>2, <1>3, PTL DEF Spec

-----------------------------------------------------------------------------
(* The plans of a query.                                                   *)

\* The bytes of the lines of an answer ...
Lines(s) == FoldLeft(LAMBDA a, b : a + b, 0, s)

\* ... as a function of the lines that have been counted.
Summing(g, s, D) ==
  g = [T \in SUBSET D |-> IF T = {} THEN 0 ELSE g[T \ {Max(T)}] + s[Max(T)]]

\* The fold of the community modules is such a function, applied.
LEMMA LinesSum ==
    ASSUME NEW s
    PROVE  Lines(s) = (CHOOSE g : Summing(g, s, DOMAIN s))[DOMAIN s]
PROOF
BY DEF Lines, FoldLeft, MapThenFoldSet, Summing

\* There is such a function for every sequence.
LEMMA SumExists ==
    ASSUME NEW s, NEW n \in Nat
    PROVE  \E g : Summing(g, s, 1..n)
PROOF
<1> DEFINE P == {k \in 0..n : \E g : Summing(g, s, 1..k)}
<1>1. 0 \in P
  <2> DEFINE z == [T \in SUBSET {} |-> 0]
  <2>1. 1..0 = {}
    OBVIOUS
  <2>2. Summing(z, s, {})
    BY DEF Summing
  <2> QED BY <2>1, <2>2
<1>2. ASSUME NEW k \in 0..(n - 1), k \in P PROVE (k + 1) \in P
  <2>1. PICK g : Summing(g, s, 1..k)
    BY <1>2
  <2> DEFINE last == k + 1
             step(T) == g[T] + s[last]
             G == [T \in SUBSET (1..last) |->
                     IF last \in T THEN step(T \ {last}) ELSE g[T]]
  <2>2. /\ 1..k \subseteq 1..last /\ last \notin 1..k
        /\ \A T \in SUBSET (1..last) : T \ {last} \in SUBSET (1..k)
        /\ \A T \in SUBSET (1..last) : last \in T => Max(T) = last
    <3>1. k \in Nat
      OBVIOUS
    <3>2. 1..k \subseteq 1..last /\ last \notin 1..k /\ (1..last) \ {last} = 1..k
      BY <3>1
    <3>3. \A T \in SUBSET (1..last) : T \ {last} \in SUBSET (1..k)
      BY <3>2
    <3> QED BY <3>1, <3>2, <3>3, MaxOfPrefix
  <2> HIDE DEF last
  <2>3. ASSUME NEW T \in SUBSET (1..last)
        PROVE  G[T] = IF T = {} THEN 0 ELSE G[T \ {Max(T)}] + s[Max(T)]
    <3>1. CASE last \in T
      <4>1. Max(T) = last /\ T # {}
        BY <3>1, <2>2
      <4>2. G[T \ {last}] = g[T \ {last}]
        BY <2>2
      <4>3. G[T] = step(T \ {last})
        BY <3>1
      <4> HIDE DEF G
      <4> QED BY <4>1, <4>2, <4>3
    <3>2. CASE last \notin T
      <4>1. T \in SUBSET (1..k) /\ T \ {Max(T)} \in SUBSET (1..k)
        BY <3>2, <2>2
      <4>2. G[T] = g[T] /\ G[T \ {Max(T)}] = g[T \ {Max(T)}]
        BY <3>2, <4>1, <2>2
      <4> HIDE DEF G
      <4> QED BY <2>1, <4>1, <4>2 DEF Summing
    <3> QED BY <3>1, <3>2
  <2>4. G = [T \in SUBSET (1..last) |-> G[T]]
    OBVIOUS
  <2> HIDE DEF G
  <2>5. Summing(G, s, 1..last)
    BY <2>3, <2>4 DEF Summing
  <2> QED BY <2>5 DEF last
<1>3. n \in P
  <2> HIDE DEF P
  <2> QED BY <1>1, <1>2, Upwards
<1> QED BY <1>3

\* The bytes of lines are a number.
LEMMA LinesNumber ==
    ASSUME NEW s \in Seq(Int)
    PROVE  Lines(s) \in Int
PROOF
<1> DEFINE n == Len(s)
           g == CHOOSE f : Summing(f, s, 1..n)
           P == {k \in 0..n : g[1..k] \in Int}
<1>1. n \in Nat /\ DOMAIN s = 1..n /\ \A i \in 1..n : s[i] \in Int
  BY ElementOfSeq
<1>2. Summing(g, s, 1..n) /\ Lines(s) = g[1..n]
  BY <1>1, SumExists, LinesSum
<1> HIDE DEF n, g
<1>3. 0 \in P
  <2>1. 1..0 = {} /\ {} \in SUBSET (1..n)
    OBVIOUS
  <2>2. g[{}] = 0
    BY <1>2, <2>1 DEF Summing
  <2> QED BY <1>1, <2>1, <2>2
<1>4. ASSUME NEW k \in 0..(n - 1), k \in P PROVE (k + 1) \in P
  <2> DEFINE last == k + 1
  <2>1. k \in Nat /\ last \in 1..n /\ last \in 0..n /\ 1..last \in SUBSET (1..n) /\ 1..last # {}
    <3>1. k \in Nat /\ k + 1 <= n
      BY <1>1
    <3>2. last \in 1..n /\ last \in 0..n /\ last \in 1..last
      BY <1>1, <3>1
    <3>3. \A i \in 1..last : i \in 1..n
      BY <1>1, <3>1
    <3> QED BY <3>1, <3>2, <3>3
  <2>2. Max(1..last) = last /\ (1..last) \ {last} = 1..k
    <3>1. 1..last \in SUBSET (1..last) /\ last \in 1..last
      BY <2>1
    <3> QED BY <2>1, <3>1, MaxOfPrefix
  <2> HIDE DEF last
  <2>3. g[1..last] = g[1..k] + s[last]
    <3>1. g[1..last] = IF 1..last = {} THEN 0
                       ELSE g[(1..last) \ {Max(1..last)}] + s[Max(1..last)]
      BY <1>2, <2>1 DEF Summing
    <3> QED BY <2>1, <2>2, <3>1
  <2>4. g[1..k] \in Int /\ s[last] \in Int
    BY <1>1, <1>4, <2>1
  <2>5. g[1..last] \in Int
    BY <2>3, <2>4
  <2> QED BY <2>1, <2>5 DEF last
<1>5. n \in P
  <2> HIDE DEF P
  <2> QED BY <1>1, <1>3, <1>4, Upwards
<1> QED BY <1>2, <1>5

\* Plans that fit into their limit, and say so when something is lost.
SoundPlans == {plan \in [size : Int, cut : BOOLEAN, lost : BOOLEAN, error : BOOLEAN] :
                  plan.size <= ExplainMaxBytes /\ (plan.lost => plan.cut \/ plan.error)}

\* appendPlanText keeps within the limit.
LEMMA TextFits ==
    ASSUME NEW lines \in Seq(Nat \ {0})
    PROVE  /\ PlanText(lines).size \in Int /\ PlanText(lines).size <= ExplainMaxBytes
           /\ PlanText(lines).whole \in BOOLEAN
PROOF
<1>1. lines \in Seq(Int) /\ Len(lines) - 1 \in Int
  <2>1. Nat \ {0} \subseteq Int
    OBVIOUS
  <2>2. \A S, T : S \subseteq T => Seq(S) \subseteq Seq(T)
    OBVIOUS
  <2>3. lines \in Seq(Int)
    BY <2>1, <2>2
  <2> QED BY <2>3
<1>2. SizeOf(lines) = Lines(lines) + Max({Len(lines) - 1, 0})
  BY DEF SizeOf, Lines
<1> DEFINE size == SizeOf(lines)
<1>3. size \in Int
  BY <1>1, <1>2, LinesNumber, MaxOf
<1>4. ExplainMaxBytes \in Int
  BY OperationsAssumption
<1> HIDE DEF size
<1>5. PlanText(lines) = [size |-> Min({size, ExplainMaxBytes}), whole |-> size <= ExplainMaxBytes]
  BY DEF PlanText, size
<1> QED BY <1>3, <1>4, <1>5, MinOf

\* Both readers of plans, the one that marks every answer of as many lines as it
\* reads and the one that looks for one more, mark what they cut.
LEMMA PlansAreSound ==
    ASSUME NEW answer \in Plans
    PROVE  ReadPlan(answer) \in SoundPlans /\ ReadSQLPlan(answer) \in SoundPlans
PROOF
<1> DEFINE read == Min({Len(answer), ExplainMaxRows})
           text == PlanText(SubSeq(answer, 1, read))
<1>1. answer \in Seq(Nat \ {0}) /\ Len(answer) \in Nat /\ ExplainMaxRows \in Nat
  BY OperationsAssumption
<1>2. read = IF Len(answer) <= ExplainMaxRows THEN Len(answer) ELSE ExplainMaxRows
  BY <1>1, MinOf
<1> HIDE DEF read
<1>3. SubSeq(answer, 1, read) \in Seq(Nat \ {0})
  <2>1. read \in Nat /\ read <= Len(answer)
    BY <1>1, <1>2
  <2>2. \A i \in 1..read : answer[i] \in Nat \ {0}
    BY <1>1, <2>1, ElementOfSeq
  <2> QED BY <1>1, <2>1, <2>2, SubSeqProperties
<1>4. text.size \in Int /\ text.size <= ExplainMaxBytes /\ text.whole \in BOOLEAN
  BY <1>3, TextFits
<1> HIDE DEF text
<1>5. ASSUME NEW cut \in BOOLEAN, read < Len(answer) => cut
      PROVE  PlanOf(answer, read, cut) \in SoundPlans
  <2> DEFINE plan == PlanOf(answer, read, cut)
  <2>1. plan = [size |-> text.size, cut |-> cut \/ ~text.whole,
                lost |-> read < Len(answer) \/ ~text.whole, error |-> FALSE]
    BY DEF PlanOf, text
  <2> HIDE DEF plan
  <2>2. plan \in [size : Int, cut : BOOLEAN, lost : BOOLEAN, error : BOOLEAN]
    BY <1>4, <2>1
  <2>3. plan.size <= ExplainMaxBytes
    BY <1>4, <2>1
  <2>4. plan.lost => plan.cut
    BY <1>4, <1>5, <2>1
  <2>5. plan \in SoundPlans
    BY <2>2, <2>3, <2>4 DEF SoundPlans
  <2> QED BY <2>5 DEF plan
<1>6. ReadPlan(answer) = PlanOf(answer, read, Len(answer) >= ExplainMaxRows)
  BY DEF ReadPlan, read
<1>7. ReadSQLPlan(answer) = PlanOf(answer, read, Len(answer) > ExplainMaxRows)
  BY DEF ReadSQLPlan, read
<1>8. /\ read < Len(answer) => Len(answer) > ExplainMaxRows
      /\ read < Len(answer) => Len(answer) >= ExplainMaxRows
  BY <1>1, <1>2
<1>9. PlanOf(answer, read, Len(answer) >= ExplainMaxRows) \in SoundPlans
  <2> DEFINE cut == Len(answer) >= ExplainMaxRows
  <2>1. cut \in BOOLEAN /\ (read < Len(answer) => cut)
    BY <1>8
  <2> HIDE DEF cut
  <2>2. PlanOf(answer, read, cut) \in SoundPlans
    BY <1>5, <2>1
  <2> QED BY <2>2 DEF cut
<1>10. PlanOf(answer, read, Len(answer) > ExplainMaxRows) \in SoundPlans
  <2> DEFINE cut == Len(answer) > ExplainMaxRows
  <2>1. cut \in BOOLEAN /\ (read < Len(answer) => cut)
    BY <1>8
  <2> HIDE DEF cut
  <2>2. PlanOf(answer, read, cut) \in SoundPlans
    BY <1>5, <2>1
  <2> QED BY <2>2 DEF cut
<1> QED BY <1>6, <1>7, <1>9, <1>10

\* ... and so are the lack of a plan and the failure of its query ...
LEMMA NoPlanIsSound == NoPlan \in SoundPlans
PROOF
BY OperationsAssumption DEF NoPlan, SoundPlans

LEMMA FailedPlanIsSound == FailedPlan \in SoundPlans
PROOF
BY OperationsAssumption DEF FailedPlan, SoundPlans

\* ... or of the reading of its lines.
LEMMA BrokenPlansAreSound ==
    ASSUME NEW answer \in Plans, NEW most \in Int
    PROVE  BrokenPlans(answer, most) \subseteq SoundPlans
PROOF
<1> SUFFICES ASSUME NEW read \in 0 .. Min({Len(answer), most})
             PROVE  BrokenPlan(answer, read) \in SoundPlans
  BY DEF BrokenPlans
<1>1. answer \in Seq(Nat \ {0}) /\ Len(answer) \in Nat
  BY OperationsAssumption
<1>2. read \in Nat /\ read <= Len(answer)
  <2>1. Min({Len(answer), most}) = IF Len(answer) <= most THEN Len(answer) ELSE most
    BY <1>1, MinOf
  <2> QED BY <1>1, <2>1
<1>3. SubSeq(answer, 1, read) \in Seq(Nat \ {0})
  <2>1. \A i \in 1..read : answer[i] \in Nat \ {0}
    BY <1>1, <1>2, ElementOfSeq
  <2> QED BY <1>1, <1>2, <2>1, SubSeqProperties
<1> DEFINE size == PlanText(SubSeq(answer, 1, read)).size
           plan == BrokenPlan(answer, read)
<1>4. size \in Int /\ size <= ExplainMaxBytes
  BY <1>3, TextFits
<1>5. plan = [FailedPlan EXCEPT !.size = size]
  BY DEF BrokenPlan
<1> HIDE DEF size, plan
<1>6. plan = [size |-> size, cut |-> FALSE, lost |-> TRUE, error |-> TRUE]
  BY <1>5 DEF FailedPlan
<1>7. plan \in SoundPlans
  BY <1>4, <1>6 DEF SoundPlans
<1> QED BY <1>7 DEF plan

\* All an integration may attach.
LEMMA AllPlansAreSound == DriverPlans \cup SQLPlans \cup {NoPlan} \subseteq SoundPlans
PROOF
<1>1. ExplainMaxRows \in Int /\ ExplainMaxRows - 1 \in Int
  BY OperationsAssumption
<1>2. \A answer \in Plans : /\ ReadPlan(answer) \in SoundPlans
                            /\ ReadSQLPlan(answer) \in SoundPlans
  BY PlansAreSound
<1> DEFINE most == ExplainMaxRows - 1
<1>3. \A answer \in Plans : BrokenPlans(answer, most) \subseteq SoundPlans
  <2> HIDE DEF most
  <2> QED BY <1>1, BrokenPlansAreSound DEF most
<1>4. \A answer \in Plans : BrokenPlans(answer, ExplainMaxRows) \subseteq SoundPlans
  BY <1>1, BrokenPlansAreSound
<1>5. DriverPlans = {FailedPlan} \cup {ReadPlan(answer) : answer \in Plans}
                        \cup UNION {BrokenPlans(answer, most) : answer \in Plans}
  BY DEF DriverPlans
<1> HIDE DEF most
<1>6. DriverPlans \subseteq SoundPlans
  BY <1>2, <1>3, <1>5, NoPlanIsSound, FailedPlanIsSound
<1>7. SQLPlans \subseteq SoundPlans
  BY <1>2, <1>4, NoPlanIsSound, FailedPlanIsSound DEF SQLPlans
<1> QED BY <1>6, <1>7, NoPlanIsSound, FailedPlanIsSound

-----------------------------------------------------------------------------
(* An operation of an integration.                                         *)

\* The fields of an operation that has begun.
OperationFields ==
    {"by", "explains", "live", "messages", "at", "plan", "sets", "retries", "finished",
     "outcome", "contexts"}

\* How a call ends.
Outcomes == {"none", "ok", "miss", "error", "panic", "refused", "abandoned"}

\* The types.
OperationTypeOK ==
    /\ DOMAIN operation = OperationFields
    /\ operation.explains \in BOOLEAN /\ operation.live \in BOOLEAN
    /\ operation.finished \in BOOLEAN
    /\ operation.messages \in Nat /\ operation.retries \in Nat
    /\ operation.at \in {"run", "explain", "rows", "running", "record", "open", "closed"}
    /\ operation.plan \in SoundPlans
    /\ operation.outcome \in Outcomes

\* What can still record has not recorded, unless it has a sync.Once: a span, the
\* rows of a driver and a stream have.  Only drivers try again, one query each.
\* A statement that pgx does not explain has one context, with its trace.
CanGoOn ==
    /\ operation.at \in {"run", "explain"} /\ operation.by \notin Spans => ~operation.finished
    /\ operation.by \in Drivers => operation.messages = 1
    /\ operation.by \notin Drivers => operation.retries = 0
    /\ operation.at \in {"running", "record"} =>
         /\ operation.by = "pgx" /\ ~operation.finished
         /\ ~operation.explains => /\ Len(operation.contexts) = 1
                                   /\ operation.contexts[1].trace

\* What is recorded, for all but the queries that pgx explains: an entry for each
\* attempt that was repeated, and at the end, unless it passes unseen, one for
\* each message; with the failure and the plan.
Told ==
    ~ExplainedByPgx =>
        /\ operation.finished <=> operation.outcome # "none" /\ ~Unrecorded
        /\ operation.at # "closed" => (operation.finished <=> operation.outcome # "none")
        /\ \E S : recorded \in Seq(S)
        /\ Len(recorded) = IF operation.live
                           THEN operation.retries
                                  + (IF operation.finished THEN operation.messages ELSE 0)
                           ELSE 0
        /\ \A i \in DOMAIN recorded :
              /\ recorded[i].error \/ recorded[i].state \in {"failed", "panicked"}
                   <=> i <= operation.retries \/ operation.outcome \in {"error", "panic"}
              /\ recorded[i].plan \in SoundPlans

\* An operation that has begun.
Begun == OperationTypeOK /\ CanGoOn /\ Told

\* The inductive invariant.  RecordedOnce is about what is recorded; that it is
\* not recorded again rests on where the operation stands.
OperationInv == (operation = NotBegun /\ recorded = <<>>) \/ Begun

-----------------------------------------------------------------------------

\* An operation that has begun is not the one that has not.
LEMMA BegunIsNew == Begun => operation # NotBegun
PROOF
BY DEF Begun, OperationTypeOK, NotBegun

\* The entries a call of LogXContext leaves, after those that are there.
LEMMA LogDoes ==
    ASSUME OperationTypeOK, NEW S, recorded \in Seq(S),
           NEW state, NEW error, NEW plan, Log(state, error, plan)
    PROVE  /\ \E T : recorded' \in Seq(T)
           /\ Len(recorded') = IF operation.live THEN Len(recorded) + operation.messages
                               ELSE Len(recorded)
           /\ \A i \in DOMAIN recorded' :
                 IF i <= Len(recorded) THEN i \in DOMAIN recorded /\ recorded'[i] = recorded[i]
                 ELSE /\ recorded'[i].state = state
                      /\ recorded'[i].error = error
                      /\ recorded'[i].plan = plan
PROOF
<1> DEFINE m == operation.messages
           e == [state |-> state, error |-> error, plan |-> plan]
           all == [i \in 1 .. m |-> e]
           T == S \cup {e}
<1>1. m \in Nat /\ operation.live \in BOOLEAN
  BY DEF OperationTypeOK
<1>2. recorded' = IF operation.live THEN recorded \o all ELSE recorded
  BY DEF Log
<1>3. e.state = state /\ e.error = error /\ e.plan = plan
  OBVIOUS
<1> HIDE DEF e, m
<1>4. recorded \in Seq(T) /\ Len(recorded) \in Nat /\ DOMAIN recorded = 1 .. Len(recorded)
  <2>1. S \subseteq T
    OBVIOUS
  <2>2. \A A, B : A \subseteq B => Seq(A) \subseteq Seq(B)
    OBVIOUS
  <2> HIDE DEF T
  <2> QED BY <2>1, <2>2, ElementOfSeq
<1>5. all \in Seq(T) /\ Len(all) = m /\ \A i \in 1 .. m : all[i] = e
  BY <1>1
<1> HIDE DEF all, T
<1>6. CASE operation.live
  <2>1. recorded' = recorded \o all
    BY <1>2, <1>6
  <2>2. /\ recorded' \in Seq(T) /\ Len(recorded') = Len(recorded) + m
        /\ \A i \in 1 .. Len(recorded) + m :
              recorded'[i] = IF i <= Len(recorded) THEN recorded[i] ELSE all[i - Len(recorded)]
    BY <1>4, <1>5, <2>1, ConcatProperties
  <2>3. ASSUME NEW i \in DOMAIN recorded'
        PROVE  IF i <= Len(recorded) THEN i \in DOMAIN recorded /\ recorded'[i] = recorded[i]
               ELSE recorded'[i] = e
    <3>1. i \in 1 .. Len(recorded) + m
      BY <2>2
    <3>2. CASE i <= Len(recorded)
      BY <1>4, <2>2, <3>1, <3>2
    <3>3. CASE ~(i <= Len(recorded))
      <4>1. i - Len(recorded) \in 1 .. m
        BY <1>1, <1>4, <3>1, <3>3
      <4>2. all[i - Len(recorded)] = e
        BY <1>5, <4>1
      <4> QED BY <2>2, <3>1, <3>3, <4>2
    <3> QED BY <3>2, <3>3
  <2> QED BY <1>3, <1>6, <2>2, <2>3 DEF m
<1>7. CASE ~operation.live
  <2>1. recorded' = recorded
    BY <1>2, <1>7
  <2> QED BY <1>4, <1>7, <2>1
<1> QED BY <1>6, <1>7

\* A step that records nothing and ends nothing.
LEMMA Moves ==
    ASSUME Begun, UNCHANGED recorded, OperationTypeOK', CanGoOn',
           operation'.explains = operation.explains, operation'.live = operation.live,
           operation'.messages = operation.messages, operation'.retries = operation.retries,
           operation'.finished = operation.finished,
           operation'.outcome = operation.outcome,
           operation'.by = "pgx" <=> operation.by = "pgx",
           operation.at # "closed",
           ExplainedByPgx \/ operation.outcome = "none"
             \/ (operation'.by = operation.by /\ operation'.at = operation.at)
    PROVE  OperationInv'
PROOF
<1>1. operation # NotBegun /\ operation' # NotBegun
  BY DEF Begun, OperationTypeOK, NotBegun
<1>2. ExplainedByPgx' <=> ExplainedByPgx
  BY <1>1 DEF ExplainedByPgx
<1>3. ASSUME ~ExplainedByPgx PROVE Told'
  <2>1. /\ operation.finished <=> operation.outcome # "none"
        /\ operation.finished <=> operation.outcome # "none" /\ ~Unrecorded
    BY <1>3 DEF Begun, Told
  <2>2. /\ operation'.finished <=> operation'.outcome # "none"
        /\ operation'.finished <=> operation'.outcome # "none" /\ ~Unrecorded'
    <3>1. CASE operation.outcome = "none"
      BY <2>1, <3>1
    <3>2. CASE operation'.by = operation.by /\ operation'.at = operation.at
      <4>1. Unrecorded' = Unrecorded
        BY <3>2 DEF Unrecorded
      <4> QED BY <2>1, <4>1
    <3> QED BY <1>3, <3>1, <3>2
  <2> QED BY <1>3, <2>2 DEF Begun, Told
<1>4. Told'
  BY <1>2, <1>3 DEF Told
<1> QED BY <1>4 DEF OperationInv, Begun

\* What is recorded of an operation that can still end: its repeated attempts.
LEMMA AttemptsOnly ==
    ASSUME Begun, ~ExplainedByPgx, ~operation.finished, operation.outcome = "none"
    PROVE  /\ \E S : recorded \in Seq(S)
           /\ Len(recorded) = IF operation.live THEN operation.retries ELSE 0
           /\ \A i \in DOMAIN recorded :
                 /\ i \in 1 .. operation.retries /\ i <= Len(recorded)
                 /\ recorded[i].error \/ recorded[i].state \in {"failed", "panicked"}
                 /\ recorded[i].plan \in SoundPlans
PROOF
<1>1. /\ \E S : recorded \in Seq(S)
      /\ Len(recorded) = IF operation.live
                         THEN operation.retries
                                + (IF operation.finished THEN operation.messages ELSE 0)
                         ELSE 0
      /\ operation.retries \in Nat
  BY DEF Begun, Told, OperationTypeOK
<1>2. Len(recorded) = IF operation.live THEN operation.retries ELSE 0
  BY <1>1
<1>3. \A i \in DOMAIN recorded : i \in 1 .. Len(recorded)
  BY <1>1, ElementOfSeq
<1>4. \A i \in DOMAIN recorded : i \in 1 .. operation.retries /\ i <= Len(recorded)
  BY <1>1, <1>2, <1>3
<1> QED BY <1>1, <1>2, <1>4 DEF Begun, Told

\* A step that ends an operation and records it.
LEMMA Ends ==
    ASSUME Begun, ~ExplainedByPgx, ~operation.finished, operation.outcome = "none",
           NEW state, NEW error, NEW plan \in SoundPlans, Log(state, error, plan),
           OperationTypeOK', CanGoOn',
           operation'.explains = operation.explains, operation'.live = operation.live,
           operation'.messages = operation.messages, operation'.retries = operation.retries,
           operation'.by = operation.by, operation'.finished,
           operation'.outcome # "none", ~Unrecorded',
           (error \/ state \in {"failed", "panicked"}) <=> operation'.outcome \in {"error", "panic"}
    PROVE  OperationInv'
PROOF
<1>1. operation # NotBegun /\ operation' # NotBegun
  BY DEF Begun, OperationTypeOK, NotBegun
<1>2. ~ExplainedByPgx'
  BY <1>1 DEF ExplainedByPgx
<1>3. /\ OperationTypeOK /\ operation.live \in BOOLEAN
      /\ operation.messages \in Nat /\ operation.retries \in Nat
  BY DEF Begun, OperationTypeOK
<1>4. PICK S : recorded \in Seq(S)
  BY AttemptsOnly
<1>5. /\ \E T : recorded' \in Seq(T)
      /\ Len(recorded') = IF operation.live THEN Len(recorded) + operation.messages
                          ELSE Len(recorded)
      /\ \A i \in DOMAIN recorded' :
            IF i <= Len(recorded) THEN i \in DOMAIN recorded /\ recorded'[i] = recorded[i]
            ELSE /\ recorded'[i].state = state
                 /\ recorded'[i].error = error
                 /\ recorded'[i].plan = plan
  BY <1>3, <1>4, LogDoes
<1>6. Len(recorded') = IF operation'.live
                       THEN operation'.retries
                              + (IF operation'.finished THEN operation'.messages ELSE 0)
                       ELSE 0
  BY <1>3, <1>5, AttemptsOnly
<1>7. ASSUME NEW i \in DOMAIN recorded'
      PROVE  /\ recorded'[i].error \/ recorded'[i].state \in {"failed", "panicked"}
                   <=> i <= operation'.retries \/ operation'.outcome \in {"error", "panic"}
             /\ recorded'[i].plan \in SoundPlans
  <2>1. CASE i <= Len(recorded)
    <3>1. i \in DOMAIN recorded /\ recorded'[i] = recorded[i]
      BY <1>5, <2>1
    <3>2. /\ i \in 1 .. operation.retries
          /\ recorded[i].error \/ recorded[i].state \in {"failed", "panicked"}
          /\ recorded[i].plan \in SoundPlans
      BY <3>1, AttemptsOnly
    <3>3. i <= operation'.retries
      BY <1>3, <3>2
    <3> QED BY <3>1, <3>2, <3>3
  <2>2. CASE ~(i <= Len(recorded))
    <3>1. recorded'[i].state = state /\ recorded'[i].error = error /\ recorded'[i].plan = plan
      BY <1>5, <2>2
    <3>2. ~(i <= operation'.retries)
      <4>1. Len(recorded') \in Nat /\ Len(recorded) \in Nat /\ i \in 1 .. Len(recorded')
        BY <1>4, <1>5, ElementOfSeq
      <4>2. Len(recorded) = IF operation.live THEN operation.retries ELSE 0
        BY AttemptsOnly
      <4>3. operation.live
        BY <1>5, <2>2, <4>1
      <4> QED BY <1>3, <2>2, <4>1, <4>2, <4>3
    <3> QED BY <3>1, <3>2
  <2> QED BY <2>1, <2>2
<1>8. Told'
  BY <1>5, <1>6, <1>7 DEF Told
<1> QED BY <1>8 DEF OperationInv, Begun

\* An attempt that is recorded and repeated.
LEMMA Repeats ==
    ASSUME Begun, ~ExplainedByPgx, ~operation.finished, operation.messages = 1,
           operation.outcome = "none",
           NEW state, NEW plan \in SoundPlans, Log(state, TRUE, plan),
           OperationTypeOK', CanGoOn',
           operation'.explains = operation.explains, operation'.live = operation.live,
           operation'.messages = operation.messages,
           operation'.retries = operation.retries + 1,
           operation'.by = operation.by, ~operation'.finished, operation'.outcome = "none"
    PROVE  OperationInv'
PROOF
<1>1. operation # NotBegun /\ operation' # NotBegun
  BY DEF Begun, OperationTypeOK, NotBegun
<1>2. ~ExplainedByPgx'
  BY <1>1 DEF ExplainedByPgx
<1>3. OperationTypeOK /\ operation.live \in BOOLEAN /\ operation.retries \in Nat
  BY DEF Begun, OperationTypeOK
<1>4. PICK S : recorded \in Seq(S)
  BY AttemptsOnly
<1> DEFINE error == TRUE
<1>5. error /\ Log(state, error, plan)
  OBVIOUS
<1> HIDE DEF error
<1>6. /\ \E T : recorded' \in Seq(T)
      /\ Len(recorded') = IF operation.live THEN Len(recorded) + operation.messages
                          ELSE Len(recorded)
      /\ \A i \in DOMAIN recorded' :
            IF i <= Len(recorded) THEN i \in DOMAIN recorded /\ recorded'[i] = recorded[i]
            ELSE /\ recorded'[i].state = state
                 /\ recorded'[i].error = error
                 /\ recorded'[i].plan = plan
  BY <1>3, <1>4, <1>5, LogDoes
<1>7. Len(recorded') = IF operation'.live THEN operation'.retries ELSE 0
  BY <1>3, <1>6, AttemptsOnly
<1>8. ASSUME NEW i \in DOMAIN recorded'
      PROVE  /\ i <= operation'.retries
             /\ recorded'[i].error \/ recorded'[i].state \in {"failed", "panicked"}
             /\ recorded'[i].plan \in SoundPlans
  <2>1. i \in 1 .. Len(recorded') /\ Len(recorded') \in Nat
    BY <1>6, ElementOfSeq
  <2>2. i <= operation'.retries
    BY <1>3, <1>7, <2>1
  <2>3. CASE i <= Len(recorded)
    <3>1. i \in DOMAIN recorded /\ recorded'[i] = recorded[i]
      BY <1>6, <2>3
    <3> QED BY <2>2, <3>1, AttemptsOnly
  <2>4. CASE ~(i <= Len(recorded))
    BY <1>5, <1>6, <2>2, <2>4
  <2> QED BY <2>3, <2>4
<1>9. operation'.retries + (IF operation'.finished THEN operation'.messages ELSE 0)
        = operation'.retries
  BY <1>3
<1>10. Told'
  BY <1>6, <1>7, <1>8, <1>9 DEF Told
<1> QED BY <1>10 DEF OperationInv, Begun

\* An end that the integration does not notice.
LEMMA Unseen ==
    ASSUME Begun, ~ExplainedByPgx, ~operation.finished, operation.outcome = "none",
           NEW outcome \in {"ok", "panic", "refused", "abandoned"}, EndsUnseen(outcome),
           \/ outcome = "refused"
           \/ outcome = "panic" /\ operation.by \in DOMAIN States
                 /\ "panic" \notin DOMAIN States[operation.by]
           \/ operation.by = "stream"
    PROVE  OperationInv'
PROOF
<1>1. operation # NotBegun /\ DOMAIN operation = OperationFields /\ OperationTypeOK
  BY DEF Begun, OperationTypeOK, NotBegun
<1>2. operation' = [operation EXCEPT !.at = "closed", !.outcome = outcome]
      /\ recorded' = recorded
  BY DEF EndsUnseen
<1>3. /\ DOMAIN operation' = OperationFields
      /\ operation'.at = "closed" /\ operation'.outcome = outcome
      /\ operation'.by = operation.by /\ operation'.plan = operation.plan
      /\ operation'.finished = operation.finished
      /\ operation'.explains = operation.explains /\ operation'.live = operation.live
      /\ operation'.messages = operation.messages /\ operation'.retries = operation.retries
  BY <1>1, <1>2 DEF OperationFields
<1>4. OperationTypeOK'
  BY <1>1, <1>3 DEF OperationTypeOK, Outcomes
<1>5. CanGoOn'
  BY <1>3 DEF CanGoOn, Begun
<1>6. Unrecorded' /\ ~operation'.finished
  BY <1>3 DEF Unrecorded
<1>7. \A i \in DOMAIN recorded : i <= operation.retries
  BY <1>1, AttemptsOnly DEF OperationTypeOK
<1>8. Told'
  <2>1. operation'.finished <=> operation'.outcome # "none" /\ ~Unrecorded'
    BY <1>6
  <2>2. \A i \in DOMAIN recorded' :
          /\ recorded'[i].error \/ recorded'[i].state \in {"failed", "panicked"}
                   <=> i <= operation'.retries \/ operation'.outcome \in {"error", "panic"}
          /\ recorded'[i].plan \in SoundPlans
    BY <1>2, <1>3, <1>7, AttemptsOnly
  <2>3. /\ \E S : recorded' \in Seq(S)
        /\ Len(recorded') = IF operation'.live
                            THEN operation'.retries
                                   + (IF operation'.finished THEN operation'.messages ELSE 0)
                            ELSE 0
    BY <1>1, <1>2, <1>3, ~ExplainedByPgx DEF Begun, Told
  <2> QED BY <1>3, <2>1, <2>2, <2>3 DEF Told
<1> QED BY <1>4, <1>5, <1>8 DEF OperationInv, Begun

\* An entry written where the call returns.
LEMMA ThenRecorded ==
    ASSUME Begun, ~ExplainedByPgx, ~operation.finished, operation.outcome = "none",
           NEW state, NEW outcome \in {"ok", "miss", "error", "panic"},
           NEW plan \in SoundPlans, RecordNow(state, outcome, plan),
           state \in {"failed", "panicked"} => outcome \in {"error", "panic"},
           outcome = "panic" /\ operation.by \in DOMAIN States
             => "panic" \in DOMAIN States[operation.by],
           operation.by = "stream" => outcome = "error"
    PROVE  OperationInv'
PROOF
<1>1. /\ Log(state, outcome \in {"error", "panic"}, plan)
      /\ operation' = [operation EXCEPT !.at = "closed", !.finished = TRUE, !.outcome = outcome]
  BY DEF RecordNow
<1>2. DOMAIN operation = OperationFields /\ OperationTypeOK
  BY DEF Begun, OperationTypeOK
<1>3. /\ DOMAIN operation' = OperationFields
      /\ operation'.at = "closed" /\ operation'.finished = TRUE /\ operation'.outcome = outcome
      /\ operation'.explains = operation.explains /\ operation'.live = operation.live
      /\ operation'.messages = operation.messages /\ operation'.retries = operation.retries
      /\ operation'.by = operation.by /\ operation'.plan = operation.plan
  BY <1>1, <1>2 DEF OperationFields
<1>4. OperationTypeOK'
  BY <1>2, <1>3 DEF OperationTypeOK, Outcomes
<1>5. CanGoOn'
  BY <1>3 DEF CanGoOn, Begun
<1>6. ~Unrecorded'
  BY <1>3 DEF Unrecorded
<1> DEFINE error == outcome \in {"error", "panic"}
<1>7. (error \/ state \in {"failed", "panicked"}) <=> operation'.outcome \in {"error", "panic"}
  BY <1>3
<1>8. Log(state, error, plan)
  BY <1>1
<1>9. operation'.outcome # "none"
  BY <1>3
<1> HIDE DEF error
<1> QED BY <1>3, <1>4, <1>5, <1>6, <1>7, <1>8, <1>9, Ends

\* An entry written by whoever ends the operation first, and by none after.
LEMMA OnceRecorded ==
    ASSUME Begun, ~ExplainedByPgx,
           \/ operation.at \in {"rows", "open"}
           \/ operation.at = "run" /\ operation.by \in Spans,
           NEW state, NEW outcome \in {"ok", "error", "panic"}, RecordOnce(state, outcome),
           state \in {"failed", "panicked"} => outcome # "ok",
           outcome = "panic" => operation.by \notin DOMAIN States
    PROVE  OperationInv'
PROOF
<1>1. CASE operation.finished
  <2>1. operation' = operation /\ recorded' = recorded
    BY <1>1 DEF RecordOnce, operationVars
  <2> QED BY <2>1 DEF OperationInv, Begun, OperationTypeOK, CanGoOn, Told, ExplainedByPgx, Unrecorded
<1>2. CASE ~operation.finished
  <2>1. /\ Log(state, outcome # "ok", operation.plan)
        /\ operation' = [operation EXCEPT !.finished = TRUE, !.outcome = outcome]
    BY <1>2 DEF RecordOnce
  <2>2. DOMAIN operation = OperationFields /\ OperationTypeOK /\ operation.plan \in SoundPlans
    BY DEF Begun, OperationTypeOK
  <2>3. /\ DOMAIN operation' = OperationFields
        /\ operation'.at = operation.at /\ operation'.finished = TRUE
        /\ operation'.outcome = outcome
        /\ operation'.explains = operation.explains /\ operation'.live = operation.live
        /\ operation'.messages = operation.messages /\ operation'.retries = operation.retries
        /\ operation'.by = operation.by /\ operation'.plan = operation.plan
    BY <2>1, <2>2 DEF OperationFields
  <2>4. OperationTypeOK'
    BY <2>2, <2>3 DEF OperationTypeOK, Outcomes
  <2>5. CanGoOn'
    BY <2>3 DEF CanGoOn, Begun
  <2>6. operation.outcome = "none"
    BY <1>2 DEF Begun, Told
  <2>7. ~Unrecorded' /\ operation'.outcome # "none"
    BY <2>3 DEF Unrecorded
  <2> DEFINE error == outcome # "ok"
  <2>8. (error \/ state \in {"failed", "panicked"}) <=> operation'.outcome \in {"error", "panic"}
    BY <2>3
  <2>9. Log(state, error, operation.plan)
    BY <2>1
  <2> HIDE DEF error
  <2> QED BY <1>2, <2>2, <2>3, <2>4, <2>5, <2>6, <2>7, <2>8, <2>9, Ends
<1> QED BY <1>1, <1>2

\* A step to another point of the operation.
LEMMA MovesTo ==
    ASSUME Begun, UNCHANGED recorded, NEW at \in {"run", "rows", "open", "explain"},
           operation.at # "closed",
           at \in {"run", "explain"} => ~operation.finished,
           NEW by, by = "pgx" <=> operation.by = "pgx",
           by \in Drivers <=> operation.by \in Drivers,
           operation.outcome = "none" \/ (by = operation.by /\ at = operation.at),
           NEW plan \in SoundPlans,
           DOMAIN operation' = OperationFields,
           operation'.at = at, operation'.by = by, operation'.plan = plan,
           operation'.finished = operation.finished, operation'.outcome = operation.outcome,
           operation'.explains = operation.explains, operation'.live = operation.live,
           operation'.messages = operation.messages, operation'.retries = operation.retries
    PROVE  OperationInv'
PROOF
<1>1. OperationTypeOK'
  BY DEF Begun, OperationTypeOK
<1>2. CanGoOn'
  BY DEF CanGoOn, Begun
<1> QED BY <1>1, <1>2, Moves

\* An operation that has not been answered has not ended.
LEMMA StillOpen ==
    ASSUME Begun, ~ExplainedByPgx, operation.at \in {"run", "explain"}, operation.by \notin Spans
    PROVE  ~operation.finished /\ operation.outcome = "none"
PROOF
BY DEF Begun, CanGoOn, Told

\* Who stands at a point has begun.
LEMMA AtBegun ==
    ASSUME OperationInv, NEW S, NEW point, At(S, point)
    PROVE  Begun /\ operation.by \in S /\ operation.at = point
PROOF
BY DEF OperationInv, At

-----------------------------------------------------------------------------

\* The states an integration records: those of a failure are for failures, and a
\* state of another kind leaves it to the error.
TruthfulStates(states) ==
    /\ DOMAIN states \subseteq {"ok", "miss", "error", "panic"}
    /\ \A outcome \in DOMAIN states :
          states[outcome] \in {"failed", "panicked"} => outcome \in {"error", "panic"}

\* All of them.
StatesOfAll ==
    {RedisStates, CacheStates, TransportStates, EmailStates, GoMailStates, EnqueueStates,
     ProcessStates, WriterStates, ReaderStates, PublishStates, SubscriberStates, JobStates,
     DispatchStates, ScheduleStates, CallableStates, UnaryStates, GinStates, EchoStates,
     FiberStates, UnaryServerStates, StreamServerStates, GinMiddlewareStates, SlogStates,
     ZapStates, ZerologStates}

\* No integration records a success as a failure, and spans and queries have no
\* states of this kind.
LEMMA StatesAreTruthful ==
  /\ \A by \in DOMAIN States : TruthfulStates(States[by])
  /\ DOMAIN States \cap (Spans \cup {"pgx", "stream"}) = {}
PROOF
<1>1. \A states \in StatesOfAll : TruthfulStates(states)
  <2>1. /\ TruthfulStates(RedisStates)
        /\ TruthfulStates(CacheStates)
        /\ TruthfulStates(EmailStates)
        /\ TruthfulStates(GoMailStates)
    BY DEF TruthfulStates, RedisStates, CacheStates, EmailStates, GoMailStates
  <2>2. /\ TruthfulStates(EnqueueStates)
        /\ TruthfulStates(ProcessStates)
        /\ TruthfulStates(WriterStates)
        /\ TruthfulStates(ReaderStates)
    BY DEF TruthfulStates, EnqueueStates, ProcessStates, WriterStates, ReaderStates
  <2>3. /\ TruthfulStates(PublishStates)
        /\ TruthfulStates(SubscriberStates)
        /\ TruthfulStates(JobStates)
        /\ TruthfulStates(DispatchStates)
    BY DEF TruthfulStates, PublishStates, SubscriberStates, JobStates, DispatchStates
  <2>4. /\ TruthfulStates(ScheduleStates)
        /\ TruthfulStates(CallableStates)
        /\ TruthfulStates(GinMiddlewareStates)
    BY DEF TruthfulStates, ScheduleStates, CallableStates, GinMiddlewareStates
  <2> DEFINE Blank == {TransportStates, UnaryStates, GinStates, EchoStates, FiberStates,
                      UnaryServerStates, StreamServerStates, SlogStates, ZapStates,
                      ZerologStates}
  <2>5. \A states \in Blank :
         DOMAIN states \subseteq {"ok", "error", "panic"} /\ states["ok"] = ""
    <3>1. /\ DOMAIN TransportStates = {"ok", "error"} /\ TransportStates["ok"] = ""
          /\ DOMAIN UnaryStates = {"ok", "error"} /\ UnaryStates["ok"] = ""
          /\ DOMAIN GinStates = {"ok", "error", "panic"} /\ GinStates["ok"] = ""
      BY DEF TransportStates, UnaryStates, GinStates
    <3>2. /\ DOMAIN EchoStates = {"ok", "error", "panic"} /\ EchoStates["ok"] = ""
          /\ DOMAIN FiberStates = {"ok", "error", "panic"} /\ FiberStates["ok"] = ""
          /\ DOMAIN UnaryServerStates = {"ok", "error", "panic"} /\ UnaryServerStates["ok"] = ""
      BY DEF EchoStates, FiberStates, UnaryServerStates
    <3>3. /\ DOMAIN StreamServerStates = {"ok", "error", "panic"} /\ StreamServerStates["ok"] = ""
          /\ DOMAIN SlogStates = {"ok"} /\ SlogStates["ok"] = ""
          /\ DOMAIN ZapStates = {"ok"} /\ ZapStates["ok"] = ""
      BY DEF StreamServerStates, SlogStates, ZapStates
    <3>4. /\ DOMAIN ZerologStates = {"ok"} /\ ZerologStates["ok"] = ""
      BY DEF ZerologStates
    <3> QED BY <3>1, <3>2, <3>3, <3>4
  <2>6. \A states \in Blank : TruthfulStates(states)
    BY <2>5 DEF TruthfulStates
  <2> QED BY <2>1, <2>2, <2>3, <2>4, <2>6 DEF StatesOfAll
<1>2. \A by \in DOMAIN States : States[by] \in StatesOfAll
  BY DEF States, StatesOfAll
<1>3. DOMAIN States \cap (Spans \cup {"pgx", "stream"}) = {}
  BY DEF States, Spans
<1> QED BY <1>1, <1>2, <1>3

-----------------------------------------------------------------------------

\* Nothing has begun.
LEMMA OperationStart == OperationInit => OperationInv
PROOF
BY DEF OperationInit, OperationInv

\* The exception is of pgx.
LEMMA NotOfPgx ==
    ASSUME Begun, operation.by # "pgx"
    PROVE  ~ExplainedByPgx
PROOF
BY DEF ExplainedByPgx

\* An operation begins with nothing recorded.
LEMMA BeginKeeps == OperationInv /\ Begin => OperationInv'
PROOF
<1> SUFFICES ASSUME OperationInv, Begin PROVE OperationInv'
  OBVIOUS
<1>1. recorded' = <<>>
  BY BegunIsNew DEF OperationInv, Begin
<1>2. PICK by \in Integrations, explains \in BOOLEAN, live \in BOOLEAN,
           messages \in 0 .. MaxMessages :
          /\ explains => by \in Queries
          /\ by \notin Batches => messages = 1
          /\ operation' = [by |-> by, explains |-> explains, live |-> live,
                           messages |-> messages,
                           at |-> IF explains /\ Explainer(by) THEN "explain" ELSE "run",
                           plan |-> NoPlan, sets |-> 0, retries |-> 0,
                           finished |-> FALSE, outcome |-> "none", contexts |-> <<>>]
  BY Zenon DEF Begin
<1>3. operation' = [by |-> by, explains |-> explains, live |-> live,
                    messages |-> messages,
                    at |-> IF explains /\ Explainer(by) THEN "explain" ELSE "run",
                    plan |-> NoPlan, sets |-> 0, retries |-> 0,
                    finished |-> FALSE, outcome |-> "none", contexts |-> <<>>]
  BY <1>2
<1>4. messages \in Nat
  BY OperationsAssumption
<1> DEFINE at == IF explains /\ Explainer(by) THEN "explain" ELSE "run"
           none == <<>>
<1>5. at \in {"run", "explain"} /\ none = <<>>
  OBVIOUS
<1>6. operation' = [by |-> by, explains |-> explains, live |-> live, messages |-> messages,
                    at |-> at, plan |-> NoPlan, sets |-> 0, retries |-> 0,
                    finished |-> FALSE, outcome |-> "none", contexts |-> none]
  BY <1>3
<1> HIDE DEF at, none
<1>7. /\ DOMAIN operation' = OperationFields
      /\ operation'.explains = explains /\ operation'.live = live /\ operation'.messages = messages
      /\ operation'.at = at /\ operation'.plan = NoPlan /\ operation'.finished = FALSE
      /\ operation'.outcome = "none" /\ operation'.retries = 0 /\ operation'.by = by
  BY <1>6 DEF OperationFields
<1>8. OperationTypeOK'
  <2>1. operation'.plan \in SoundPlans
    BY <1>7, NoPlanIsSound
  <2>2. operation'.retries = 0 /\ operation'.finished = FALSE
    BY <1>7
  <2>3. DOMAIN operation' = OperationFields
    BY <1>7
  <2>4. operation'.explains \in BOOLEAN /\ operation'.live \in BOOLEAN
    BY <1>7
  <2>5. operation'.finished \in BOOLEAN
    BY <2>2
  <2>6. operation'.messages \in Nat /\ operation'.retries \in Nat
    BY <1>4, <1>7, <2>2
  <2>7. /\ operation'.at \in {"run", "explain", "rows", "running", "record", "open", "closed"}
        /\ operation'.outcome \in Outcomes
    BY <1>5, <1>7 DEF Outcomes
  <2> QED BY <2>1, <2>3, <2>4, <2>5, <2>6, <2>7 DEF OperationTypeOK
<1>9. CanGoOn'
  BY <1>2, <1>5, <1>7 DEF CanGoOn, Drivers, Batches
<1>10. Told'
  <2> DEFINE empty == <<>>
  <2>1. empty \in Seq({}) /\ Len(empty) = 0 /\ DOMAIN empty = {}
    OBVIOUS
  <2> HIDE DEF empty
  <2>2. recorded' = empty
    BY <1>1 DEF empty
  <2>3. \E S : recorded' \in Seq(S)
    BY <2>1, <2>2
  <2>4. /\ operation'.finished <=> operation'.outcome # "none" /\ ~Unrecorded'
        /\ operation'.finished <=> operation'.outcome # "none"
    BY <1>7
  <2>5. Len(recorded') = 0 /\ DOMAIN recorded' = {}
    BY <2>1, <2>2
  <2> QED BY <1>7, <2>3, <2>4, <2>5 DEF Told
<1> QED BY <1>8, <1>9, <1>10 DEF OperationInv, Begun

\* A call ends, or panics unseen.
LEMMA CallsKeep == OperationInv /\ (CallEnds \/ CallPanics) => OperationInv'
PROOF
<1> SUFFICES ASSUME OperationInv, CallEnds \/ CallPanics PROVE OperationInv'
  OBVIOUS
<1>1. Begun /\ operation.by \in DOMAIN States /\ operation.at = "run"
  BY AtBegun DEF CallEnds, CallPanics
<1>2. /\ operation.by \notin Spans /\ operation.by \notin {"pgx", "stream"}
      /\ TruthfulStates(States[operation.by])
  BY <1>1, StatesAreTruthful
<1>3. ~ExplainedByPgx /\ ~operation.finished /\ operation.outcome = "none"
  BY <1>1, <1>2, NotOfPgx, StillOpen
<1>4. CASE CallEnds
  <2>1. PICK outcome \in DOMAIN States[operation.by] :
           RecordNow(States[operation.by][outcome], outcome, NoPlan)
    BY <1>4 DEF CallEnds
  <2> DEFINE state == States[operation.by][outcome]
  <2>2. /\ outcome \in {"ok", "miss", "error", "panic"}
        /\ state \in {"failed", "panicked"} => outcome \in {"error", "panic"}
        /\ outcome = "panic" => "panic" \in DOMAIN States[operation.by]
    BY <1>2 DEF TruthfulStates
  <2>3. RecordNow(state, outcome, NoPlan)
    BY <2>1
  <2> HIDE DEF state
  <2> QED BY <1>1, <1>2, <1>3, <2>2, <2>3, NoPlanIsSound, ThenRecorded
<1>5. CASE CallPanics
  <2>1. EndsUnseen("panic") /\ "panic" \notin DOMAIN States[operation.by]
    BY <1>5 DEF CallPanics
  <2> QED BY <1>1, <1>3, <2>1, Unseen
<1> QED BY <1>4, <1>5

\* A plan is read before its query, or database/sql turns to a prepared
\* statement, which drops it.
LEMMA ExplainsKeep ==
  OperationInv /\ (ExplainOnDriver \/ BunBeforeQuery \/ DriverSkips) => OperationInv'
PROOF
<1> SUFFICES ASSUME OperationInv, ExplainOnDriver \/ BunBeforeQuery \/ DriverSkips
             PROVE  OperationInv'
  OBVIOUS
<1>1. \A plan \in DriverPlans \cup SQLPlans : plan \in SoundPlans
  BY AllPlansAreSound
<1>2. Begun /\ operation.at \in {"run", "explain"} /\ operation.by \in Drivers \cup {"bun"}
  <2>1. \/ At(Drivers, "explain")
        \/ At({"bun"}, "explain")
        \/ At({"conn"}, "run")
    BY DEF ExplainOnDriver, BunBeforeQuery, DriverSkips
  <2> QED BY <2>1, AtBegun DEF Drivers
<1>3. /\ ~operation.finished /\ operation.outcome = "none"
      /\ DOMAIN operation = OperationFields
  <2>1. operation.by # "pgx" /\ operation.by \notin Spans
    BY <1>2 DEF Spans, Drivers
  <2> QED BY <1>2, <2>1, NotOfPgx, StillOpen DEF Begun, OperationTypeOK
<1>4. CASE ExplainOnDriver \/ BunBeforeQuery
  <2>1. PICK plan \in SoundPlans : operation' = [operation EXCEPT !.plan = plan, !.at = "run"]
    BY <1>1, <1>4 DEF ExplainOnDriver, BunBeforeQuery
  <2>2. UNCHANGED recorded
    BY <1>4 DEF ExplainOnDriver, BunBeforeQuery
  <2>3. /\ DOMAIN operation' = OperationFields
        /\ operation'.at = "run" /\ operation'.by = operation.by /\ operation'.plan = plan
        /\ operation'.finished = operation.finished /\ operation'.outcome = operation.outcome
        /\ operation'.explains = operation.explains /\ operation'.live = operation.live
        /\ operation'.messages = operation.messages /\ operation'.retries = operation.retries
    BY <1>3, <2>1 DEF OperationFields
  <2> QED BY <1>2, <1>3, <2>2, <2>3, MovesTo
<1>5. CASE DriverSkips
  <2> DEFINE at == IF operation.explains THEN "explain" ELSE "run"
  <2>1. at \in {"run", "explain"}
    OBVIOUS
  <2>2. /\ operation' = [operation EXCEPT !.by = "stmt", !.plan = NoPlan, !.at = at]
        /\ UNCHANGED recorded /\ operation.by = "conn"
    BY <1>5 DEF DriverSkips, At
  <2> HIDE DEF at
  <2>3. /\ DOMAIN operation' = OperationFields
        /\ operation'.at = at /\ operation'.by = "stmt" /\ operation'.plan = NoPlan
        /\ operation'.finished = operation.finished /\ operation'.outcome = operation.outcome
        /\ operation'.explains = operation.explains /\ operation'.live = operation.live
        /\ operation'.messages = operation.messages /\ operation'.retries = operation.retries
    BY <1>3, <2>2 DEF OperationFields
  <2> DEFINE by == "stmt"
  <2>5. /\ by = "pgx" <=> operation.by = "pgx"
        /\ by \in Drivers <=> operation.by \in Drivers
        /\ operation'.by = by
    BY <2>2, <2>3 DEF Drivers
  <2> HIDE DEF by
  <2> QED BY <1>2, <1>3, <2>1, <2>2, <2>3, <2>5, NoPlanIsSound, MovesTo
<1> QED BY <1>4, <1>5

\* A query of a driver, of Bun or of GORM is recorded where it returns.
LEMMA AnswersKeep ==
  OperationInv /\ (DriverAnswers \/ BunAfterQuery \/ GormAfter) => OperationInv'
PROOF
<1> SUFFICES ASSUME OperationInv, DriverAnswers \/ BunAfterQuery \/ GormAfter
             PROVE  OperationInv'
  OBVIOUS
<1>1. Begun /\ operation.at = "run" /\ operation.by \in Drivers \cup {"bun", "gorm"}
  BY AtBegun DEF DriverAnswers, BunAfterQuery, GormAfter
<1>2. /\ ~ExplainedByPgx /\ ~operation.finished /\ operation.outcome = "none"
      /\ operation.plan \in SoundPlans /\ operation.by # "stream"
  <2>1. operation.by \notin {"pgx", "stream"} /\ operation.by \notin Spans
    BY <1>1 DEF Spans, Drivers
  <2> QED BY <1>1, <2>1, NotOfPgx, StillOpen DEF Begun, OperationTypeOK
<1>3. \E outcome \in {"ok", "error"} : \E plan \in SoundPlans : RecordNow("", outcome, plan)
  <2>1. CASE DriverAnswers \/ BunAfterQuery
    BY <1>2, <2>1 DEF DriverAnswers, BunAfterQuery
  <2>2. CASE GormAfter
    <3>1. \A outcome \in {"ok", "error"} : GormPlans(outcome) \subseteq SoundPlans
      BY AllPlansAreSound DEF GormPlans
    <3> QED BY <2>2, <3>1 DEF GormAfter
  <2> QED BY <2>1, <2>2
<1>4. PICK outcome \in {"ok", "error"} : \E plan \in SoundPlans : RecordNow("", outcome, plan)
  BY <1>3
<1>5. PICK plan \in SoundPlans : RecordNow("", outcome, plan)
  BY <1>4
<1> DEFINE state == ""
<1>6. state \notin {"failed", "panicked"} /\ RecordNow(state, outcome, plan)
  BY <1>5
<1> HIDE DEF state
<1>7. outcome \in {"ok", "miss", "error", "panic"} /\ outcome # "panic"
  OBVIOUS
<1> QED BY <1>1, <1>2, <1>6, <1>7, ThenRecorded

\* Calls that end unrecorded.
LEMMA RefusesKeep ==
  OperationInv /\ (DriverRefuses \/ RecvOnlyMsg \/ StreamAbandoned) => OperationInv'
PROOF
<1> SUFFICES ASSUME OperationInv, DriverRefuses \/ RecvOnlyMsg \/ StreamAbandoned
             PROVE  OperationInv'
  OBVIOUS
<1>1. CASE DriverRefuses
  <2>1. Begun /\ operation.at = "run" /\ operation.by \in Drivers
    BY <1>1, AtBegun DEF DriverRefuses
  <2>2. ~ExplainedByPgx /\ operation.by \notin Spans
    BY <2>1, NotOfPgx DEF Spans, Drivers
  <2>3. ~operation.finished /\ operation.outcome = "none"
    BY <2>1, <2>2, StillOpen
  <2> QED BY <1>1, <2>1, <2>2, <2>3, Unseen DEF DriverRefuses
<1>2. CASE RecvOnlyMsg \/ StreamAbandoned
  <2>1. Begun /\ operation.at = "open" /\ operation.by = "stream" /\ operation.outcome = "none"
    <3>1. At({"stream"}, "open") /\ operation.outcome = "none"
      BY <1>2 DEF RecvOnlyMsg, StreamAbandoned
    <3> QED BY <3>1, AtBegun
  <2>2. ~ExplainedByPgx
    BY <2>1, NotOfPgx
  <2>3. ~operation.finished
    BY <2>1, <2>2 DEF Begun, Told
  <2>4. EndsUnseen("ok") \/ EndsUnseen("abandoned")
    BY <1>2 DEF RecvOnlyMsg, StreamAbandoned
  <2> QED BY <2>1, <2>2, <2>3, <2>4, Unseen
<1> QED BY <1>1, <1>2

\* A bad connection: the attempt is recorded, and the query runs again.
LEMMA RetriesKeep == OperationInv /\ DriverBadConn => OperationInv'
PROOF
<1> SUFFICES ASSUME OperationInv, DriverBadConn PROVE OperationInv'
  OBVIOUS
<1>1. Begun /\ operation.at = "run" /\ operation.by \in Drivers
  BY AtBegun DEF DriverBadConn
<1>2. ~ExplainedByPgx /\ operation.by \notin Spans
  BY <1>1, NotOfPgx DEF Spans, Drivers
<1>3. /\ ~operation.finished /\ operation.outcome = "none" /\ operation.messages = 1
      /\ DOMAIN operation = OperationFields /\ OperationTypeOK
      /\ operation.plan \in SoundPlans /\ operation.retries \in Nat
  BY <1>1, <1>2, StillOpen DEF Begun, OperationTypeOK, CanGoOn
<1> DEFINE at == IF operation.explains THEN "explain" ELSE "run"
           retries == operation.retries + 1
<1>4. at \in {"run", "explain"} /\ retries \in Nat
  BY <1>3
<1>5. /\ operation' = [operation EXCEPT !.retries = retries, !.plan = NoPlan, !.at = at]
      /\ retries = operation.retries + 1
  BY DEF DriverBadConn
<1> HIDE DEF at, retries
<1>6. /\ DOMAIN operation' = OperationFields
      /\ operation'.at = at /\ operation'.by = operation.by /\ operation'.plan = NoPlan
      /\ operation'.finished = operation.finished /\ operation'.outcome = operation.outcome
      /\ operation'.explains = operation.explains /\ operation'.live = operation.live
      /\ operation'.messages = operation.messages /\ operation'.retries = retries
  BY <1>3, <1>5 DEF OperationFields
<1>7. OperationTypeOK'
  BY <1>3, <1>4, <1>6, NoPlanIsSound DEF OperationTypeOK
<1>8. CanGoOn'
  BY <1>1, <1>3, <1>4, <1>6 DEF CanGoOn
<1> DEFINE state == ""
<1>9. Log(state, TRUE, operation.plan)
  BY DEF DriverBadConn
<1> HIDE DEF state
<1> QED BY <1>1, <1>2, <1>3, <1>5, <1>6, <1>7, <1>8, <1>9, Repeats

\* Rows: whichever of Next, NextResultSet and Close comes first at an end or a
\* failure records the query.
LEMMA RowsKeep ==
  OperationInv /\ (DriverReturnsRows \/ RowsNext \/ RowsNextResultSet \/ RowsClose) => OperationInv'
PROOF
<1> SUFFICES ASSUME OperationInv,
                    DriverReturnsRows \/ RowsNext \/ RowsNextResultSet \/ RowsClose
             PROVE  OperationInv'
  OBVIOUS
<1>1. Begun /\ operation.at \in {"run", "rows"} /\ operation.by \in Drivers
  BY AtBegun DEF DriverReturnsRows, RowsNext, RowsNextResultSet, RowsClose
<1>2. /\ ~ExplainedByPgx /\ operation.plan \in SoundPlans
      /\ DOMAIN operation = OperationFields
  BY <1>1, NotOfPgx DEF Begun, OperationTypeOK, Drivers
<1>3. CASE \E outcome \in {"ok", "error"} : operation.at = "rows" /\ RecordOnce("", outcome)
  <2>1. PICK outcome \in {"ok", "error"} : operation.at = "rows" /\ RecordOnce("", outcome)
    BY <1>3
  <2> DEFINE state == ""
  <2>2. state \notin {"failed", "panicked"} /\ RecordOnce(state, outcome)
    BY <2>1
  <2> HIDE DEF state
  <2> QED BY <1>1, <1>2, <2>1, <2>2, OnceRecorded
<1>4. CASE \E sets : operation.at = "run" /\ operation' = [operation EXCEPT !.at = "rows", !.sets = sets]
                     /\ UNCHANGED recorded
  <2>1. PICK sets : operation.at = "run" /\ operation' = [operation EXCEPT !.at = "rows", !.sets = sets]
                     /\ UNCHANGED recorded
    BY <1>4
  <2>2. /\ DOMAIN operation' = OperationFields
        /\ operation'.at = "rows" /\ operation'.by = operation.by
        /\ operation'.plan = operation.plan
        /\ operation'.finished = operation.finished /\ operation'.outcome = operation.outcome
        /\ operation'.explains = operation.explains /\ operation'.live = operation.live
        /\ operation'.messages = operation.messages /\ operation'.retries = operation.retries
    BY <1>2, <2>1 DEF OperationFields
  <2>3. operation.outcome = "none"
    <3>1. operation.by \notin Spans
      BY <1>1 DEF Spans, Drivers
    <3> QED BY <1>1, <1>2, <2>1, <3>1, StillOpen
  <2> QED BY <1>1, <1>2, <2>1, <2>2, <2>3, MovesTo
<1>5. CASE operation.at = "rows" /\ operation' = [operation EXCEPT !.sets = @ - 1]
           /\ UNCHANGED recorded
  <2>1. /\ DOMAIN operation' = OperationFields
        /\ operation'.at = "rows" /\ operation'.by = operation.by
        /\ operation'.plan = operation.plan
        /\ operation'.finished = operation.finished /\ operation'.outcome = operation.outcome
        /\ operation'.explains = operation.explains /\ operation'.live = operation.live
        /\ operation'.messages = operation.messages /\ operation'.retries = operation.retries
    BY <1>2, <1>5 DEF OperationFields
  <2> QED BY <1>1, <1>2, <1>5, <2>1, MovesTo
<1>6. CASE DriverReturnsRows
  BY <1>4, <1>6, AtBegun DEF DriverReturnsRows
<1>7. CASE RowsNext
  BY <1>3, <1>7, AtBegun DEF RowsNext
<1>8. CASE RowsNextResultSet
  BY <1>3, <1>5, <1>8, AtBegun DEF RowsNextResultSet
<1>9. CASE RowsClose
  BY <1>3, <1>9, AtBegun DEF RowsClose
<1> QED BY <1>6, <1>7, <1>8, <1>9

\* A stream: whichever of RecvMsg and CloseSend ends it first records it.
LEMMA StreamsKeep ==
  OperationInv /\ (StreamClientInterceptor \/ RecvMsg \/ CloseSend) => OperationInv'
PROOF
<1> SUFFICES ASSUME OperationInv, StreamClientInterceptor \/ RecvMsg \/ CloseSend
             PROVE  OperationInv'
  OBVIOUS
<1>1. Begun /\ operation.at \in {"run", "open"} /\ operation.by = "stream"
  <2>1. \/ At({"stream"}, "run")
        \/ At({"stream"}, "open")
    BY DEF StreamClientInterceptor, RecvMsg, CloseSend
  <2> QED BY <2>1, AtBegun
<1>2. ~ExplainedByPgx /\ "stream" \notin Spans
  BY <1>1, NotOfPgx DEF Spans
<1> DEFINE state == ""
<1>3. state \notin {"failed", "panicked"} /\ state = ""
  OBVIOUS
<1> HIDE DEF state
<1>4. CASE StreamClientInterceptor
  <2>1. operation.at = "run"
    BY <1>4, AtBegun DEF StreamClientInterceptor
  <2>2. ~operation.finished /\ operation.outcome = "none"
    BY <1>1, <1>2, <2>1, StillOpen
  <2>3. CASE operation' = [operation EXCEPT !.at = "open"] /\ UNCHANGED recorded
    <3>1. DOMAIN operation = OperationFields /\ operation.plan \in SoundPlans
      BY <1>1 DEF Begun, OperationTypeOK
    <3>2. /\ DOMAIN operation' = OperationFields
          /\ operation'.at = "open" /\ operation'.by = operation.by
          /\ operation'.plan = operation.plan
          /\ operation'.finished = operation.finished /\ operation'.outcome = operation.outcome
          /\ operation'.explains = operation.explains /\ operation'.live = operation.live
          /\ operation'.messages = operation.messages /\ operation'.retries = operation.retries
      BY <2>3, <3>1 DEF OperationFields
    <3> QED BY <1>1, <2>1, <2>2, <2>3, <3>1, <3>2, MovesTo
  <2>4. CASE RecordNow(state, "error", NoPlan)
    <3> DEFINE outcome == "error"
    <3>1. /\ outcome \in {"ok", "miss", "error", "panic"} /\ outcome = "error"
          /\ outcome \in {"error", "panic"} /\ outcome # "panic"
          /\ RecordNow(state, outcome, NoPlan)
      BY <2>4
    <3> HIDE DEF outcome
    <3> QED BY <1>1, <1>2, <1>3, <2>2, <3>1, NoPlanIsSound, ThenRecorded
  <2> QED BY <1>3, <1>4, <2>3, <2>4 DEF StreamClientInterceptor
<1>5. CASE RecvMsg \/ CloseSend
  <2>1. PICK outcome \in {"ok", "error"} : operation.at = "open" /\ RecordOnce(state, outcome)
    BY <1>3, <1>5, AtBegun DEF RecvMsg, CloseSend
  <2>2. outcome # "panic"
    OBVIOUS
  <2> QED BY <1>1, <1>2, <1>3, <2>1, <2>2, OnceRecorded
<1> QED BY <1>4, <1>5

\* Finish, called by whoever holds the span and more than once.
LEMMA SpansKeep ==
  OperationInv /\ (FinishQuery \/ FinishEvent \/ FinishTask \/ FinishPanic) => OperationInv'
PROOF
<1> SUFFICES ASSUME OperationInv, FinishQuery \/ FinishEvent \/ FinishTask \/ FinishPanic
             PROVE  OperationInv'
  OBVIOUS
<1>1. Begun /\ operation.at = "run" /\ operation.by \in Spans
  BY AtBegun DEF FinishQuery, FinishEvent, FinishTask, FinishPanic, Spans
<1>2. ~ExplainedByPgx /\ operation.by \notin DOMAIN States
  BY <1>1, NotOfPgx, StatesAreTruthful DEF Spans
<1>3. \E outcome \in {"ok", "error", "panic"} : \E state :
        (state \in {"failed", "panicked"} => outcome # "ok") /\ RecordOnce(state, outcome)
  BY DEF FinishQuery, FinishEvent, FinishTask, FinishPanic
<1>4. PICK outcome \in {"ok", "error", "panic"} : \E state :
        (state \in {"failed", "panicked"} => outcome # "ok") /\ RecordOnce(state, outcome)
  BY <1>3
<1> QED BY <1>1, <1>2, <1>4, OnceRecorded

\* The tracer of pgx puts its trace into the context.
LEMMA TraceStartsKeep == OperationInv /\ TraceQueryStart => OperationInv'
PROOF
<1> SUFFICES ASSUME OperationInv, TraceQueryStart PROVE OperationInv'
  OBVIOUS
<1>1. Begun /\ operation.at = "run" /\ operation.by = "pgx"
  BY AtBegun DEF TraceQueryStart
<1>2. ~operation.finished /\ DOMAIN operation = OperationFields /\ OperationTypeOK
  BY <1>1 DEF Begun, OperationTypeOK, CanGoOn, Spans
<1> DEFINE context == StartedContext([trace |-> FALSE, explain |-> FALSE])
           contexts == <<context>>
<1>3. context.trace
  BY DEF StartedContext
<1> HIDE DEF context
<1>4. Len(contexts) = 1 /\ contexts[1].trace
  BY <1>3
<1> HIDE DEF contexts
<1>5. operation' = [operation EXCEPT !.at = "running", !.contexts = contexts]
      /\ UNCHANGED recorded
  BY DEF TraceQueryStart, contexts, context
<1>6. /\ DOMAIN operation' = OperationFields
      /\ operation'.at = "running" /\ operation'.contexts = contexts
      /\ operation'.by = operation.by /\ operation'.plan = operation.plan
      /\ operation'.finished = operation.finished /\ operation'.outcome = operation.outcome
      /\ operation'.explains = operation.explains /\ operation'.live = operation.live
      /\ operation'.messages = operation.messages /\ operation'.retries = operation.retries
  BY <1>2, <1>5 DEF OperationFields
<1>7. OperationTypeOK'
  BY <1>2, <1>6 DEF OperationTypeOK
<1>8. CanGoOn'
  BY <1>1, <1>2, <1>4, <1>6 DEF CanGoOn, Begun
<1>9. ExplainedByPgx \/ operation.outcome = "none"
  BY <1>1, <1>2 DEF Begun, Told
<1> QED BY <1>1, <1>5, <1>6, <1>7, <1>8, <1>9, Moves

\* It finds the trace again, and goes on to record unless it explains ...
LEMMA TraceEndsKeep == OperationInv /\ TraceQueryEnd => OperationInv'
PROOF
<1> SUFFICES ASSUME OperationInv, TraceQueryEnd PROVE OperationInv'
  OBVIOUS
<1>1. Begun /\ operation.at = "running" /\ operation.by = "pgx" /\ UNCHANGED recorded
  BY AtBegun DEF TraceQueryEnd
<1>2. /\ ~operation.finished /\ DOMAIN operation = OperationFields /\ OperationTypeOK
      /\ ~operation.explains => /\ Len(operation.contexts) = 1
                                /\ operation.contexts[1].trace
  BY <1>1 DEF Begun, OperationTypeOK, CanGoOn
<1>3. \/ /\ operation.explains
         /\ operation' = [operation EXCEPT !.contexts = operation'.contexts]
      \/ operation' = [operation EXCEPT !.at = "record"]
  <2> DEFINE more == Append(operation.contexts,
                            StartedContext(ExplainContext(Last(operation.contexts))))
  <2>1. \/ operation.explains /\ operation' = [operation EXCEPT !.contexts = more]
        \/ operation' = [operation EXCEPT !.at = "record"]
    BY DEF TraceQueryEnd
  <2> HIDE DEF more
  <2>2. CASE operation.explains /\ operation' = [operation EXCEPT !.contexts = more]
    <3>1. operation'.contexts = more
      BY <1>2, <2>2 DEF OperationFields
    <3> QED BY <2>2, <3>1
  <2> QED BY <2>1, <2>2
<1>4. /\ DOMAIN operation' = OperationFields
      /\ operation'.at \in {"running", "record"}
      /\ operation.explains \/ operation'.contexts = operation.contexts
      /\ operation'.by = operation.by /\ operation'.plan = operation.plan
      /\ operation'.finished = operation.finished /\ operation'.outcome = operation.outcome
      /\ operation'.explains = operation.explains /\ operation'.live = operation.live
      /\ operation'.messages = operation.messages /\ operation'.retries = operation.retries
  BY <1>1, <1>2, <1>3 DEF OperationFields
<1>5. OperationTypeOK'
  BY <1>2, <1>4 DEF OperationTypeOK
<1>6. CanGoOn'
  BY <1>1, <1>2, <1>4 DEF CanGoOn, Begun
<1>7. ExplainedByPgx \/ operation.outcome = "none"
  BY <1>1, <1>2 DEF Begun, Told
<1> QED BY <1>1, <1>4, <1>5, <1>6, <1>7, Moves

\* ... and records a statement it does not explain, which is the outermost.
LEMMA TraceRecordsKeep == OperationInv /\ TraceQueryRecords => OperationInv'
PROOF
<1> SUFFICES ASSUME OperationInv, TraceQueryRecords PROVE OperationInv'
  OBVIOUS
<1> DEFINE outermost == Len(operation.contexts) = 1
           front == Front(operation.contexts)
           at == IF outermost THEN "closed" ELSE operation.at
<1>1. Begun /\ operation.at = "record" /\ operation.by = "pgx"
  <2>1. At({"pgx"}, "record")
    BY DEF TraceQueryRecords
  <2> QED BY <2>1, AtBegun
<1>2. PICK outcome \in {"ok", "error"} : \E plan \in PgxPlans :
         /\ IF Last(operation.contexts).trace
            THEN Log("", outcome = "error", plan) ELSE UNCHANGED recorded
         /\ operation' = [operation EXCEPT !.contexts = Front(@), !.outcome = outcome,
                             !.at = IF outermost THEN "closed" ELSE @,
                             !.finished = outermost]
  BY DEF TraceQueryRecords
<1>3. PICK plan \in PgxPlans :
         /\ IF Last(operation.contexts).trace
            THEN Log("", outcome = "error", plan) ELSE UNCHANGED recorded
         /\ operation' = [operation EXCEPT !.contexts = Front(@), !.outcome = outcome,
                             !.at = IF outermost THEN "closed" ELSE @,
                             !.finished = outermost]
  BY <1>2
<1>4. plan \in SoundPlans
  BY AllPlansAreSound DEF PgxPlans
<1>5. /\ ~operation.finished /\ DOMAIN operation = OperationFields /\ OperationTypeOK
      /\ ~operation.explains => /\ Len(operation.contexts) = 1
                                /\ operation.contexts[1].trace
  BY <1>1 DEF Begun, OperationTypeOK, CanGoOn
<1>6. /\ operation' = [operation EXCEPT !.contexts = front, !.outcome = outcome,
                          !.at = at, !.finished = outermost]
      /\ outermost \in BOOLEAN
      /\ at = IF outermost THEN "closed" ELSE "record"
      /\ ~operation.explains => outermost /\ Last(operation.contexts).trace
  BY <1>1, <1>3, <1>5 DEF Last
<1> HIDE DEF front, at, outermost
<1>7. /\ DOMAIN operation' = OperationFields
      /\ operation'.at = at /\ operation'.by = operation.by
      /\ operation'.plan = operation.plan
      /\ operation'.finished = outermost /\ operation'.outcome = outcome
      /\ operation'.explains = operation.explains /\ operation'.live = operation.live
      /\ operation'.messages = operation.messages /\ operation'.retries = operation.retries
  BY <1>5, <1>6 DEF OperationFields
<1>8. OperationTypeOK'
  BY <1>5, <1>6, <1>7 DEF OperationTypeOK, Outcomes
<1>9. CASE operation.explains
  <2>1. CanGoOn'
    BY <1>1, <1>6, <1>7, <1>9 DEF CanGoOn, Begun
  <2>2. operation' # NotBegun
    BY <1>8 DEF OperationTypeOK, NotBegun
  <2>3. ExplainedByPgx'
    BY <1>1, <1>7, <1>9, <2>2 DEF ExplainedByPgx
  <2>4. Told'
    BY <2>3 DEF Told
  <2> QED BY <1>8, <2>1, <2>4 DEF OperationInv, Begun
<1>10. CASE ~operation.explains
  <2>1. ~ExplainedByPgx
    BY <1>10 DEF ExplainedByPgx
  <2>2. outermost = TRUE /\ at = "closed" /\ operation'.finished
    BY <1>6, <1>7, <1>10
  <2>3. CanGoOn'
    BY <1>1, <1>7, <2>2 DEF CanGoOn, Begun
  <2>4. operation.outcome = "none"
    BY <1>1, <1>5, <2>1 DEF Begun, Told
  <2>5. operation'.outcome # "none" /\ ~Unrecorded'
    BY <1>1, <1>7, StatesAreTruthful DEF Unrecorded
  <2> DEFINE state == ""
             error == outcome = "error"
  <2>6. state \notin {"failed", "panicked"} /\ Log(state, error, plan)
    BY <1>3, <1>6, <1>10
  <2>7. error \/ state \in {"failed", "panicked"} <=> operation'.outcome \in {"error", "panic"}
    BY <1>7
  <2> HIDE DEF state, error
  <2> QED BY <1>1, <1>4, <1>5, <1>7, <1>8, <2>1, <2>2, <2>3, <2>4, <2>5, <2>6, <2>7, Ends
<1> QED BY <1>9, <1>10

\* Every step keeps the invariant.
LEMMA OperationKept == OperationInv /\ [OperationNext]_operationVars => OperationInv'
PROOF
<1> SUFFICES ASSUME OperationInv, [OperationNext]_operationVars PROVE OperationInv'
  OBVIOUS
<1>1. CASE UNCHANGED operationVars
  BY <1>1 DEF operationVars, OperationInv, Begun, OperationTypeOK, CanGoOn, Told, ExplainedByPgx,
              Unrecorded
<1>2. CASE OperationNext
  BY <1>2, BeginKeeps, CallsKeep, ExplainsKeep, AnswersKeep, RefusesKeep, RowsKeep,
     RetriesKeep, StreamsKeep, SpansKeep, TraceStartsKeep, TraceEndsKeep, TraceRecordsKeep DEF OperationNext
<1> QED BY <1>1, <1>2

\* What the invariant says of the entries.
LEMMA OperationTold == OperationInv => RecordedOnce
PROOF
<1> SUFFICES ASSUME Begun, ~ExplainedByPgx PROVE RecordedOnce
  BY DEF OperationInv, RecordedOnce
<1>1. /\ operation.finished <=> operation.outcome # "none" /\ ~Unrecorded
      /\ Len(recorded) = IF operation.live
                         THEN operation.retries
                                + (IF operation.finished THEN operation.messages ELSE 0)
                         ELSE 0
      /\ \A i \in DOMAIN recorded :
            /\ recorded[i].error \/ recorded[i].state \in {"failed", "panicked"}
                 <=> i <= operation.retries \/ operation.outcome \in {"error", "panic"}
            /\ recorded[i].plan \in SoundPlans
  BY DEF Begun, Told
<1>2. Owed = IF operation.finished THEN operation.messages ELSE 0
  BY <1>1 DEF Owed
<1>3. \A i \in DOMAIN recorded :
         /\ recorded[i].plan.size <= ExplainMaxBytes
         /\ recorded[i].plan.lost => recorded[i].plan.cut \/ recorded[i].plan.error
  BY <1>1 DEF SoundPlans
<1> QED BY <1>1, <1>2, <1>3 DEF RecordedOnce

\* A step of the operation, or of another part.
LEMMA OperationUntouched == [Next]_vars => [OperationNext]_operationVars
PROOF
BY DEF Next, vars, Ordering, Analyzing, Operating, Timing, Responding, StartingAndClosing, Tracing

\* An operation of any integration leaves one entry, a batch one for each
\* message, however often and by whomever it is ended, and one for each attempt
\* that database/sql repeats; only the ends that Unrecorded lists leave none.
\* Each entry tells its outcome and a plan within its limit that says what it
\* lost (RecordNow, RecordOnce).
THEOREM RecordedJustOnce == Spec => []RecordedOnce
PROOF
<1>1. Init => OperationInv
  BY OperationStart DEF Init
<1>2. OperationInv /\ [Next]_vars => OperationInv'
  BY OperationUntouched, OperationKept
<1>3. OperationInv => RecordedOnce
  BY OperationTold
<1> QED BY <1>1, <1>2, <1>3, PTL DEF Spec

=============================================================================
