------------------------------ MODULE Lifecycle ------------------------------
(***************************************************************************)
(* The profilers of a process (profiler.go, server.go): the default one    *)
(* and those that were it, their stores and servers, and goroutines that   *)
(* call New, Start, Close and Shutdown.  What runs under defaultProfilerMu *)
(* and is not seen without it is one step.                                 *)
(***************************************************************************)
EXTENDS Integers, Sequences, FiniteSets

CONSTANTS
    Goroutines,
    Routers,        \* that refuse to mount the same paths twice (http.ServeMux)
    MaxProfilers,   \* bound
    Nobody

ASSUME LifecycleAssumption == MaxProfilers \in Nat /\ Nobody \notin Goroutines

VARIABLES
    default,    \* defaultProfiler: an index of profilers, or NoProfiler
    mutex,      \* who holds defaultProfilerMu between two steps
    profilers,  \* in the order of their creation
    mounted,    \* the routers with the handlers of a profiler
    caller      \* of each goroutine: where it is, and with which profiler

lifecycleVars == <<default, mutex, profilers, mounted, caller>>

NoProfiler == 0
Idle == [at |-> "idle", p |-> NoProfiler, server |-> FALSE]

\* store: open or closed.  server: whether p.server and p.serverAddr are set.
\* listener: none, bound, serving, closing (closed before it served) or closed.
\* handed: New or Start has returned it.
Profiler(listener, handed) ==
    [open |-> TRUE, server |-> listener # "none", listener |-> listener, handed |-> handed]

Known == {p \in DOMAIN profilers : profilers[p].handed}
Enter(g, at, p) == caller' = [caller EXCEPT ![g] = [Idle EXCEPT !.at = at, !.p = p]]
MayEnter(g) == caller[g] = Idle /\ mutex = Nobody

-----------------------------------------------------------------------------
(* New and Start                                                           *)

\* New: the existing profiler, or a new one on the router.
New(g, r) ==
    /\ MayEnter(g) /\ default = NoProfiler /\ r \notin mounted
    /\ Len(profilers) < MaxProfilers
    /\ profilers' = Append(profilers, Profiler("none", TRUE))
    /\ default' = Len(profilers')
    /\ mounted' = mounted \cup {r}
    /\ UNCHANGED <<mutex, caller>>

\* register panics: the store of the profiler has been opened by then.
NewPanics(g, r) ==
    /\ MayEnter(g) /\ default = NoProfiler /\ r \in mounted
    /\ Len(profilers) < MaxProfilers
    /\ profilers' = Append(profilers, Profiler("none", FALSE))
    /\ UNCHANGED <<default, mutex, mounted, caller>>

\* The one address is taken until its listener is closed.
AddressTaken ==
    \E p \in DOMAIN profilers : profilers[p].listener \in {"bound", "serving", "closing"}

Start(g) ==
    /\ MayEnter(g) /\ default = NoProfiler /\ ~AddressTaken
    /\ Len(profilers) < MaxProfilers
    /\ profilers' = Append(profilers, Profiler("bound", TRUE))
    /\ default' = Len(profilers')
    /\ UNCHANGED <<mutex, mounted, caller>>

\* Start with an existing profiler asks for its URL after the unlock; an answer
\* without one is an error.
StartFinds(g) ==
    /\ MayEnter(g) /\ default # NoProfiler
    /\ Enter(g, "url", default)
    /\ UNCHANGED <<default, mutex, profilers, mounted>>

StartAnswers(g) ==
    /\ caller[g].at = "url"
    /\ caller' = [caller EXCEPT ![g] = Idle]
    /\ UNCHANGED <<default, mutex, profilers, mounted>>

\* The goroutine of Start.  Serve returns at once, and closes the listener, if
\* the server has been closed before (external: net/http).
Serve(p) ==
    /\ profilers[p].listener \in {"bound", "closing"}
    /\ profilers' = [profilers EXCEPT ![p].listener =
                        IF @ = "bound" THEN "serving" ELSE "closed"]
    /\ UNCHANGED <<default, mutex, mounted, caller>>

-----------------------------------------------------------------------------
(* Close and Shutdown                                                      *)

\* Shutdown of the package reads the default without the lock.
ShutdownDefault(g) ==
    /\ caller[g] = Idle /\ default # NoProfiler
    /\ Enter(g, "shutdown", default)
    /\ UNCHANGED <<default, mutex, profilers, mounted>>

TakeServer(g, p) ==
    /\ mutex' = g
    /\ profilers' = [profilers EXCEPT ![p].server = FALSE]
    /\ caller' = [caller EXCEPT ![g] = [at |-> "stop", p |-> p, server |-> profilers[p].server]]
    /\ UNCHANGED <<default, mounted>>

\* Close or Shutdown of a profiler that somebody holds, and may have closed.
Release(g) ==
    /\ MayEnter(g)
    /\ \E p \in Known : TakeServer(g, p)

ShutdownEnters(g) ==
    /\ caller[g].at = "shutdown" /\ mutex = Nobody
    /\ TakeServer(g, caller[g].p)

\* server.Close and server.Shutdown close the listeners that are served; only
\* Shutdown waits, with the lock, for the requests under way.
StopServer(g) ==
    LET p == caller[g].p
    IN  /\ caller[g].at = "stop"
        /\ profilers' = IF caller[g].server
                        THEN [profilers EXCEPT ![p].listener =
                                IF @ = "bound" THEN "closing" ELSE "closed"]
                        ELSE profilers
        /\ caller' = [caller EXCEPT ![g].at = "close"]
        /\ UNCHANGED <<default, mutex, mounted>>

\* closeOnce
CloseStore(g) ==
    /\ caller[g].at = "close"
    /\ profilers' = [profilers EXCEPT ![caller[g].p].open = FALSE]
    /\ caller' = [caller EXCEPT ![g].at = "clear"]
    /\ UNCHANGED <<default, mutex, mounted>>

\* Mutant: whoever closes clears the default.
DefaultCleared(p) == NoProfiler

\* CompareAndSwap(p, nil)
DefaultAfter(p) == IF default = p THEN NoProfiler ELSE default

ClearDefault(g) ==
    /\ caller[g].at = "clear"
    /\ default' = DefaultAfter(caller[g].p)
    /\ mutex' = Nobody
    /\ caller' = [caller EXCEPT ![g] = Idle]
    /\ UNCHANGED <<profilers, mounted>>

LifecycleInit ==
    /\ default = NoProfiler /\ mutex = Nobody
    /\ profilers = <<>> /\ mounted = {}
    /\ caller = [g \in Goroutines |-> Idle]

LifecycleNext ==
    \/ \E g \in Goroutines :
          \/ \E r \in Routers : New(g, r) \/ NewPanics(g, r)
          \/ Start(g) \/ StartFinds(g) \/ StartAnswers(g)
          \/ ShutdownDefault(g) \/ Release(g) \/ ShutdownEnters(g)
          \/ StopServer(g) \/ CloseStore(g) \/ ClearDefault(g)
    \/ \E p \in DOMAIN profilers : Serve(p)

-----------------------------------------------------------------------------

\* Of the profilers that were handed out, at most one has an open store; but
\* for a Close or Shutdown under way it is the default one, and only that one
\* has a server that serves or a URL, however often and however late the older
\* ones are closed ("A process has at most one active default Profiler").
DefaultIsOpen ==
    LET open == {p \in Known : profilers[p].open}
        active == {p \in DOMAIN profilers : profilers[p].server
                                            \/ profilers[p].listener \in {"bound", "serving"}}
    IN  /\ Cardinality(open) <= 1
        /\ active \subseteq open
        /\ mutex = Nobody => open = {default} \ {NoProfiler}
=============================================================================
