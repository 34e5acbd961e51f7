------------------------------ MODULE Clients -------------------------------
(***************************************************************************)
(* The clients of one server: a browser that follows the stream, or the    *)
(* goroutines of a Go client that wait for requests, or inspect them, while*)
(* others read the statistics.  The kinds share nothing but the server and *)
(* change nothing of it, so each has behaviours of its own.                *)
(***************************************************************************)
EXTENDS EventBrowser, ApiClient

CONSTANTS
    Kinds,    \* of the clients: "browser", "waiting", "inspecting"
    Inspected \* what is stored while a report is made: classes and requests

ASSUME ClientsAssumption == Inspected \subseteq Classes \X SUBSET Nat

VARIABLE kind

vars == <<serverVars, browserVars, clientVars, kind>>

Init ==
    /\ BrowserInit /\ ClientInit
    /\ kind \in Kinds

\* Only a report tells which requests an entry is of.
Entering == IF kind = "inspecting" THEN Inspected ELSE Classes \X {{}}

Next ==
    /\ UNCHANGED kind
    /\ \/ kind = "browser" /\ BrowserNext /\ UNCHANGED clientVars
       \/ /\ kind # "browser" /\ UNCHANGED browserVars
          /\ \/ ClientNext(Entering)
             \/ kind = "waiting" /\ \E c \in Waiters : WaitForRequest(c)
             \/ kind = "inspecting" /\ \E c \in Inspectors : InspectRequest(c)
             \/ kind = "inspecting" /\ \E c \in Watchers : Stats(c)

\* A goroutine that is inside a call goes on; nobody has to start or cancel one.
Spec ==
    /\ Init /\ [][Next]_vars
    /\ \A c \in Callers :
         WF_vars(kind # "browser" /\ Proceed(c) /\ UNCHANGED <<browserVars, kind>>)
=============================================================================
