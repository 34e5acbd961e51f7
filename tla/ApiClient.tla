----------------------------- MODULE ApiClient ------------------------------
(***************************************************************************)
(* The Go client (client/client.go) that the MCP service is built on: the  *)
(* goroutines that use one client to wait for a request or to inspect one, *)
(* and that log in again when the server answers 401.  Each call is sent   *)
(* and answered at some later moment; between two calls of one operation   *)
(* anything may happen to the entries and to the session.                  *)
(***************************************************************************)
EXTENDS EventServer

CONSTANTS
    Waiters,       \* goroutines that call WaitForRequest
    Inspectors,    \* goroutines that call InspectRequest
    Watchers,      \* goroutines that call Stats
    WaitLimit,     \* of a page in WaitForRequest: 200
    InspectLimit   \* of the events of a report

ASSUME ClientAssumption ==
    /\ Waiters \cap Inspectors = {} /\ (Waiters \cup Inspectors) \cap Watchers = {}
    /\ WaitLimit \in Nat /\ InspectLimit \in Int

VARIABLES
    call,   \* of each caller, see NewCall
    jar     \* the session that the client's cookie names, or NoCookie

clientVars == <<call, jar>>

Callers == Waiters \cup Inspectors \cup Watchers
NoCookie == -1
Idle == [at |-> "idle"]

NewCall(after, target) ==
    [at |-> "ask", retryAuth |-> TRUE, cookie |-> NoCookie,
     after |-> after, cursor |-> after, target |-> target, stage |-> 1,
     events |-> {}, hasMore |-> FALSE,
     listed |-> 0,         \* history: the server's cursor when it listed the events
     skipped |-> FALSE,    \* history: an answer was cut, or the numbering restarted
     began |-> session]    \* history: the session when the current call was begun

Failed(k, error) == [at |-> "failed", error |-> error, began |-> k.began]
Returned == [at |-> "ended"]
NextCall(k) == [k EXCEPT !.at = "ask", !.cookie = NoCookie, !.retryAuth = TRUE, !.began = session]

Running(c) == call[c].at \notin {"idle", "ended", "failed"}
Returns(c) == Running(c) /\ call'[c].at = "ended"

-----------------------------------------------------------------------------

\* A client that follows the entries knows the cursor of the last one.
WaitForRequest(c) ==
    /\ call[c] = Idle
    /\ \E after \in {0, nextCursor} :
          call' = [call EXCEPT ![c] = NewCall(after, 0)]
    /\ UNCHANGED <<serverVars, jar>>

InspectRequest(c) ==
    /\ call[c] = Idle
    /\ \E e \in ToSet(stored) :
          /\ e.class \in Requests
          /\ call' = [call EXCEPT ![c] = NewCall(0, e.cursor)]
    /\ UNCHANGED <<serverVars, jar>>

\* Stats is one call, for what the store counts.
Stats(c) ==
    /\ call[c] = Idle
    /\ call' = [call EXCEPT ![c] = NewCall(0, 0)]
    /\ UNCHANGED <<serverVars, jar>>

\* doJSON sends the request with the cookie of the moment.
Ask(c) ==
    /\ call[c].at = "ask"
    /\ call' = [call EXCEPT ![c].at = "sent", ![c].cookie = jar]
    /\ UNCHANGED <<serverVars, jar>>

Authorized(c) == call[c].cookie = session

\* Mutant: only the newest entry of a page is looked at.
FirstMatchAtEnd(events) ==
    IF events # <<>> /\ Last(events).class = "exact" THEN Last(events).cursor ELSE 0

\* Mutant: the newest match of a page is returned.
FirstMatchNewest(events) ==
    LET matching == {i \in DOMAIN events : events[i].class = "exact"}
    IN  IF matching = {} THEN 0 ELSE events[Max(matching)].cursor

\* options.matches: the client does not fold the case of a path.
FirstMatch(events) ==
    LET matching == {i \in DOMAIN events : events[i].class = "exact"}
    IN  IF matching = {} THEN 0 ELSE events[Min(matching)].cursor

\* WaitForRequest: a page is digested to its first match, or to the cursor from
\* which the next poll goes on.
Digest(k) ==
    LET page == ListEvents(Matching, k.cursor, 0, WaitLimit)
    IN  [k EXCEPT !.skipped = @ \/ page.hasMore,
                  !.cursor = Max(CursorsOf(page.events) \cup {@}),
                  !.target = FirstMatch(page.events)]

AfterPage(k) == IF Digest(k).target = 0 THEN NextCall(Digest(k)) ELSE Returned

\* Mutant: the analysis is asked for before the events.
InspectCallsAnalysisFirst == <<"event", "analysis", "list">>

\* InspectRequest: three calls, in this order.
InspectCalls == <<"event", "list", "analysis">>

Report(k) ==
    LET page == ListEvents(Related(k.target), 0, 0, InspectLimit)
    IN  IF InspectCalls[k.stage] = "list"
        THEN [k EXCEPT !.events = CursorsOf(page.events), !.hasMore = page.hasMore,
                         !.listed = nextCursor]
        ELSE k

AfterInspectCall(k) ==
    IF InspectCalls[k.stage] # "list" /\ k.target \notin StoredCursors
    THEN Failed(k, "not found")
    ELSE IF k.stage = Len(InspectCalls) THEN Returned
    ELSE NextCall([Report(k) EXCEPT !.stage = @ + 1])

Answer(c) ==
    /\ call[c].at = "sent" /\ Authorized(c)
    /\ call' = [call EXCEPT ![c] = CASE c \in Waiters -> AfterPage(@)
                                     [] c \in Inspectors -> AfterInspectCall(@)
                                     [] c \in Watchers -> Returned]
    /\ UNCHANGED <<serverVars, jar>>

\* authorize answers 401: once per call the client logs in and tries again.
Unauthorized(c) ==
    /\ call[c].at = "sent" /\ ~Authorized(c)
    /\ call' = [call EXCEPT ![c] = IF @.retryAuth THEN [@ EXCEPT !.at = "lock", !.cookie = NoCookie]
                                   ELSE Failed(@, "unauthorized")]
    /\ UNCHANGED <<serverVars, jar>>

Retry(k) == [k EXCEPT !.at = "ask", !.retryAuth = FALSE]

\* Mutant: a client that has logged in once does not log in again.
AuthenticateUnforced(c) ==
    /\ call[c].at = "lock"
    /\ \A d \in Callers : call[d].at # "login"
    /\ call' = [call EXCEPT ![c] = IF jar = NoCookie
                                   THEN [@ EXCEPT !.at = "login"] ELSE Retry(@)]
    /\ UNCHANGED <<serverVars, jar>>

\* authenticate holds authMu, and is always forced.
Authenticate(c) ==
    /\ call[c].at = "lock"
    /\ \A d \in Callers : call[d].at # "login"
    /\ call' = [call EXCEPT ![c].at = "login"]
    /\ UNCHANGED <<serverVars, jar>>

\* createSession: blocked by the failures of the host, or the token is right.
LoginBlocks(c) ==
    /\ call[c].at = "login" /\ LoginBlocked
    /\ call' = [call EXCEPT ![c] = Failed(@, "blocked")]
    /\ UNCHANGED <<serverVars, jar>>

LoginAccepts(c) ==
    /\ call[c].at = "login" /\ ~LoginBlocked
    /\ failures' = 0
    /\ jar' = session
    /\ call' = [call EXCEPT ![c] = Retry(@)]
    /\ UNCHANGED <<stored, nextCursor, session, socket>>

\* The context ends or the HTTP client times out; the mutex waits regardless.
Cancel(c) ==
    /\ call[c].at \in {"ask", "sent", "login"}
    /\ call' = [call EXCEPT ![c] = Failed(@, "cancelled")]
    /\ UNCHANGED <<serverVars, jar>>

Proceed(c) ==
    \/ Ask(c) \/ Answer(c) \/ Unauthorized(c)
    \/ Authenticate(c) \/ LoginBlocks(c) \/ LoginAccepts(c)

\* A restart that loses the entries numbers from one again; the identifiers of
\* what is lost name nothing any more.
ClientRestart ==
    /\ Restart
    /\ UNCHANGED socket
    /\ call' = [c \in Callers |->
                  IF Running(c) /\ nextCursor' < nextCursor
                  THEN [call[c] EXCEPT !.skipped = TRUE, !.target = 0] ELSE call[c]]
    /\ UNCHANGED jar

ClientInit ==
    /\ ServerInit
    /\ call = [c \in Callers |-> Idle]
    /\ jar = NoCookie

ClientNext(entries) ==
    \/ \E c \in Callers : Proceed(c) \/ Cancel(c)
    \/ ClientRestart
    \/ ClearEvents /\ UNCHANGED clientVars
    \/ \E e \in entries : Put(e[1], e[2]) /\ UNCHANGED clientVars
    \/ (RecordLoginFailure \/ WindowEnds) /\ UNCHANGED clientVars

-----------------------------------------------------------------------------

\* WaitForRequest returns a match it was asked for, and of the matches in the
\* store the first one, unless more than a page came in between two polls or
\* the server began to number again.
WaitReturnsNext ==
    [][\A c \in Waiters : Returns(c) =>
         LET k == Digest(call[c])
             matches == {e.cursor : e \in {x \in ToSet(stored) :
                                             x.class = "exact" /\ x.cursor > k.after}}
         IN  /\ k.target \in matches
             /\ k.skipped \/ \A m \in matches : k.target <= m]_<<serverVars, clientVars>>

\* InspectRequest is three calls.  Of a request and of all that belonged to it
\* when it was listed, wherever it stands in the order, a report leaves out only
\* what has gone meanwhile or, saying that there is more, what is older than
\* everything it lists.
ReportIsWhole ==
    [][\A c \in Inspectors : Returns(c) =>
         LET k == Report(call[c])
         IN  \A m \in {k.target} \cup {d \in Family(k.target) : d <= k.listed} :
               m \notin k.events => (k.hasMore /\ \A d \in k.events : m < d)]_<<serverVars, clientVars>>

\* A client with the right token is refused only if the server was restarted
\* during that very call (doJSON, authenticate): a restart before it costs one
\* login, whatever its other goroutines do.
ReauthSucceeds ==
    \A c \in Callers :
        call[c].at = "failed" /\ call[c].error = "unauthorized" => call[c].began < session

\* A wait does not stay a wait while a match is there, unless it skipped some.
WaitCatchesMatch ==
    \A c \in Waiters :
        ~<>[](/\ Running(c) /\ ~call[c].skipped
              /\ \E e \in ToSet(stored) : e.class = "exact" /\ e.cursor > call[c].after)
=============================================================================
