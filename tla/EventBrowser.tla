---------------------------- MODULE EventBrowser -----------------------------
(***************************************************************************)
(* The browser's copy of the entries (ui/app.js): a first page, then the   *)
(* stream, which may be held back, older pages and the entries of an       *)
(* execution on demand, and statistics by which it forgets what the server *)
(* no longer has.  It does not load again after it has lost a connection,  *)
(* only after it has logged in again; without a login it never does.       *)
(***************************************************************************)
EXTENDS EventServer

CONSTANTS
    PageSize,
    ScopeLimit,  \* entries of an execution: 1000
    MaxDrops,    \* bound: connections that break
    MaxScopes    \* bound: executions whose entries are asked for

ASSUME BrowserAssumption == {PageSize, ScopeLimit} \subseteq Nat

VARIABLES
    view,       \* the first page: asked for, answered, or shown
    shown,      \* state.events, see Entry
    paused, pending,
    hasMore,
    older,      \* a request for older entries that is under way
    scope,      \* a request for the entries of an execution, likewise
    clearing,   \* a request to clear, likewise
    numbering,  \* history: how often a server began to number again
    gaps,       \* history: what the browser lacks, by reason, see NoGaps
    drops, scopes

calls == <<older, scope, clearing>>
display == <<view, shown, paused, pending, hasMore>>
history == <<numbering, gaps, drops, scopes>>
browserVars == <<display, calls, history>>

NoCall == [at |-> "none"]

\* Entries are told apart by their identifiers, which no server gives twice, and
\* put in order by their cursors.
Entry(c) == [cursor |-> c, numbering |-> numbering]
EntriesOf(cursors) == {Entry(c) : c \in cursors}
PageEntries(page) == EntriesOf(CursorsOf(page.events))
Bottom(entries) == Min({e.cursor : e \in entries})

\* Why the browser may lack an entry that is stored: there was no subscription
\* when it was, statistics or the answer to a DELETE removed it, or entries that
\* came out of their order moved the bottom of the list past it.
NoGaps == [away |-> {}, forgotten |-> {}, passed |-> {}]
Among(entries, reasons) == [r \in DOMAIN reasons |-> reasons[r] \cap CursorsOf(entries)]

Lost == {m.cursor : m \in {x \in ToSet(socket.channel) \cup ToSet(socket.wire) :
                             x.type = "created"}}

-----------------------------------------------------------------------------
(* The list                                                                *)

\* The server answers load() ...
AnswerLoad ==
    /\ view.at = "load"
    /\ view' = [at |-> "loaded", page |-> ListEvents(Everything, 0, 0, PageSize)]
    /\ gaps' = NoGaps
    /\ UNCHANGED <<serverVars, shown, paused, pending, hasMore, calls,
                   numbering, drops, scopes>>

\* ... which replaces what was shown, but not what is held back, and connects.
ApplyLoad ==
    /\ view.at = "loaded"
    /\ view' = [at |-> "live"]
    /\ shown' = PageEntries(view.page)
    /\ hasMore' = view.page.hasMore
    /\ socket' = [socket EXCEPT !.at = "connecting"]
    /\ UNCHANGED <<stored, nextCursor, session, failures, paused, pending,
                   calls, history>>

\* loadMoreEvents asks for what is older than all it shows ...
AskOlder ==
    /\ view.at = "live" /\ older = NoCall /\ hasMore /\ shown # {}
    /\ older' = [at |-> "asked", before |-> Bottom(shown)]
    /\ UNCHANGED <<serverVars, display, scope, clearing, history>>

AnswerOlder ==
    /\ older.at = "asked"
    /\ older' = [at |-> "answered",
                 page |-> ListEvents(Everything, 0, older.before, PageSize)]
    /\ UNCHANGED <<serverVars, display, scope, clearing, history>>

\* ... and adds the answer, whatever has happened since.
ApplyOlder ==
    /\ older.at = "answered"
    /\ shown' = shown \cup PageEntries(older.page)
    /\ hasMore' = older.page.hasMore
    /\ older' = NoCall
    /\ UNCHANGED <<serverVars, view, paused, pending, scope, clearing, history>>

\* loadExecutionScope, when an execution is opened ...
AskScope ==
    /\ view.at = "live" /\ shown # {} /\ scope = NoCall
    /\ scopes < MaxScopes
    /\ scope' = [at |-> "asked"]
    /\ scopes' = scopes + 1
    /\ UNCHANGED <<serverVars, display, older, clearing, numbering, gaps, drops>>

\* ... is answered with what descends from it, which may be any of the entries ...
AnswerScope ==
    /\ scope.at = "asked"
    /\ \E found \in SUBSET StoredCursors :
          /\ Cardinality(found) <= ScopeLimit
          /\ scope' = [at |-> "answered", found |-> found]
    /\ UNCHANGED <<serverVars, display, older, clearing, history>>

\* What is below the list, but not below all the added entries, is out of reach of
\* loadMoreEvents from now on.
Passing(added) ==
    [gaps EXCEPT !.passed = @ \cup {c \in StoredCursors :
                                      /\ \E e \in added : e.cursor <= c
                                      /\ \A e \in shown : c < e.cursor}]

\* ... and adds them all.
ApplyScope ==
    /\ scope.at = "answered"
    /\ shown' = shown \cup EntriesOf(scope.found)
    /\ gaps' = Passing(EntriesOf(scope.found))
    /\ scope' = NoCall
    /\ UNCHANGED <<serverVars, view, paused, pending, hasMore, older, clearing,
                   numbering, drops, scopes>>

-----------------------------------------------------------------------------
(* The stream                                                              *)

\* Mutant: the newest entries are taken for those the server no longer has.
ExpiredNewest(entries, excess) ==
    {gone \in SUBSET entries :
        /\ Cardinality(gone) = excess
        /\ \A e \in gone, f \in entries \ gone : e.cursor >= f.cursor}

\* reconcileLoadedEvents: as many of the oldest as there are too many.
Expired(entries, excess) ==
    {gone \in SUBSET entries :
        /\ Cardinality(gone) = excess
        /\ \A e \in gone, f \in entries \ gone : e.cursor <= f.cursor}

\* receive: a pause holds new entries back.
ReceiveEntry(e) ==
    /\ IF paused
       THEN pending' = pending \cup {e} /\ UNCHANGED shown
       ELSE shown' = shown \cup {e} /\ UNCHANGED pending
    /\ UNCHANGED gaps

\* What is held back stays.
ReceiveCleared ==
    /\ shown' = {}
    /\ UNCHANGED <<pending, gaps>>

Forgets(gone) ==
    /\ shown' = shown \ gone
    /\ gaps' = [gaps EXCEPT !.forgotten = @ \cup {c \in StoredCursors : Entry(c) \in gone}]

ReceiveStats(retained) ==
    /\ IF Cardinality(shown) <= retained THEN UNCHANGED <<shown, gaps>>
       ELSE \E gone \in Expired(shown, Cardinality(shown) - retained) : Forgets(gone)
    /\ UNCHANGED pending

Receive ==
    /\ socket.wire # <<>>
    /\ LET m == Head(socket.wire)
       IN  \/ m.type = "created" /\ ReceiveEntry(Entry(m.cursor))
           \/ m.type = "cleared" /\ ReceiveCleared
           \/ m.type = "stats" /\ ReceiveStats(m.retained)
    /\ socket' = [socket EXCEPT !.wire = Tail(@)]
    /\ UNCHANGED <<stored, nextCursor, session, failures,
                   view, paused, hasMore, calls, numbering, drops, scopes>>

TogglePause ==
    /\ view.at = "live"
    /\ paused' = ~paused
    /\ pending' = {}
    /\ shown' = shown \cup pending
    /\ gaps' = Passing(pending)
    /\ UNCHANGED <<serverVars, view, hasMore, calls, numbering, drops, scopes>>

\* The connection was closed: recoverSocket connects again, and only connects.
Reconnect ==
    /\ socket.at = "closing" /\ socket.wire = <<>>
    /\ socket' = [Disconnected EXCEPT !.at = "connecting"]
    /\ UNCHANGED <<stored, nextCursor, session, failures, browserVars>>

\* The connection breaks, with all that is on its way.
Break ==
    /\ drops < MaxDrops
    /\ socket.at = "open"
    /\ socket' = [Disconnected EXCEPT !.at = "closing"]
    /\ gaps' = Among(stored, [gaps EXCEPT !.away = @ \cup Lost])
    /\ drops' = drops + 1
    /\ UNCHANGED <<stored, nextCursor, session, failures, display, calls,
                   numbering, scopes>>

-----------------------------------------------------------------------------
(* Clearing, and what others do                                            *)

\* clearEvents: the server clears, and tells the stream ...
ClearHere ==
    /\ view.at = "live" /\ clearing = NoCall
    /\ ClearEvents
    /\ clearing' = [at |-> "answered"]
    /\ gaps' = NoGaps
    /\ UNCHANGED <<display, older, scope, numbering, drops, scopes>>

\* ... and the answer empties the view again, whatever came in between.
ApplyClear ==
    /\ clearing.at = "answered"
    /\ Forgets(shown)
    /\ hasMore' = FALSE
    /\ clearing' = NoCall
    /\ UNCHANGED <<serverVars, view, paused, pending, older, scope,
                   numbering, drops, scopes>>

\* Someone else clears.
ClearElsewhere ==
    /\ ClearEvents
    /\ gaps' = NoGaps
    /\ UNCHANGED <<display, calls, numbering, drops, scopes>>

BrowserPut(class) ==
    /\ Put(class, {})
    /\ gaps' = IF view.at # "load" /\ ~Subscribed'
               THEN Among(stored', [gaps EXCEPT !.away = @ \cup {nextCursor'}])
               ELSE Among(stored', gaps)
    /\ UNCHANGED <<display, calls, numbering, drops, scopes>>

\* The process is replaced, and every call and connection ends with it.  If the
\* server asks for a login the next call is answered 401, and after the login the
\* browser loads again; if not, recoverSocket goes on with what is shown.
BrowserRestart ==
    /\ view.at = "live"
    /\ Restart
    /\ older' = NoCall /\ scope' = NoCall /\ clearing' = NoCall
    /\ \/ view' = [at |-> "load"] /\ socket' = Disconnected
       \/ UNCHANGED view /\ socket' = [Disconnected EXCEPT !.at = "closing"]
    /\ IF nextCursor' < nextCursor
       THEN numbering' = numbering + 1 /\ gaps' = NoGaps
       ELSE UNCHANGED numbering /\ gaps' = Among(stored, [gaps EXCEPT !.away = @ \cup Lost])
    /\ UNCHANGED <<shown, paused, pending, hasMore, drops, scopes>>

BrowserInit ==
    /\ ServerInit
    /\ view = [at |-> "load"] /\ shown = {} /\ hasMore = FALSE
    /\ paused = FALSE /\ pending = {}
    /\ older = NoCall /\ scope = NoCall /\ clearing = NoCall
    /\ numbering = 0 /\ gaps = NoGaps /\ drops = 0 /\ scopes = 0

BrowserNext ==
    \/ AnswerLoad \/ ApplyLoad \/ Receive \/ TogglePause \/ Reconnect \/ Break
    \/ AskOlder \/ AnswerOlder \/ ApplyOlder
    \/ AskScope \/ AnswerScope \/ ApplyScope
    \/ ClearHere \/ ApplyClear \/ ClearElsewhere \/ BrowserRestart
    \/ \E class \in Classes : BrowserPut(class)
    \/ StreamStep /\ UNCHANGED <<stored, nextCursor, session, failures, browserVars>>

-----------------------------------------------------------------------------

Settled ==
    /\ view.at = "live" /\ Subscribed
    /\ socket.channel = <<>> /\ socket.wire = <<>>
    /\ older = NoCall /\ scope = NoCall /\ clearing = NoCall

\* What the browser holds neither in its list nor back, and cannot reach by asking
\* for what is older than its list.
Missing ==
    {c \in StoredCursors :
        /\ Entry(c) \notin shown \cup pending
        /\ ~(hasMore /\ \A e \in shown : c < e.cursor)}

\* With everything delivered, the browser lacks no entry but for one of the three
\* reasons: the stream (subscribe before the snapshot, serveWebSocket), a pause and
\* the pages (before, has_more) leave no other gap.
GapsHaveAReason ==
    Settled => Missing \subseteq gaps.away \cup gaps.forgotten \cup gaps.passed

\* Statistics may arrive late.  They make the browser forget an entry that the
\* server still has only because it counts against it one at least as new that was
\* stored after the statistics were made, which the entries of an execution bring,
\* or by a server that numbered differently (receiveStats, reconcileLoadedEvents).
ForgetsOnlyRetired ==
    [][Receive /\ Head(socket.wire).type = "stats" =>
         \A c \in StoredCursors : Entry(c) \in shown \ shown' =>
           \E e \in shown :
              /\ e.cursor >= c
              /\ e.numbering # numbering \/ e.cursor > Head(socket.wire).cursor]_<<serverVars, browserVars>>
=============================================================================
