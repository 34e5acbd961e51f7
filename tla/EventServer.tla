----------------------------- MODULE EventServer -----------------------------
(***************************************************************************)
(* What a client sees of a profiler through HTTP: the stored entries, the  *)
(* pages of listEvents, the stream of one subscription, the session that   *)
(* a restart replaces, and the limit on failed logins.  Storing, evicting  *)
(* and broadcasting are one step here; EntryStore has them in detail.      *)
(***************************************************************************)
EXTENDS Integers, Sequences, FiniteSets, SequencesExt

CONSTANTS
    MaxEvents,      \* WithMaxEvents
    StreamBuffer,   \* the capacity of a subscription
    MaxLimit,       \* of a page: 1000
    DefaultLimit,   \* of a page: 200
    LoginLimit,     \* loginFailureLimit
    Classes,        \* how entries fare with a client's filter, see Accepts
    MaxCursor,      \* bound: puts and clears
    MaxRestarts     \* bound

ASSUME ServerAssumption ==
    /\ {MaxEvents, StreamBuffer, MaxLimit, DefaultLimit, LoginLimit} \subseteq Nat \ {0}
    /\ DefaultLimit <= MaxLimit
    /\ Classes \subseteq {"exact", "folded", "other"}

VARIABLES
    stored,     \* entries in insertion order
    nextCursor,
    session,    \* the profiler's session token: the number of its process
    failures,   \* loginFailures of the host that all clients run on
    socket      \* the subscription and its connection, see Disconnected

serverVars == <<stored, nextCursor, session, failures, socket>>

CursorsOf(entries) == {entries[i].cursor : i \in DOMAIN entries}
StoredCursors == CursorsOf(stored)

-----------------------------------------------------------------------------
(* Pages                                                                   *)

\* What a client filters by: nothing, a request it waits for, or a request
\* with what belongs to it.
Everything == [by |-> "nothing"]
Matching == [by |-> "match"]
Related(request) == [by |-> "request", id |-> request]

Requests == {"exact", "folded"}

\* A request is named by its cursor.  An entry is of the requests it matches by
\* its ID, RequestID or OriginRequestID, which it may precede or follow.
Family(request) == {e.cursor : e \in {x \in ToSet(stored) : request \in x.of}}

\* matchesEventFilters: the server folds the case of a path.
Accepts(filter, e) ==
    \/ filter.by = "nothing"
    \/ filter.by = "match" /\ e.class \in Requests
    \/ filter.by = "request" /\ filter.id \in e.of

\* A limit out of range becomes the default, in the handler and in the store.
HandlerLimit(limit) == IF limit \in 1 .. MaxLimit THEN limit ELSE DefaultLimit
StoreLimit(limit) == IF limit \in 1 .. MaxLimit + 1 THEN limit ELSE DefaultLimit

\* listBeforeFiltered: from the newest entry on, until there are enough; 0 is
\* no bound.
Eligible(filter, after, before, e) ==
    /\ after > 0 => e.cursor > after
    /\ before > 0 => e.cursor < before
    /\ Accepts(filter, e)

ListBefore(filter, after, before, limit) ==
    FoldRight(LAMBDA e, found :
                  IF Eligible(filter, after, before, e) /\ Len(found) < StoreLimit(limit)
                  THEN <<e>> \o found ELSE found,
              stored, <<>>)

\* listEvents asks for one entry more, to know whether there are more.
ListEvents(filter, after, before, limit) ==
    LET wanted == HandlerLimit(limit)
        entries == ListBefore(filter, after, before, wanted + 1)
    IN  IF Len(entries) > wanted
        THEN [events |-> Tail(entries), hasMore |-> TRUE]
        ELSE [events |-> entries, hasMore |-> FALSE]

-----------------------------------------------------------------------------
(* The stream                                                              *)

Disconnected == [at |-> "none", channel |-> <<>>, lagged |-> FALSE, wire |-> <<>>]

Subscribed == socket.at \in {"snapshot", "open"} /\ ~socket.lagged

Created(cursor) == [type |-> "created", cursor |-> cursor]
Cleared == [type |-> "cleared"]
Snapshot == [type |-> "stats", retained |-> Len(stored), cursor |-> nextCursor]

\* Mutant: a message that finds the channel full is left out.
BroadcastSkipping(message) ==
    socket' = IF Subscribed /\ Len(socket.channel) < StreamBuffer
              THEN [socket EXCEPT !.channel = Append(@, message)] ELSE socket

\* broadcastLocked: a subscriber that lags loses its subscription.
Broadcast(message) ==
    socket' = IF ~Subscribed THEN socket
              ELSE IF Len(socket.channel) < StreamBuffer
              THEN [socket EXCEPT !.channel = Append(@, message)]
              ELSE [socket EXCEPT !.lagged = TRUE]

\* put: the oldest entry leaves when there are too many.  The new one is of the
\* requests given, stored already or to come, and a request of itself.
Put(class, requests) ==
    /\ nextCursor < MaxCursor
    /\ nextCursor' = nextCursor + 1
    /\ LET own == IF class \in Requests THEN {nextCursor'} ELSE {}
           all == Append(stored, [cursor |-> nextCursor', class |-> class,
                                  of |-> requests \cup own])
       IN  stored' = IF Len(all) > MaxEvents THEN Tail(all) ELSE all
    /\ Broadcast(Created(nextCursor'))
    /\ UNCHANGED <<session, failures>>

ClearEvents ==
    /\ nextCursor < MaxCursor
    /\ nextCursor' = nextCursor + 1
    /\ stored' = <<>>
    /\ Broadcast(Cleared)
    /\ UNCHANGED <<session, failures>>

\* serveWebSocket: subscribe first, then send the snapshot ...
Subscribe ==
    /\ socket.at = "connecting"
    /\ socket' = [Disconnected EXCEPT !.at = "snapshot"]

SendSnapshot ==
    /\ socket.at = "snapshot"
    /\ socket' = [socket EXCEPT !.at = "open", !.wire = Append(@, Snapshot)]

\* ... then whatever is ready first: a message, or the tick of the statistics,
\* which the model takes only when the wire is idle.
Forward ==
    /\ socket.at = "open" /\ socket.channel # <<>>
    /\ socket' = [socket EXCEPT !.channel = Tail(@),
                                !.wire = Append(@, Head(socket.channel))]

SendStats ==
    /\ socket.at = "open" /\ socket.wire = <<>>
    /\ socket' = [socket EXCEPT !.wire = <<Snapshot>>]

HangUp ==
    /\ socket.at = "open" /\ socket.lagged /\ socket.channel = <<>>
    /\ socket' = [socket EXCEPT !.at = "closing"]

StreamStep == Subscribe \/ SendSnapshot \/ Forward \/ SendStats \/ HangUp

-----------------------------------------------------------------------------
(* Sessions                                                                *)

LoginBlocked == failures >= LoginLimit

\* createSession: somebody of the host gave a wrong token.
RecordLoginFailure ==
    /\ failures < LoginLimit
    /\ failures' = failures + 1
    /\ UNCHANGED <<stored, nextCursor, session, socket>>

\* The minute of the first failure has passed: the entry no longer counts.
WindowEnds ==
    /\ failures > 0
    /\ failures' = 0
    /\ UNCHANGED <<stored, nextCursor, session, socket>>

\* A new process: its entries come from the journal, here in the order of their
\* cursors, or there are none.  What it does to a connection is up to the client.
Restart ==
    /\ session < MaxRestarts
    /\ session' = session + 1
    /\ failures' = 0
    /\ \/ UNCHANGED <<stored, nextCursor>>
       \/ stored' = <<>> /\ nextCursor' = 0

ServerInit ==
    /\ stored = <<>> /\ nextCursor = 0
    /\ session = 0 /\ failures = 0
    /\ socket = Disconnected
=============================================================================
