------------------------------ MODULE LiveView ------------------------------
(***************************************************************************)
(* The live list of aircraft: the WebSocket endpoint of                    *)
(* src/backend/app/api/websocket.py sends the table once a second to each  *)
(* client; useWebSocket.ts shows what it receives, and polls the REST API  *)
(* while it has no connection.  Contents of the table are numbered.        *)
(***************************************************************************)
EXTENDS Integers, Sequences, FiniteSets

CONSTANTS
    Sockets,      \* bound: connections at one time, lingering ones included
    MaxDelay,     \* 30000 ms, in units of the first delay
    MaxTable,     \* bound: changes of the table
    MaxWire,      \* bound: messages on their way to one client
    MaxFetches    \* bound: REST requests at one time

\* The first delay doubles at least once.
ASSUME DelayAssumption == MaxDelay \in Nat /\ MaxDelay >= 2

VARIABLES
    table,        \* the committed rows
    handlers,     \* endpoints that are running: manager.active_connections
    wire,         \* what was sent on each connection and has not arrived
    page,         \* the hook: [open, socket, accepted, polling, timer, delay, lost]
    connected, displayed,
    fetches       \* REST requests: [id, rows: -1 until they are read]

viewVars == <<table, handlers, wire, page, connected, displayed, fetches>>

Empty == 0
Unread == -1
NoPage == [open |-> FALSE, socket |-> {}, accepted |-> FALSE, polling |-> FALSE,
           timer |-> FALSE, delay |-> 1, lost |-> FALSE]

\* A connection that neither side uses any more can stand for a new one.
FreeSockets == {k \in Sockets : k \notin handlers \cup page.socket}

NewFetch == [id |-> CHOOSE n \in 1..MaxFetches : \A f \in fetches : f.id # n, rows |-> Unread]
CanFetch == Cardinality(fetches) < MaxFetches

-----------------------------------------------------------------------------
(* The endpoint.                                                           *)

TableChanges ==
    /\ table < MaxTable
    /\ table' = table + 1
    /\ UNCHANGED <<handlers, wire, page, connected, displayed, fetches>>

\* accept and register.
Accepts ==
    /\ \E k \in page.socket :
         /\ ~page.accepted
         /\ handlers' = handlers \cup {k}
         /\ wire' = [wire EXCEPT ![k] = <<>>]
    /\ page' = [page EXCEPT !.accepted = TRUE]
    /\ UNCHANGED <<table, connected, displayed, fetches>>

\* One turn of the loop: the table is sent, or the client has gone.
Sends ==
    /\ \E k \in handlers :
         IF k \in page.socket
         THEN /\ Len(wire[k]) < MaxWire
              /\ wire' = [wire EXCEPT ![k] = Append(@, table)]
              /\ UNCHANGED handlers
         ELSE /\ handlers' = handlers \ {k}
              /\ wire' = [wire EXCEPT ![k] = <<>>]
    /\ UNCHANGED <<table, page, connected, displayed, fetches>>

\* The database raises: the endpoint returns, the connection ends.
EndpointFails ==
    /\ \E k \in handlers : handlers' = handlers \ {k}
    /\ UNCHANGED <<table, wire, page, connected, displayed, fetches>>

-----------------------------------------------------------------------------
(* The hook.                                                               *)

\* startPolling and the timer of the next attempt.
FellBack(p) ==
    [p EXCEPT !.socket = {}, !.accepted = FALSE, !.polling = TRUE, !.timer = TRUE,
              !.lost = TRUE, !.delay = IF 2 * @ > MaxDelay THEN MaxDelay ELSE 2 * @]
FallsBack ==
    /\ page' = FellBack(page)
    /\ fetches' = IF page.polling THEN fetches ELSE fetches \cup {NewFetch}

\* The effect: a first request, then connect; the constructor may throw, and
\* polling begins with a request of its own.
PageOpens ==
    /\ ~page.open /\ fetches = {}
    /\ \/ /\ \E k \in FreeSockets : page' = [NoPage EXCEPT !.open = TRUE, !.socket = {k}]
          /\ fetches' = {NewFetch}
       \/ /\ MaxFetches >= 2
          /\ page' = FellBack([NoPage EXCEPT !.open = TRUE])
          /\ fetches' = [id : 1..2, rows : {Unread}]
    /\ connected' = FALSE /\ displayed' = Empty
    /\ UNCHANGED <<table, handlers, wire>>

\* Mutant: polling goes on beside the connection.
OpenedWhilePolling ==
    /\ page.accepted /\ ~connected
    /\ connected' = TRUE
    /\ page' = [page EXCEPT !.delay = 1]
    /\ UNCHANGED <<table, handlers, wire, displayed, fetches>>

\* onopen
Opened ==
    /\ page.accepted /\ ~connected
    /\ connected' = TRUE
    /\ page' = [page EXCEPT !.delay = 1, !.polling = FALSE]
    /\ UNCHANGED <<table, handlers, wire, displayed, fetches>>

\* onmessage
MessageArrives ==
    /\ connected
    /\ \E k \in page.socket :
         /\ wire[k] # <<>>
         /\ displayed' = Head(wire[k])
         /\ wire' = [wire EXCEPT ![k] = Tail(@)]
    /\ UNCHANGED <<table, handlers, page, connected, fetches>>

\* onclose, also after onerror: refused, lost, or ended by the endpoint.
Closed ==
    /\ page.open /\ page.socket # {} /\ (page.polling \/ CanFetch)
    /\ connected' = FALSE
    /\ FallsBack
    /\ UNCHANGED <<table, handlers, wire, displayed>>

\* connect when the time is over; the constructor may throw.
Reconnects ==
    /\ page.timer
    /\ \/ /\ \E k \in FreeSockets : page' = [page EXCEPT !.timer = FALSE, !.socket = {k}]
          /\ UNCHANGED fetches
       \/ /\ page.polling \/ CanFetch
          /\ FallsBack
    /\ UNCHANGED <<table, handlers, wire, connected, displayed>>

\* An interval does not wait for the request of the one before.
Polls ==
    /\ page.polling /\ CanFetch
    /\ fetches' = fetches \cup {NewFetch}
    /\ UNCHANGED <<table, handlers, wire, page, connected, displayed>>

\* get_active_aircraft and get_stats.
Reads ==
    /\ \E f \in fetches :
         /\ f.rows = Unread
         /\ fetches' = (fetches \ {f}) \cup {[f EXCEPT !.rows = table]}
    /\ UNCHANGED <<table, handlers, wire, page, connected, displayed>>

\* The answers are displayed in the order they arrive, connected or not; a failed
\* request shows an empty list.
Answered ==
    /\ \E f \in fetches :
         /\ fetches' = fetches \ {f}
         /\ displayed' \in {Empty} \cup (IF f.rows = Unread THEN {} ELSE {f.rows})
    /\ UNCHANGED <<table, handlers, wire, page, connected>>

\* The browser leaves the page: nothing of the hook remains.
PageCloses ==
    /\ page.open
    /\ page' = NoPage /\ connected' = FALSE /\ fetches' = {} /\ displayed' = Empty
    /\ UNCHANGED <<table, handlers, wire>>

-----------------------------------------------------------------------------
ViewInit ==
    /\ table = 1 /\ handlers = {}
    /\ wire = [k \in Sockets |-> <<>>]
    /\ page = NoPage /\ connected = FALSE /\ displayed = Empty /\ fetches = {}
ViewNext ==
    \/ TableChanges \/ Accepts \/ Sends \/ EndpointFails
    \/ PageOpens \/ Opened \/ MessageArrives \/ Closed \/ Reconnects
    \/ Polls \/ Reads \/ Answered \/ PageCloses
ViewSpec == ViewInit /\ [][ViewNext]_viewVars

\* An open page always has exactly one way back to the live data, an attempt, a
\* connection or the timer of the next attempt; polling goes on exactly from a
\* lost connection or attempt to the next that opens, so that no interval stays
\* behind (useWebSocket.ts).
ViewHasASource ==
    /\ page.open => (page.socket # {} <=> ~page.timer)
    /\ page.polling <=> page.lost /\ ~connected
    /\ connected => page.open /\ page.socket # {}
    /\ page.timer => page.polling /\ page.delay \in 2..MaxDelay
=============================================================================
