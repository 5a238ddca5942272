---------------------------- MODULE PushChannel ----------------------------
(***************************************************************************)
(* The host-to-client push channel, both ends of it: connectEventChannel   *)
(* in the page, which keeps one WebSocket open and reconnects with         *)
(* backoff, and on the server the gate and the route that answer the       *)
(* upgrade and the EventChannel that broadcasts to the attached sockets.   *)
(*                                                                         *)
(* Each end learns of a lost connection on its own: the page by onclose,   *)
(* the server by the socket's close or error event or by a send that       *)
(* throws.  A WebSocket delivers frames in order and never twice, and its  *)
(* close event always comes, after the page's own close() as well.  A      *)
(* connection id is used again once both ends have let go of it.           *)
(***************************************************************************)
EXTENDS Naturals, Sequences

CONSTANTS
    Connection,   \* WebSockets that either end may hold at the same time
    NoConnection,
    Token,        \* bearer tokens a server may have
    AttemptCap,   \* the attempt from which retryDelay stays at its ceiling
    MaxEvents,    \* bound: broadcasts
    MaxFailures,  \* bound: failures of the network
    MaxRestarts   \* bound: restarts of the server

ASSUME PushChannelAssumption ==
    /\ NoConnection \notin Connection
    /\ AttemptCap \in Nat \ {0}
    /\ {MaxEvents, MaxFailures, MaxRestarts} \subseteq Nat

VARIABLES
    socket,      \* the page's current WebSocket
    timer,       \* is a reconnect timer set?
    attempt,     \* failed attempts since the last one that opened
    stopped,     \* has the disposer been called?
    pageToken,   \* the token the server injected into the page
    up,          \* is the server running?
    serverToken, \* the token it accepts
    clients,     \* its EventChannel's set of sockets
    link,        \* what has become of each connection: "ended" until the
                 \* page has had its close event, "none" from then on
    frames,      \* frames under way on each connection
    sent,        \* history: events broadcast so far, numbered from 1
    received,    \* history: the events the page put on its bus, in order
    refused,     \* history: has the gate turned the page's token away?
    failures,    \* history: failures of the network so far
    restarts     \* history: restarts of the server so far

page == <<socket, timer, attempt, stopped>>
server == <<up, serverToken, clients>>
history == <<sent, received, refused, failures, restarts>>
vars == <<page, pageToken, server, link, frames, history>>

TypeOK ==
    /\ socket \in Connection \cup {NoConnection}
    /\ timer \in BOOLEAN
    /\ attempt \in 0..AttemptCap
    /\ stopped \in BOOLEAN
    /\ pageToken \in Token
    /\ up \in BOOLEAN
    /\ serverToken \in Token
    /\ clients \subseteq Connection
    /\ link \in [Connection -> {"upgrading", "accepted", "open", "ended", "none"}]
    /\ frames \in [Connection -> Seq(1..MaxEvents)]
    /\ sent \in 0..MaxEvents
    /\ received \in Seq(1..MaxEvents)
    /\ refused \in BOOLEAN
    /\ failures \in 0..MaxFailures
    /\ restarts \in 0..MaxRestarts

\* The page has just loaded from a running server and called open().
Init ==
    /\ socket \in Connection
    /\ timer = FALSE
    /\ attempt = 0
    /\ stopped = FALSE
    /\ pageToken \in Token
    /\ up = TRUE
    /\ serverToken = pageToken
    /\ clients = {}
    /\ link = [c \in Connection |-> IF c = socket THEN "upgrading" ELSE "none"]
    /\ frames = [c \in Connection |-> <<>>]
    /\ sent = 0
    /\ received = <<>>
    /\ refused = FALSE
    /\ failures = 0
    /\ restarts = 0

Free(c) == link[c] = "none" /\ c \notin clients

\* The connections that have not ended.
Live == {c \in Connection : link[c] \in {"upgrading", "accepted", "open"}}

\* The connections of cs end; what was under way on them is lost, and the page
\* has a close event to come.
Breaks(cs) ==
    /\ link' = [c \in Connection |-> IF c \in cs \cap Live THEN "ended" ELSE link[c]]
    /\ frames' = [c \in Connection |-> IF c \in cs THEN <<>> ELSE frames[c]]

-----------------------------------------------------------------------------
(* The page.                                                               *)

\* Mutant: an interval in place of a timeout, which stays set.
TimerFiresRepeatedly ==
    /\ timer
    /\ IF stopped THEN UNCHANGED <<socket, link>>
       ELSE \E c \in Connection :
              /\ Free(c)
              /\ socket' = c
              /\ link' = [link EXCEPT ![c] = "upgrading"]
    /\ UNCHANGED <<timer, attempt, stopped, pageToken, server, frames, history>>

\* The reconnect timer's callback: clear the handle and open().
TimerFires ==
    /\ timer
    /\ timer' = FALSE
    /\ IF stopped THEN UNCHANGED <<socket, link>>
       ELSE \E c \in Connection :
              /\ Free(c)
              /\ socket' = c
              /\ link' = [link EXCEPT ![c] = "upgrading"]
    /\ UNCHANGED <<attempt, stopped, pageToken, server, frames, history>>

\* onopen: the backoff starts over.
OnOpen(c) ==
    /\ link[c] = "accepted"
    /\ link' = [link EXCEPT ![c] = "open"]
    /\ attempt' = 0
    /\ UNCHANGED <<socket, timer, stopped, pageToken, server, frames, history>>

\* onmessage: one frame reaches the event bus.
OnMessage(c) ==
    /\ link[c] = "open"
    /\ frames[c] # <<>>
    /\ received' = Append(received, Head(frames[c]))
    /\ frames' = [frames EXCEPT ![c] = Tail(@)]
    /\ UNCHANGED <<page, pageToken, server, link, sent, refused, failures, restarts>>

\* The close codes after which the page does not try again.
FATAL_CLOSE_CODES == {"policy violation"}

\* The code onclose reports of an upgrade answered 401, a network failure
\* (1006) or a server that closes its sockets on its way down (1005): never
\* the policy violation (1008) of the route, which the gate keeps out of reach.
CloseCode == "abnormal"

\* Mutant: the delay has no ceiling.
retryUncapped == timer' = TRUE /\ attempt' = attempt + 1

\* The timer for the next attempt, each later than the one before.
retry ==
    /\ timer' = TRUE
    /\ attempt' = IF attempt < AttemptCap THEN attempt + 1 ELSE AttemptCap

\* schedule(): one timer at a time, and none once the disposer has run.
schedule == IF stopped \/ timer THEN UNCHANGED <<timer, attempt>> ELSE retry

\* Mutant: only a connection that had opened is tried again.
OnCloseAfterOpen(c) ==
    /\ link[c] = "ended"
    /\ link' = [link EXCEPT ![c] = "none"]
    /\ socket' = NoConnection
    /\ IF stopped \/ CloseCode \in FATAL_CLOSE_CODES \/ attempt > 0
       THEN UNCHANGED <<timer, attempt>>
       ELSE schedule
    /\ UNCHANGED <<stopped, pageToken, server, frames, history>>

\* Mutant: the close event is taken for a failure, whoever closed the socket.
OnCloseAlwaysRetries(c) ==
    /\ link[c] = "ended"
    /\ link' = [link EXCEPT ![c] = "none"]
    /\ socket' = NoConnection
    /\ IF timer THEN UNCHANGED <<timer, attempt>> ELSE retry
    /\ UNCHANGED <<stopped, pageToken, server, frames, history>>

\* onclose, of a socket that failed or of the one the disposer closed: forget
\* the socket and, unless there is no point, try again later.
OnClose(c) ==
    /\ link[c] = "ended"
    /\ link' = [link EXCEPT ![c] = "none"]
    /\ socket' = NoConnection
    /\ IF stopped \/ CloseCode \in FATAL_CLOSE_CODES
       THEN UNCHANGED <<timer, attempt>>
       ELSE schedule
    /\ UNCHANGED <<stopped, pageToken, server, frames, history>>

\* The disposer: no more retries, and the socket closed, whose close event is
\* still to come.
Dispose ==
    /\ ~stopped
    /\ stopped' = TRUE
    /\ timer' = FALSE
    /\ socket' = NoConnection
    /\ Breaks({socket} \cap Connection)
    /\ UNCHANGED <<attempt, pageToken, server, history>>

-----------------------------------------------------------------------------
(* The server.                                                             *)

\* The gate and then the route look for the offered token among the
\* server's: the socket is attached, or the upgrade is answered 401.
Upgrade(c) ==
    /\ link[c] = "upgrading"
    /\ up
    /\ IF pageToken = serverToken
       THEN /\ link' = [link EXCEPT ![c] = "accepted"]
            /\ clients' = clients \cup {c}
            /\ UNCHANGED <<frames, refused>>
       ELSE /\ Breaks({c})
            /\ refused' = TRUE
            /\ UNCHANGED clients
    /\ UNCHANGED <<page, pageToken, up, serverToken, sent, received, failures, restarts>>

Attached == clients \cap Live

\* A frame is sent to every client; a dead socket swallows it, or throws and
\* is dropped.
broadcast ==
    /\ up
    /\ sent < MaxEvents
    /\ sent' = sent + 1
    /\ frames' = [c \in Connection |-> IF c \in Attached THEN Append(frames[c], sent + 1)
                                       ELSE frames[c]]
    /\ \E threw \in SUBSET (clients \ Attached) : clients' = clients \ threw
    /\ UNCHANGED <<page, pageToken, up, serverToken, link,
                   received, refused, failures, restarts>>

\* The socket's close or error event.
OnSocketGone(c) ==
    /\ c \in clients \ Attached
    /\ clients' = clients \ {c}
    /\ UNCHANGED <<page, pageToken, up, serverToken, link, frames, history>>

\* Shutdown (closeAll) or a crash; a generated token is replaced by the next
\* start, a configured one is not.
Stop ==
    /\ up
    /\ restarts < MaxRestarts
    /\ restarts' = restarts + 1
    /\ up' = FALSE
    /\ clients' = {}
    /\ Breaks(clients)
    /\ UNCHANGED <<page, pageToken, serverToken, sent, received, refused, failures>>

Start ==
    /\ ~up
    /\ up' = TRUE
    /\ serverToken' \in Token
    /\ UNCHANGED <<page, pageToken, clients, link, frames, history>>

\* A connection is lost, or an upgrade fails: nobody answers while the server
\* is down.
ConnectionFails(c) ==
    /\ c \in Live
    /\ IF link[c] = "upgrading" /\ ~up
       THEN UNCHANGED failures
       ELSE failures < MaxFailures /\ failures' = failures + 1
    /\ Breaks({c})
    /\ UNCHANGED <<page, pageToken, server, sent, received, refused, restarts>>

-----------------------------------------------------------------------------

Next ==
    \/ TimerFires \/ Dispose \/ broadcast \/ Stop \/ Start
    \/ \E c \in Connection :
          \/ OnOpen(c) \/ OnMessage(c) \/ OnClose(c)
          \/ Upgrade(c) \/ OnSocketGone(c) \/ ConnectionFails(c)

Spec == Init /\ [][Next]_vars

\* The browser runs timers and reports what happens to a socket; an upgrade
\* that reaches the server is answered.
Fairness ==
    /\ WF_vars(TimerFires)
    /\ \A c \in Connection :
          WF_vars(OnOpen(c)) /\ WF_vars(OnClose(c)) /\ WF_vars(Upgrade(c))

FairSpec == Spec /\ Fairness

-----------------------------------------------------------------------------
(* Properties.                                                             *)

\* The page never holds two connections, nor a connection and a timer that
\* will open another.
OneConnection ==
    /\ \A c, d \in Live : c = d
    /\ Live \subseteq {socket}
    /\ timer => socket = NoConnection

\* Once the disposer has run, nothing is left that could connect again: the
\* close event of the socket it closed, which comes after it, starts no timer.
DisposedIsQuiet == stopped => ~timer /\ Live = {}

\* The bus sees events in the order of their broadcast and none twice,
\* though the server may hold the socket before last next to the current one.
EventsInOrder ==
    \A i \in 1..(Len(received) - 1) : received[i] < received[i + 1]

\* A server the page could attach to, and an id for the next connection.
Reachable ==
    up /\ ~stopped /\ pageToken = serverToken
       /\ (socket = NoConnection => \E c \in Connection : Free(c))

\* A page comes back by itself after any finite number of failures and
\* restarts, and stays attached.
Reattaches ==
    <>[]Reachable => <>[](socket \in clients /\ link[socket] = "open")

\* What the page's FATAL_CLOSE_CODES says: a refused token is not retried,
\* because it is not going to change while the page is open.
RefusedTokenIsNotRetried ==
    [][refused => \A c \in Connection : link'[c] = "upgrading" => link[c] = "upgrading"]_vars

=============================================================================
