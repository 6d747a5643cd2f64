---------------------------- MODULE RelayClient ----------------------------
(***************************************************************************)
(* The relay client of src/src/relay/websocket-client.ts: a client object  *)
(* holds one socket (`ws`), reconnects by a timer when the socket closes,  *)
(* and tracks the requests it sent with a timer each.                      *)
(*                                                                         *)
(* One action per callback.  Sockets outlive the object's interest in      *)
(* them: after close() a socket is "closing" (or "aborting", when it was   *)
(* still connecting), its frames are still handled, and its 'close' event  *)
(* comes later, possibly when `ws` holds another socket or none.  Delays   *)
(* are abstracted: an armed timer may fire at any time.                    *)
(***************************************************************************)
EXTENDS Naturals, FiniteSets

CONSTANTS
    MaxClients,    \* bound: client objects
    MaxSockets,    \* bound: sockets opened by one client
    MaxRequests,   \* bound: requests sent by all clients together
    MaxProgress    \* bound: progress messages for one request

ASSUME RelayClientAssumption ==
    {MaxClients, MaxSockets, MaxRequests, MaxProgress} \subseteq Nat

Client == 1 .. MaxClients
Socket == Client \X (1 .. MaxSockets)   \* the sockets each client opens, in order
NoSocket == <<0, 0>>
Request == 1 .. MaxRequests
None == 0

VARIABLES
    state,          \* readyState of a socket, and "new" before it exists
    promise,        \* how connect() ended for the socket's attempt
    ws,             \* the client's current socket
    intentional,    \* intentionalClose
    registered,
    reconnect,      \* reconnectTimer is armed
    ping,           \* the ping interval is running
    draining,       \* disconnect() waits for pending requests
    pending,        \* the client that tracks the request
    timers,         \* timers armed for the request
    progress,       \* progress messages seen
    outcome         \* how the caller's promise ended

socketVars == <<state, promise>>
clientVars == <<ws, intentional, registered, reconnect, ping, draining>>
requestVars == <<pending, timers, progress, outcome>>
relayClientVars == <<socketVars, clientVars, requestVars>>

Failure == {"timeout", "closed", "error"}
Final == {"ok", "error", "timeout", "dropped", "refused"}

RelayClientTypeOK ==
    /\ state \in [Socket -> {"new", "connecting", "aborting", "open", "closing", "closed"}]
    /\ promise \in [Socket -> {"none", "pending", "ok"} \cup Failure]
    /\ ws \in [Client -> Socket \cup {NoSocket}]
    /\ intentional \in [Client -> BOOLEAN] /\ registered \in [Client -> BOOLEAN]
    /\ reconnect \in [Client -> BOOLEAN]
    /\ ping \in [Client -> BOOLEAN] /\ draining \in [Client -> BOOLEAN]
    /\ pending \in [Request -> Client \cup {None}]
    /\ timers \in [Request -> 0 .. MaxProgress + 1]
    /\ progress \in [Request -> 0 .. MaxProgress]
    /\ outcome \in [Request -> {"none", "waiting"} \cup Final]

RelayClientInit ==
    /\ state = [s \in Socket |-> "new"]
    /\ promise = [s \in Socket |-> "none"]
    /\ ws = [c \in Client |-> NoSocket]
    /\ intentional = [c \in Client |-> FALSE]
    /\ registered = [c \in Client |-> FALSE]
    /\ reconnect = [c \in Client |-> FALSE]
    /\ ping = [c \in Client |-> FALSE]
    /\ draining = [c \in Client |-> FALSE]
    /\ pending = [r \in Request |-> None]
    /\ timers = [r \in Request |-> 0]
    /\ progress = [r \in Request |-> 0]
    /\ outcome = [r \in Request |-> "none"]

-----------------------------------------------------------------------------
(* Connecting                                                              *)

Owner(s) == s[1]    \* the client whose handlers are attached to the socket
Opened(c) == {s \in Socket : Owner(s) = c /\ state[s] # "new"}
Fresh(c) == <<c, Cardinality(Opened(c)) + 1>>
Live(s) == state[s] \in {"connecting", "open"}
Speaks(s) == state[s] \in {"open", "closing"}
Tracked(c) == {r \in Request : pending[r] = c}

\* A socket after close() or terminate().
Closed(st) == CASE st = "connecting" -> "aborting"
                [] st = "open" -> "closing"
                [] OTHER -> st
CloseWs(c) == [s \in Socket |-> IF s = ws[c] THEN Closed(state[s]) ELSE state[s]]

\* connect(): a fresh socket replaces `ws`.
Connect(c) ==
    /\ Fresh(c) \in Socket
    /\ state' = [state EXCEPT ![Fresh(c)] = "connecting"]
    /\ promise' = [promise EXCEPT ![Fresh(c)] = "pending"]
    /\ ws' = [ws EXCEPT ![c] = Fresh(c)]
    /\ intentional' = [intentional EXCEPT ![c] = FALSE]
    /\ registered' = [registered EXCEPT ![c] = FALSE]

\* The reconnect timer fires.
Reconnect(c) ==
    /\ reconnect[c]
    /\ reconnect' = [reconnect EXCEPT ![c] = FALSE]
    /\ Connect(c)
    /\ UNCHANGED <<ping, draining, requestVars>>

\* 'open': the ping interval starts and the registration is sent.
Open(s) ==
    /\ state[s] = "connecting"
    /\ state' = [state EXCEPT ![s] = "open"]
    /\ ping' = [ping EXCEPT ![Owner(s)] = TRUE]
    /\ UNCHANGED <<promise, ws, intentional, registered, reconnect,
                   draining, requestVars>>

Settle(s, how) ==
    promise' = [promise EXCEPT ![s] = IF @ = "pending" THEN how ELSE @]

\* The relay acknowledges the registration.
Registered(s) ==
    /\ Speaks(s) /\ promise[s] \in {"pending", "timeout"}
    /\ registered' = [registered EXCEPT ![Owner(s)] = TRUE]
    /\ Settle(s, "ok")
    /\ UNCHANGED <<state, ws, intentional, reconnect, ping, draining, requestVars>>

\* Seeded fault: the close handler reconnects only what was registered.
ReschedulesRegistered(c) == registered[c] /\ ~intentional[c]
Reschedules(c) == ~intentional[c]

\* The 'close' handler: cleanup(), then scheduleReconnect() unless the client
\* closed on purpose.  It acts on the client, whatever socket `ws` holds now.
OnClose(s) ==
    LET c == Owner(s)
    IN /\ state' = [state EXCEPT ![s] = "closed"]
       /\ registered' = [registered EXCEPT ![c] = FALSE]
       /\ ping' = [ping EXCEPT ![c] = FALSE]
       /\ reconnect' = [reconnect EXCEPT ![c] = @ \/ Reschedules(c)]
       /\ UNCHANGED <<ws, intentional, draining, requestVars>>

\* A failed or aborted handshake emits 'error' and then 'close'.
HandshakeFails(s) ==
    /\ state[s] \in {"connecting", "aborting"}
    /\ Settle(s, "error")
    /\ OnClose(s)

\* An open socket closes: the relay or the network closed it, or close() did.
SocketCloses(s) ==
    /\ state[s] \in {"open", "closing"}
    /\ IF intentional[Owner(s)] THEN UNCHANGED promise ELSE Settle(s, "closed")
    /\ OnClose(s)

\* Ten seconds without a registration: the attempt fails, `ws` is closed.
ConnectTimeout(s) ==
    /\ promise[s] = "pending"
    /\ Settle(s, "timeout")
    /\ state' = CloseWs(Owner(s))
    /\ UNCHANGED <<clientVars, requestVars>>

\* Seeded fault: a missing pong starts a reconnect beside the old socket.
PongTimeoutReconnects(c) ==
    /\ ping[c] /\ ws[c] # NoSocket
    /\ reconnect' = [reconnect EXCEPT ![c] = TRUE]
    /\ UNCHANGED <<socketVars, ws, intentional, registered, ping, draining, requestVars>>

\* A ping sent on `ws` brings no pong in 15 s: `ws` is terminated, and its
\* close event will reconnect.
PongTimeout(c) ==
    /\ ping[c] /\ ws[c] # NoSocket
    /\ state' = CloseWs(c)
    /\ UNCHANGED <<promise, clientVars, requestVars>>

-----------------------------------------------------------------------------
(* Requests                                                                *)

IsConnected(c) == ws[c] # NoSocket /\ state[ws[c]] = "open" /\ registered[c]

\* request(): refused unless connected and registered.
Send(c, r) ==
    /\ outcome[r] = "none"
    /\ IF IsConnected(c)
       THEN /\ pending' = [pending EXCEPT ![r] = c]
            /\ timers' = [timers EXCEPT ![r] = 1]
            /\ outcome' = [outcome EXCEPT ![r] = "waiting"]
       ELSE /\ outcome' = [outcome EXCEPT ![r] = "refused"]
            /\ UNCHANGED <<pending, timers>>
    /\ UNCHANGED progress

\* Requests rs leave the map: timer cleared, promise settled.
Leave(rs, how) ==
    /\ pending' = [r \in Request |-> IF r \in rs THEN None ELSE pending[r]]
    /\ timers' = [r \in Request |-> IF r \in rs THEN timers[r] - 1 ELSE timers[r]]
    /\ outcome' = [r \in Request |-> IF r \in rs THEN how ELSE outcome[r]]
    /\ UNCHANGED progress

\* A response, or an error naming the request, over any socket of the client.
Answer(s, r, how) ==
    /\ Speaks(s) /\ pending[r] = Owner(s)
    /\ Leave({r}, how)
    /\ UNCHANGED <<socketVars, clientVars>>

\* Seeded fault: the progress handler does not arm another timer.
RearmedNever(n) == n - 1
\* The old timer is cleared and a new one armed.
Rearmed(n) == (n - 1) + 1

Progress(s, r) ==
    /\ Speaks(s) /\ pending[r] = Owner(s)
    /\ progress[r] < MaxProgress
    /\ progress' = [progress EXCEPT ![r] = @ + 1]
    /\ timers' = [timers EXCEPT ![r] = Rearmed(@)]
    /\ UNCHANGED <<socketVars, clientVars, pending, outcome>>

\* The request's timer fires: it is forgotten and its promise rejected.
RequestTimeout(r) ==
    /\ timers[r] > 0
    /\ timers' = [timers EXCEPT ![r] = @ - 1]
    /\ pending' = [pending EXCEPT ![r] = None]
    /\ outcome' = [outcome EXCEPT ![r] = IF @ = "waiting" THEN "timeout" ELSE @]
    /\ UNCHANGED <<socketVars, clientVars, progress>>

-----------------------------------------------------------------------------
(* Disconnecting                                                           *)

\* The end of disconnect(): close `ws`, reject what is still pending.  The
\* reconnect timer is not cleared.
Finish(c) ==
    /\ state' = CloseWs(c)
    /\ ws' = [ws EXCEPT ![c] = NoSocket]
    /\ Leave(Tracked(c), "dropped")
    /\ UNCHANGED <<promise, reconnect>>

Cleanup(c) ==
    /\ intentional' = [intentional EXCEPT ![c] = TRUE]
    /\ ping' = [ping EXCEPT ![c] = FALSE]
    /\ registered' = [registered EXCEPT ![c] = FALSE]

Disconnect(c) ==
    /\ ~draining[c]
    /\ Cleanup(c) /\ Finish(c)
    /\ UNCHANGED draining

\* disconnect(drainTimeoutMs) with requests pending.
Drain(c) ==
    /\ ~draining[c] /\ Tracked(c) # {}
    /\ Cleanup(c)
    /\ draining' = [draining EXCEPT ![c] = TRUE]
    /\ UNCHANGED <<socketVars, ws, reconnect, requestVars>>

\* All pending requests ended, or the drain timeout passed.
Drained(c) ==
    /\ draining[c]
    /\ draining' = [draining EXCEPT ![c] = FALSE]
    /\ Finish(c)
    /\ UNCHANGED <<intentional, registered, ping>>

-----------------------------------------------------------------------------
(* What the sockets, the relay and the timers do, for any user             *)

NetworkStep(s) ==
    \/ Open(s) \/ Registered(s) \/ HandshakeFails(s) \/ SocketCloses(s)

TimerStep ==
    \/ \E s \in Socket : ConnectTimeout(s)
    \/ \E c \in Client : Reconnect(c) \/ PongTimeout(c)
    \/ \E r \in Request : RequestTimeout(r)

-----------------------------------------------------------------------------
(* Properties of the client                                                *)

\* At every moment a request waits exactly when the client tracks it, and it
\* has exactly one armed timer: progress re-arms it, an answer or disconnect()
\* clears it, and nothing fires for a request that has ended
\* (websocket-client.ts:223, :371, :397).
TimersMatchPending ==
    \A r \in Request :
       /\ (outcome[r] = "waiting") = (pending[r] # None)
       /\ timers[r] = IF pending[r] # None THEN 1 ELSE 0

\* A client never holds two live sockets: a reconnect starts only when the
\* socket before it is on its way out, so none is overwritten and leaked
\* (websocket-client.ts:106, :459).
OneLiveSocket ==
    \A c \in Client : \A s, t \in Socket :
       Owner(s) = c /\ Owner(t) = c /\ Live(s) /\ Live(t) => s = t /\ ws[c] = s

\* A client that was started and not told to leave is never stranded: it has a
\* socket whose end is still to come, or an armed reconnect timer, whatever
\* ended the sockets before (websocket-client.ts:137, :160, :428, :461).
NeverStranded ==
    \A c \in Client :
       Opened(c) # {} /\ ~intentional[c] =>
          \/ reconnect[c]
          \/ \E s \in Opened(c) : state[s] # "closed"

\* The client takes itself for connected only on the socket that registered:
\* a request is never sent over a socket the relay does not know
\* (websocket-client.ts:215).
ConnectedIsRegistered ==
    \A c \in Client : IsConnected(c) => promise[ws[c]] = "ok"

=============================================================================
