--------------------------- MODULE RelayDispatch ---------------------------
(***************************************************************************)
(* The two ways a node uses RelayClient:                                   *)
(*                                                                         *)
(*   "service"   the daemon keeps one client for its life                  *)
(*               (src/src/runtime/service-coordinator.ts): it connects     *)
(*               once, lets the client reconnect, sends requests and       *)
(*               disconnects at shutdown;                                  *)
(*   "dispatch"  requestViaTemporaryRelay                                  *)
(*               (src/src/gateway/relay-dispatch.ts): a fresh client per   *)
(*               attempt sends one request; failures that look transient   *)
(*               are tried again.                                          *)
(*                                                                         *)
(* The relay is external here (RelayServer models it): `relay` is what it  *)
(* did with a request's escrow and `reply` the answer on its way.  Attempt *)
(* i uses client i and request i.                                          *)
(***************************************************************************)
EXTENDS RelayClient

CONSTANT MaxAttempts    \* MAX_ATTEMPTS

ASSUME DispatchAssumption ==
    /\ MaxAttempts \in Nat \ {0}
    /\ MaxAttempts <= MaxClients /\ MaxAttempts <= MaxRequests

VARIABLES
    user,       \* who drives the clients
    phase,      \* where the user is
    attempt,
    relay,      \* the request's escrow at the relay
    reply       \* the answer sent for the request

userVars == <<user, phase, attempt>>
farVars == <<relay, reply>>
dispatchVars == <<relayClientVars, userVars, farVars>>

Attempt == 1 .. MaxAttempts
\* What a failed answer says: no provider is connected, the provider's
\* connection broke, its skill failed, or the relay timed it out.
ErrorReply == {"offline", "gone", "failed", "timeout"}

DispatchTypeOK ==
    /\ RelayClientTypeOK
    /\ user \in {"service", "dispatch"}
    /\ phase \in {"idle", "connecting", "requesting", "backoff", "returned", "threw"}
    /\ attempt \in 0 .. MaxAttempts
    /\ relay \in [Request -> {"none", "held", "settled", "released", "refused"}]
    /\ reply \in [Request -> {"none", "ok"} \cup ErrorReply]

DispatchInit ==
    /\ RelayClientInit
    /\ user \in {"service", "dispatch"}
    /\ phase = "idle" /\ attempt = 0
    /\ relay = [r \in Request |-> "none"]
    /\ reply = [r \in Request |-> "none"]

\* The socket of connect()'s first, and only awaited, attempt.
TheSocket == <<attempt, 1>>

\* A settled promise is continued before the process handles anything else.
Due ==
    /\ user = "dispatch"
    /\ \/ phase = "connecting" /\ promise[TheSocket] # "pending"
       \/ phase = "requesting" /\ outcome[attempt] # "waiting"

-----------------------------------------------------------------------------
(* The relay and the provider (external)                                   *)

\* A request on its way is held and forwarded, or refused at once.
RelayTakes(r) ==
    /\ outcome[r] \notin {"none", "refused"} /\ relay[r] = "none"
    /\ \/ /\ relay' = [relay EXCEPT ![r] = "held"]
          /\ UNCHANGED reply
       \/ /\ relay' = [relay EXCEPT ![r] = "refused"]
          /\ reply' = [reply EXCEPT ![r] = "offline"]
    /\ UNCHANGED <<relayClientVars, userVars>>

\* The provider did the work, or its answer, its connection or a timer says
\* otherwise: the relay settles or releases the escrow and answers in the same callback.
RelayAnswers(r) ==
    /\ relay[r] = "held"
    /\ \/ /\ relay' = [relay EXCEPT ![r] = "settled"]
          /\ reply' = [reply EXCEPT ![r] = "ok"]
       \/ /\ relay' = [relay EXCEPT ![r] = "released"]
          /\ \E e \in {"gone", "failed", "timeout"} : reply' = [reply EXCEPT ![r] = e]
    /\ UNCHANGED <<relayClientVars, userVars>>

\* The answer arrives over a socket of the client, once.
AnswerArrives(s, r) ==
    /\ ~Due /\ reply[r] # "none"
    /\ Answer(s, r, IF reply[r] = "ok" THEN "ok" ELSE "error")
    /\ UNCHANGED <<userVars, farVars>>

ProgressArrives(s, r) ==
    /\ ~Due /\ relay[r] = "held"
    /\ Progress(s, r)
    /\ UNCHANGED <<userVars, farVars>>

-----------------------------------------------------------------------------
(* The daemon's client                                                     *)

ServiceStart ==
    /\ user = "service" /\ phase = "idle"
    /\ phase' = "requesting"
    /\ Connect(1)
    /\ UNCHANGED <<reconnect, ping, draining, requestVars, user, attempt, farVars>>

ServiceSend(r) ==
    /\ user = "service" /\ phase = "requesting"
    /\ Send(1, r)
    /\ UNCHANGED <<socketVars, clientVars, userVars, farVars>>

ServiceStop ==
    /\ user = "service" /\ phase = "requesting"
    /\ phase' = "returned"
    /\ Disconnect(1) \/ Drain(1)
    /\ UNCHANGED <<user, attempt, farVars>>

-----------------------------------------------------------------------------
(* requestViaTemporaryRelay                                                *)

\* Seeded fault: a timeout is retried like a connection failure.
RetryableTimeouts(kind) == kind \in {"connect", "offline", "timeout"}
\* RETRYABLE_KINDS.
Retryable(kind) == kind \in {"connect", "offline"}

\* classifyRelayError on the rejection of connect(): a refused connection and
\* 'Connection timeout' hold the substring "connect", a rejected upgrade and
\* 'WebSocket closed before registration' hold none of the substrings.
ConnectKinds(how) ==
    CASE how = "timeout" -> {"connect"}
      [] how = "error" -> {"connect", "other"}
      [] how = "closed" -> {"other"}

\* classifyRelayError on an error the relay answered: 'Provider disconnected'
\* holds "connect"; a skill's own message may hold any substring.
AnswerKinds(answer) ==
    CASE answer = "offline" -> {"offline"}
      [] answer = "gone" -> {"connect"}
      [] answer = "timeout" -> {"timeout"}
      [] OTHER -> {"connect", "offline", "timeout", "other"}

\* classifyRelayError on the rejection of request(): 'Not connected to ...'
\* and 'Client disconnected' hold "connect".
RequestKinds(r) ==
    CASE outcome[r] = "timeout" -> {"timeout"}
      [] outcome[r] \in {"refused", "dropped"} -> {"connect"}
      [] outcome[r] = "error" -> AnswerKinds(reply[r])

\* The loop's next turn: a new client connects.
Try ==
    /\ user = "dispatch" /\ phase \in {"idle", "backoff"}
    /\ attempt < MaxAttempts
    /\ attempt' = attempt + 1
    /\ phase' = "connecting"
    /\ Connect(attempt + 1)
    /\ UNCHANGED <<reconnect, ping, draining, requestVars, user, farVars>>

\* The continuation of a failure of the given kind.
RetryOrThrow(kind) ==
    phase' = IF Retryable(kind) /\ attempt < MaxAttempts THEN "backoff" ELSE "threw"

ConnectRejected ==
    /\ user = "dispatch" /\ phase = "connecting"
    /\ promise[TheSocket] \in Failure
    /\ Disconnect(attempt)
    /\ \E kind \in ConnectKinds(promise[TheSocket]) : RetryOrThrow(kind)
    /\ UNCHANGED <<user, attempt, farVars>>

\* connect() resolved: the request goes out in the same continuation.
ConnectResolved ==
    /\ user = "dispatch" /\ phase = "connecting"
    /\ promise[TheSocket] = "ok"
    /\ Send(attempt, attempt)
    /\ phase' = "requesting"
    /\ UNCHANGED <<socketVars, clientVars, user, attempt, farVars>>

RequestResolved ==
    /\ user = "dispatch" /\ phase = "requesting"
    /\ outcome[attempt] = "ok"
    /\ Disconnect(attempt)
    /\ phase' = "returned"
    /\ UNCHANGED <<user, attempt, farVars>>

\* The request failed: `finally` disconnects on every path.
RequestRejected ==
    /\ user = "dispatch" /\ phase = "requesting"
    /\ outcome[attempt] \in Final \ {"ok"}
    /\ Disconnect(attempt)
    /\ \E kind \in RequestKinds(attempt) : RetryOrThrow(kind)
    /\ UNCHANGED <<user, attempt, farVars>>

-----------------------------------------------------------------------------

Loop == Try \/ ConnectRejected \/ ConnectResolved \/ RequestResolved \/ RequestRejected
Clients ==
    /\ ~Due
    /\ \/ \E s \in Socket : NetworkStep(s)
       \/ TimerStep
       \/ \E c \in Client : Drained(c)
    /\ UNCHANGED <<userVars, farVars>>
DispatchNext ==
    \/ Loop
    \/ ServiceStart \/ ServiceStop \/ \E r \in Request : ServiceSend(r)
    \/ Clients
    \/ \E r \in Request : RelayTakes(r) \/ RelayAnswers(r)
    \/ \E r \in Request, s \in Socket : AnswerArrives(s, r) \/ ProgressArrives(s, r)

\* Timers fire, the drain ends, a handshake ends one way or another, and the
\* loop runs its continuations.  Nothing is assumed of the relay.
DispatchFairness ==
    /\ WF_dispatchVars(Loop)
    /\ \A s \in Socket :
          WF_dispatchVars(ConnectTimeout(s) /\ UNCHANGED <<userVars, farVars>>)
    /\ \A r \in Request :
          WF_dispatchVars(RequestTimeout(r) /\ UNCHANGED <<userVars, farVars>>)
    /\ \A c \in Client : WF_dispatchVars(Drained(c) /\ UNCHANGED <<userVars, farVars>>)

DispatchSpec == DispatchInit /\ [][DispatchNext]_dispatchVars /\ DispatchFairness

-----------------------------------------------------------------------------
(* Properties                                                              *)

\* One call pays at most once, however often it retries, and a call that
\* returns a result has paid for exactly the attempt that produced it: only
\* failures after which the relay gave the credits back are tried again, so
\* that no attempt begins while an earlier one can still be charged
\* (relay-dispatch.ts:54, :191).
PaidOnce ==
    user = "dispatch" =>
       /\ Cardinality({i \in Attempt : relay[i] = "settled"}) <= 1
       /\ \A i \in Attempt : i < attempt => relay[i] \notin {"held", "settled"}
       /\ phase = "returned" => relay[attempt] = "settled"

\* What the client keeps is in step, in every interleaving of socket events:
\* each pending request has its timer and a caller, one socket is live, and a
\* connected client is one the relay knows (websocket-client.ts:36-47, :334).
DispatchInv ==
    /\ DispatchTypeOK
    /\ TimersMatchPending /\ OneLiveSocket /\ ConnectedIsRegistered

\* Every request the daemon's client sent ends, across reconnects and a
\* draining shutdown.
RequestsEnd == \A r \in Request : (outcome[r] = "waiting") ~> (outcome[r] \in Final)

=============================================================================
