---------------------------- MODULE RelayServer ----------------------------
(***************************************************************************)
(* The WebSocket relay of the registry: registerWebSocketRelay in          *)
(* src/src/relay/websocket-relay.ts.  Agents register a socket under their *)
(* owner name; a requester's relay_request is forwarded to the provider's  *)
(* socket while its price waits in escrow; relay_started, relay_progress   *)
(* and relay_response come back, or a timer or a disconnect ends it.       *)
(*                                                                         *)
(* Node runs one callback at a time, so a message handler, a timer         *)
(* callback and a socket event are one action each.  What interleaves is   *)
(* their order: a 'close' event comes some time after close(), a timer     *)
(* fires any time after it was armed, and messages of a replaced socket    *)
(* still arrive.                                                           *)
(*                                                                         *)
(* Request ids are fresh (every client draws a randomUUID).  The escrow of *)
(* a request stands for its row in credit_escrow and follows CreditLedger. *)
(***************************************************************************)
EXTENDS Naturals, FiniteSets

CONSTANTS
    Owner,        \* connection keys
    Ephemeral,    \* those containing ':req:', which have no card
    AgentKey,     \* agent ids that route to a connection key
    Socket,
    Request,
    None,
    RateMax,      \* RATE_LIMIT_MAX, requests per window
    MaxRestarts   \* bound: restarts of the relay process

ASSUME RelayAssumption ==
    /\ Ephemeral \subseteq Owner
    /\ None \notin Owner \cup Socket
    /\ Owner \cap AgentKey = {}
    /\ RateMax \in Nat /\ MaxRestarts \in Nat

VARIABLES
    state,        \* readyState of a socket: "new", "open", "closing", "closed"
    registered,   \* registeredOwner of a socket
    connections,  \* socket of an owner
    keyOwner,     \* agentIdToOwner
    rate,         \* requests of an owner in the current window
    online,       \* owners whose cards are marked online in the registry
    pending,      \* pendingRequests
    timers,       \* the timers armed for a request
    sentTo,       \* owner the request was forwarded to
    escrow,       \* status of the request's escrow row
    fee,          \* the conductor fee of the request was charged
    answers,      \* responses sent to the requester
    outcome,      \* how the request ended
    restarts

relayVars == <<state, registered, connections, keyOwner, rate, online, pending,
               timers, sentTo, escrow, fee, answers, outcome, restarts>>
socketVars == <<state, registered, connections, keyOwner, rate, online>>
requestVars == <<pending, timers, sentTo, escrow, fee, answers, outcome>>

Lifecycle == {"held", "started", "progressing", "abandoned"}
PendingRequest == [origin : Owner, target : Owner, lifecycle : Lifecycle]

ASSUME NothingIsPending == None \notin PendingRequest

Live == {"held", "started", "progressing", "abandoned"}
Outcome == {"none", "refused", "ok", "error", "timeout", "gone", "lost"}

RelayTypeOK ==
    /\ state \in [Socket -> {"new", "open", "closing", "closed"}]
    /\ registered \in [Socket -> Owner \cup {None}]
    /\ connections \in [Owner -> Socket \cup {None}]
    /\ keyOwner \in [AgentKey -> Owner \cup {None}]
    /\ rate \in [Owner -> 0 .. RateMax]
    /\ online \in SUBSET (Owner \ Ephemeral)
    /\ pending \in [Request -> PendingRequest \cup {None}]
    /\ timers \in [Request -> SUBSET {"idle", "hard", "grace"}]
    /\ sentTo \in [Request -> Owner \cup {None}]
    /\ escrow \in [Request -> Live \cup {"none", "settled", "released"}]
    /\ fee \in [Request -> BOOLEAN]
    /\ answers \in [Request -> Nat]
    /\ outcome \in [Request -> Outcome]
    /\ restarts \in 0 .. MaxRestarts

RelayInit ==
    /\ state = [s \in Socket |-> "new"]
    /\ registered = [s \in Socket |-> None]
    /\ connections = [o \in Owner |-> None]
    /\ keyOwner = [k \in AgentKey |-> None]
    /\ rate = [o \in Owner |-> 0]
    /\ online = {}
    /\ pending = [r \in Request |-> None]
    /\ timers = [r \in Request |-> {}]
    /\ sentTo = [r \in Request |-> None]
    /\ escrow = [r \in Request |-> "none"]
    /\ fee = [r \in Request |-> FALSE]
    /\ answers = [r \in Request |-> 0]
    /\ outcome = [r \in Request |-> "none"]
    /\ restarts = 0

-----------------------------------------------------------------------------
(* Helpers                                                                 *)

Pending == {r \in Request : pending[r] # None}

\* A socket whose frames still reach the message handler.
Speaks(s) == state[s] \in {"open", "closing"}

\* The owner has a connection the relay can send on (readyState === 1).
Reachable(o) == connections[o] # None /\ state[connections[o]] = "open"

\* resolveConnectionKey: an agent id's owner first, then the name itself.
Resolve(target) ==
    IF target \in AgentKey
    THEN IF keyOwner[target] # None /\ connections[keyOwner[target]] # None
         THEN keyOwner[target] ELSE None
    ELSE IF connections[target] # None THEN target ELSE None

\* markEscrow*: refused (and the refusal logged) out of the wrong status.
Marked(status, from, to) == IF status \in from THEN to ELSE status

\* Seeded faults: FINALIZABLE_ESCROW_STATUSES lacks 'abandoned'; a request
\* without an escrow is finalised too.
FinalizedNotAbandoned(status, to) ==
    IF status \in Live \ {"abandoned"} THEN to ELSE status
FinalizedAnything(status, to) == to

\* settleEscrow, releaseEscrow: only a live escrow is finalised.
Finalized(status, to) == IF status \in Live THEN to ELSE status

\* checkRateLimit.
Admitted(o) == rate[o] < RateMax

\* Seeded fault: pendingRequests.delete is forgotten.
EndKeepsPending(R, how, final, answered) ==
    /\ UNCHANGED <<pending, timers, sentTo>>
    /\ escrow' = [r \in Request |->
                    IF r \in R THEN Finalized(escrow[r], final) ELSE escrow[r]]
    /\ answers' = [r \in Request |->
                    IF r \in answered THEN answers[r] + 1 ELSE answers[r]]
    /\ outcome' = [r \in Request |-> IF r \in R THEN how ELSE outcome[r]]

\* pendingRequests.delete, clearPendingTimers, escrow and answer, for the
\* requests of set R that end in the same callback.
End(R, how, final, answered) ==
    /\ pending' = [r \in Request |-> IF r \in R THEN None ELSE pending[r]]
    /\ timers' = [r \in Request |-> IF r \in R THEN {} ELSE timers[r]]
    /\ escrow' = [r \in Request |->
                    IF r \in R THEN Finalized(escrow[r], final) ELSE escrow[r]]
    /\ answers' = [r \in Request |->
                    IF r \in answered THEN answers[r] + 1 ELSE answers[r]]
    /\ outcome' = [r \in Request |-> IF r \in R THEN how ELSE outcome[r]]
    /\ UNCHANGED sentTo

\* The requests of R whose requester can be sent the response.
Answerable(R) == {r \in R : Reachable(pending[r].origin)}

-----------------------------------------------------------------------------
(* Sockets                                                                 *)

Connect(s) ==
    /\ state[s] = "new"
    /\ state' = [state EXCEPT ![s] = "open"]
    /\ UNCHANGED <<registered, connections, keyOwner, rate, online,
                   requestVars, restarts>>

\* handleRegister with a valid token: a second socket of the same owner
\* replaces the first, whose 'close' event is still to come.  A socket may
\* register again under another owner: registeredOwner is overwritten, and
\* what the relay keeps under the first name stays.
Register(s, o, keys) ==
    LET existing == connections[o]
    IN  /\ Speaks(s)
        /\ state' = IF existing \notin {None, s} /\ state[existing] = "open"
                    THEN [state EXCEPT ![existing] = "closing"] ELSE state
        /\ registered' = [registered EXCEPT ![s] = o]
        /\ connections' = [connections EXCEPT ![o] = s]
        /\ keyOwner' = [k \in AgentKey |-> IF k \in keys THEN o ELSE keyOwner[k]]
        /\ online' = IF o \in Ephemeral THEN online ELSE online \cup {o}
        /\ UNCHANGED <<rate, requestVars, restarts>>

\* The requests a disconnect of o fails, and the routes it leaves.
Failed(o) == {r \in Pending : pending[r].target = o}

\* Seeded fault: the agent ids stay routed.
RoutesKept(o) == keyOwner
RoutesWithout(o) ==
    [k \in AgentKey |-> IF keyOwner[k] = o THEN None ELSE keyOwner[k]]

\* handleDisconnect(o): whatever socket it was, the owner's entry goes, every
\* request to the owner fails, and every request of the owner is refunded
\* when its provider has not started, and abandoned when it has.
Disconnect(o) ==
    LET failed == Failed(o)
        own == {r \in Pending \ failed : pending[r].origin = o}
        refunded == {r \in own : pending[r].lifecycle = "held"}
        kept == {r \in own \ refunded : pending[r].lifecycle # "abandoned"}
        ended == failed \cup refunded
        told == {r \in failed : pending[r].origin # o
                                /\ Reachable(pending[r].origin)}
    IN  /\ connections' = [connections EXCEPT ![o] = None]
        /\ keyOwner' = RoutesWithout(o)
        /\ rate' = [rate EXCEPT ![o] = 0]
        /\ online' = online \ {o}
        /\ pending' = [r \in Request |->
              IF r \in ended THEN None
              ELSE IF r \in kept
                   THEN [pending[r] EXCEPT !.lifecycle = "abandoned"]
                   ELSE pending[r]]
        /\ timers' = [r \in Request |->
              IF r \in ended THEN {}
              ELSE IF r \in kept THEN {"grace"} ELSE timers[r]]
        /\ escrow' = [r \in Request |->
              IF r \in ended THEN Finalized(escrow[r], "released")
              ELSE IF r \in kept
                   THEN Marked(escrow[r], {"started", "progressing", "abandoned"},
                               "abandoned")
                   ELSE escrow[r]]
        /\ answers' = [r \in Request |->
              IF r \in told THEN answers[r] + 1 ELSE answers[r]]
        /\ outcome' = [r \in Request |-> IF r \in ended THEN "gone"
                                         ELSE outcome[r]]
        /\ UNCHANGED <<sentTo, fee>>

\* The 'close' event of a socket, whichever side closed it.
SocketClosed(s) ==
    /\ state[s] \in {"open", "closing"}
    /\ state' = [state EXCEPT ![s] = "closed"]
    /\ IF registered[s] = None
       THEN UNCHANGED <<connections, keyOwner, rate, online, requestVars>>
       ELSE Disconnect(registered[s])
    /\ UNCHANGED <<registered, restarts>>

\* The 'error' event runs the same handler; the 'close' event follows.
SocketError(s) ==
    /\ state[s] = "open"
    /\ state' = [state EXCEPT ![s] = "closing"]
    /\ IF registered[s] = None
       THEN UNCHANGED <<connections, keyOwner, rate, online, requestVars>>
       ELSE Disconnect(registered[s])
    /\ UNCHANGED <<registered, restarts>>

\* The rate limit entry of an owner passes its resetTime.
WindowPasses(o) ==
    /\ rate[o] > 0
    /\ rate' = [rate EXCEPT ![o] = 0]
    /\ UNCHANGED <<state, registered, connections, keyOwner, online,
                   requestVars, restarts>>

-----------------------------------------------------------------------------
(* Requests                                                                *)

\* handleRelayRequest up to its early returns: the target is not reachable,
\* or the credit hold found too few credits.
RefuseRequest(s, r) ==
    LET from == registered[s]
    IN  /\ from # None /\ Speaks(s)
        /\ outcome[r] = "none" /\ sentTo[r] = None
        /\ Admitted(from)
        /\ rate' = [rate EXCEPT ![from] = @ + 1]
        /\ outcome' = [outcome EXCEPT ![r] = "refused"]
        /\ answers' = IF state[s] = "open" THEN [answers EXCEPT ![r] = @ + 1]
                                          ELSE answers
        /\ UNCHANGED <<state, registered, connections, keyOwner, online, pending,
                       timers, sentTo, escrow, fee, restarts>>

\* handleRelayRequest: hold the price (nothing, for a free card), track the
\* request under its idle timer, forward it.
ForwardRequest(s, r, target, priced) ==
    LET from == registered[s]
        to == Resolve(target)
    IN  /\ from # None /\ Speaks(s)
        /\ outcome[r] = "none" /\ sentTo[r] = None
        /\ Admitted(from)
        /\ to # None /\ Reachable(to)
        /\ rate' = [rate EXCEPT ![from] = @ + 1]
        /\ pending' = [pending EXCEPT ![r] =
              [origin |-> from, target |-> to, lifecycle |-> "held"]]
        /\ timers' = [timers EXCEPT ![r] = {"idle"}]
        /\ escrow' = [escrow EXCEPT ![r] = IF priced THEN "held" ELSE "none"]
        /\ sentTo' = [sentTo EXCEPT ![r] = to]
        /\ UNCHANGED <<state, registered, connections, keyOwner, online,
                       fee, answers, outcome, restarts>>

\* relay_started, relay_progress and relay_response are told apart by the
\* request's id alone: the relay does not ask which socket sent them, nor
\* whether it is registered.
FrameArrives == \E s \in Socket : Speaks(s)

\* transitionPendingToStarted on a held request.
Start(r, lifecycle, status) ==
    /\ pending' = [pending EXCEPT ![r].lifecycle = lifecycle]
    /\ timers' = [timers EXCEPT ![r] = {"hard"}]
    /\ escrow' = [escrow EXCEPT ![r] = status]

\* handleRelayStarted: a second one, or one after a progress message or the
\* requester's disconnect, changes nothing.
RelayStarted(r) ==
    /\ FrameArrives
    /\ pending[r] # None
    /\ pending[r].lifecycle = "held"
    /\ Start(r, "started", Marked(escrow[r], {"held", "started"}, "started"))
    /\ UNCHANGED <<socketVars, sentTo, fee, answers, outcome, restarts>>

\* handleRelayProgress: the first one on a held request also starts it; the
\* hard timer is armed once, and no later progress message arms it again.
RelayProgress(r) ==
    LET status == Marked(Marked(escrow[r], {"held", "started"}, "started"),
                         {"held", "started", "progressing"}, "progressing")
    IN  /\ FrameArrives
        /\ pending[r] # None
        /\ \/ /\ pending[r].lifecycle = "held"
              /\ Start(r, "progressing", status)
           \/ /\ pending[r].lifecycle \in {"started", "progressing"}
              /\ pending' = [pending EXCEPT ![r].lifecycle = "progressing"]
              /\ escrow' = [escrow EXCEPT ![r] = Marked(@,
                              {"held", "started", "progressing"}, "progressing")]
              /\ UNCHANGED timers
        /\ UNCHANGED <<socketVars, sentTo, fee, answers, outcome, restarts>>

\* handleRelayResponse with a result: settle, charge the conductor fee when
\* the result carries total_credits and the requester can pay it, answer.
ResponseOk(r, withFee) ==
    /\ FrameArrives
    /\ pending[r] # None
    /\ End({r}, "ok", "settled", Answerable({r}))
    /\ fee' = [fee EXCEPT ![r] = withFee]
    /\ UNCHANGED <<socketVars, restarts>>

\* Seeded fault: the two branches of the settlement are swapped.
ResponseErrorPays(r) ==
    /\ FrameArrives
    /\ pending[r] # None
    /\ End({r}, "error", "settled", Answerable({r}))
    /\ UNCHANGED <<socketVars, fee, restarts>>

\* handleRelayResponse with an error: refund, answer.
ResponseError(r) ==
    /\ FrameArrives
    /\ pending[r] # None
    /\ End({r}, "error", "released", Answerable({r}))
    /\ UNCHANGED <<socketVars, fee, restarts>>

-----------------------------------------------------------------------------
(* Timers: each callback looks the request up again and may find it gone   *)
(* or in another phase.                                                    *)

Lapse(r, timer, phases, answered) ==
    /\ timer \in timers[r]
    /\ IF pending[r] # None /\ pending[r].lifecycle \in phases
       THEN End({r}, "timeout", "released", answered)
       ELSE /\ timers' = [timers EXCEPT ![r] = @ \ {timer}]
            /\ UNCHANGED <<pending, sentTo, escrow, answers, outcome>>
    /\ UNCHANGED <<socketVars, fee, restarts>>

IdleTimeout(r) == Lapse(r, "idle", {"held"}, Answerable({r} \cap Pending))

HardTimeout(r) ==
    Lapse(r, "hard", {"held", "started", "progressing"},
          Answerable({r} \cap Pending))

\* Seeded fault: the callback looks for the wrong phase.
GraceTimeoutMissed(r) == Lapse(r, "grace", {"progressing"}, {})

\* The requester is gone: nobody is answered.
GraceTimeout(r) == Lapse(r, "grace", {"abandoned"}, {})

-----------------------------------------------------------------------------
\* Escrows recoverOrphanedEscrows may release, each one that is more than
\* ten minutes old when the daemon starts.
Orphans == {r \in Request : escrow[r] \in {"held", "abandoned"}}

\* The daemon dies, or shutdown() runs, and starts again: the maps and the
\* timers are gone, the rows of credit_escrow and the online flags of the
\* cards stay, and AgentRuntime.start releases the old orphans.
Restart(old) ==
    /\ restarts < MaxRestarts
    /\ old \subseteq Orphans
    /\ restarts' = restarts + 1
    /\ state' = [s \in Socket |-> IF state[s] = "new" THEN "new" ELSE "closed"]
    /\ connections' = [o \in Owner |-> None]
    /\ keyOwner' = [k \in AgentKey |-> None]
    /\ rate' = [o \in Owner |-> 0]
    /\ pending' = [r \in Request |-> None]
    /\ timers' = [r \in Request |-> {}]
    /\ outcome' = [r \in Request |-> IF r \in Pending THEN "lost"
                                     ELSE outcome[r]]
    /\ escrow' = [r \in Request |->
                    IF r \in old THEN Finalized(escrow[r], "released")
                    ELSE escrow[r]]
    /\ UNCHANGED <<registered, online, sentTo, fee, answers>>

Traffic ==
    \/ \E s \in Socket : Connect(s) \/ SocketClosed(s) \/ SocketError(s)
    \/ \E s \in Socket, o \in Owner, keys \in SUBSET AgentKey : Register(s, o, keys)
    \/ \E o \in Owner : WindowPasses(o)
    \/ \E s \in Socket, r \in Request : RefuseRequest(s, r)
    \/ \E s \in Socket, r \in Request, target \in Owner \cup AgentKey :
          \E priced \in BOOLEAN : ForwardRequest(s, r, target, priced)
    \/ \E r \in Request :
          \/ RelayStarted(r)
          \/ RelayProgress(r)
          \/ \E withFee \in BOOLEAN : ResponseOk(r, withFee)
          \/ ResponseError(r)

TimerFires(r) == IdleTimeout(r) \/ HardTimeout(r) \/ GraceTimeout(r)

RelayNext ==
    \/ Traffic
    \/ \E r \in Request : TimerFires(r)
    \/ \E old \in SUBSET Request : Restart(old)

RelaySpec == RelayInit /\ [][RelayNext]_relayVars

\* setTimeout fires: the one fairness the relay itself provides.
FairRelaySpec == RelaySpec /\ \A r \in Request : WF_relayVars(TimerFires(r))

-----------------------------------------------------------------------------
(* Properties                                                              *)

\* Credits are tied up exactly for the requests the relay still tracks, and
\* the phase the relay remembers is the one the database stores: no order of
\* responses, timers and disconnects leaves one behind the other.
EscrowTracksPending ==
    \A r \in Request :
        /\ escrow[r] \in Live /\ outcome[r] # "lost"
              => pending[r] # None /\ pending[r].lifecycle = escrow[r]
        /\ pending[r] # None => escrow[r] \in Live \cup {"none"}

\* A tracked request has the timer of its phase armed, and no other; a
\* request that has ended has none (setPendingTimer, clearPendingTimers).
TimerOfPhase ==
    \A r \in Request :
        timers[r] = IF pending[r] = None THEN {}
                    ELSE CASE pending[r].lifecycle = "held" -> {"idle"}
                           [] pending[r].lifecycle = "abandoned" -> {"grace"}
                           [] OTHER -> {"hard"}

\* The relay has a socket of the owner.  It is a closed one only when that
\* socket has taken another name since: its close disconnected that name.
HasSocket(o) ==
    LET s == connections[o]
    IN  s # None /\ (state[s] = "closed" => registered[s] # o)

\* A request waits only for a provider the relay has a socket of: the close
\* of that socket fails the request (decisions.md:256), unless the socket
\* was registered again under another owner.
PendingHasProvider == \A r \in Pending : HasSocket(pending[r].target)

\* An agent id routes to an owner the relay has a socket of, or to nobody: no
\* order of replacements, errors and late close events leaves a route to a
\* closed socket, but that of a socket registered under a second owner.
RoutesLead ==
    \A k \in AgentKey : keyOwner[k] # None => HasSocket(keyOwner[k])

\* What the relay tracks, the timers it armed and the escrows of the database
\* agree, and no tracked request has outlived the socket of its provider.
RelayInv ==
    RelayTypeOK /\ EscrowTracksPending /\ TimerOfPhase /\ PendingHasProvider

\* The provider is paid when, and only when, a result ended the request,
\* and the conductor fee is charged only then; otherwise the hold returns.
PaidForResults ==
    \A r \in Request :
        /\ escrow[r] = "settled" => outcome[r] = "ok"
        /\ escrow[r] = "released" => outcome[r] \in {"error", "timeout", "gone", "lost"}
        /\ outcome[r] # "none" => escrow[r] \notin Live \/ outcome[r] = "lost"
        /\ fee[r] => outcome[r] = "ok"

\* A requester gets at most one response per request: a late result never
\* follows the timeout or the disconnect it was told of.
AnsweredAtMostOnce ==
    \A r \in Request :
        /\ answers[r] <= 1
        /\ outcome[r] \in {"none", "lost"} => answers[r] = 0

\* What the database promises holds through the relay, restarts included.
RelayPromise == INSTANCE EscrowPromise WITH
    EscrowId <- Request,
    HoldAmount <- {1},
    phase <- [r \in Request |->
        CASE escrow[r] = "none" -> "none"
          [] escrow[r] = "settled" -> "paid"
          [] escrow[r] = "released" -> "refunded"
          [] OTHER -> "open"],
    amount <- [r \in Request |-> IF escrow[r] = "none" THEN 0 ELSE 1],
    out <- [r \in Request |-> IF escrow[r] \in {"settled", "released"} THEN 1
                             ELSE 0]

RelayKeepsPromise == RelayPromise!PromiseSpec

\* Every request ends, whatever the provider and the requester do: the timers
\* alone see to it.
EveryRequestEnds == \A r \in Request : pending[r] # None ~> pending[r] = None

\* So does every hold, unless a restart loses its request.
EveryHoldEnds ==
    \A r \in Request :
        escrow[r] \in Live ~> escrow[r] \notin Live \/ outcome[r] = "lost"

=============================================================================
