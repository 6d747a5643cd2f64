------------------------ MODULE RelayDispatchProofs ------------------------
(***************************************************************************)
(* Theorems about the relay client and about a call through a temporary    *)
(* one, for any number of clients, attempts, sockets and requests.         *)
(*                                                                         *)
(* What a call pays depends on the requests, the relay and the loop, and   *)
(* on the sockets only through them: PayVars is the part of the state the  *)
(* argument needs.  An attempt that is over was refused, released or never *)
(* sent (Over), and the loop goes on after such an attempt only.           *)
(***************************************************************************)
EXTENDS RelayDispatch, FiniteSetTheorems, FunctionTheorems, TLAPS

payVars == <<userVars, farVars, pending, outcome, draining>>

PayTypeOK ==
    /\ pending \in [Request -> Client \cup {None}]
    /\ outcome \in [Request -> {"none", "waiting"} \cup Final]
    /\ draining \in [Client -> BOOLEAN]
    /\ phase \in {"idle", "connecting", "requesting", "backoff", "returned", "threw"}
    /\ attempt \in 0 .. MaxAttempts
    /\ relay \in [Request -> {"none", "held", "settled", "released", "refused"}]
    /\ reply \in [Request -> {"none", "ok"} \cup ErrorReply]

\* The answer on its way says what the relay did, and the caller's promise
\* what the answer said.
RequestOK(r) ==
    /\ relay[r] \in {"none", "held"} <=> reply[r] = "none"
    /\ relay[r] = "settled" <=> reply[r] = "ok"
    /\ outcome[r] \in {"none", "refused"} => relay[r] = "none"
    /\ outcome[r] = "ok" => reply[r] = "ok"
    /\ outcome[r] = "error" => reply[r] \in ErrorReply
    /\ outcome[r] # "dropped"
    /\ pending[r] # None => r = attempt /\ phase = "requesting" /\ outcome[r] = "waiting"

\* Nothing of the attempt can be charged any more.
Over(r) ==
    /\ relay[r] \notin {"held", "settled"}
    /\ relay[r] = "none" => outcome[r] \in {"none", "refused"}

\* Where the loop is.
LoopOK ==
    /\ \A r \in Request : /\ r > attempt => outcome[r] = "none"
                          /\ r < attempt => Over(r)
    /\ phase = "idle" => attempt = 0
    /\ phase # "idle" => attempt >= 1
    /\ phase = "connecting" => outcome[attempt] = "none"
    /\ phase = "backoff" => Over(attempt)
    /\ phase = "returned" => outcome[attempt] = "ok"

\* The inductive invariant.
PayOK ==
    /\ PayTypeOK
    /\ \A c \in Client : ~draining[c]
    /\ \A r \in Request : RequestOK(r)
    /\ LoopOK
CallStrong == user = "dispatch" => PayOK

-----------------------------------------------------------------------------
\* An attempt is a request and a client of its own.
LEMMA Attempts ==
    /\ Attempt \subseteq Request /\ Attempt \subseteq Client
    /\ MaxAttempts \in Nat /\ MaxRequests \in Nat /\ MaxClients \in Nat
    /\ Request \subseteq Nat /\ Client \subseteq Nat /\ None = 0
BY RelayClientAssumption, DispatchAssumption DEF Attempt, Request, Client, None

\* Steps that leave the requests, the relay and the loop alone.
LEMMA StutterKeeps ==
    ASSUME PayOK, UNCHANGED payVars
    PROVE  PayOK'
BY DEF payVars, userVars, farVars, PayOK, PayTypeOK, RequestOK, LoopOK, Over

\* A step of one request that leaves the loop alone.
LEMMA RequestKeeps ==
    ASSUME PayOK, PayTypeOK', NEW r \in Request, UNCHANGED <<userVars, draining>>,
           \A q \in Request \ {r} : /\ pending'[q] = pending[q] /\ outcome'[q] = outcome[q]
                                    /\ relay'[q] = relay[q] /\ reply'[q] = reply[q],
           RequestOK(r)',
           outcome[r] = "none" => outcome'[r] = "none",
           outcome[r] = "ok" => outcome'[r] = "ok",
           Over(r) => Over(r)'
    PROVE  PayOK'
<1> USE DEF PayOK, userVars
<1>1. ASSUME NEW q \in Request, q # r PROVE RequestOK(q)'
  BY <1>1 DEF RequestOK
<1>2. attempt \in Nat /\ (attempt >= 1 => attempt \in Request)
  BY Attempts DEF PayTypeOK, Attempt
<1>3. LoopOK'
  BY <1>2 DEF LoopOK, Over
<1> QED
  BY <1>1, <1>3

\* A step of the loop that moves the request of its attempt, if any.
LEMMA LoopKeeps ==
    ASSUME PayOK, PayTypeOK', LoopOK', UNCHANGED <<farVars, draining>>,
           \A r \in Request : RequestOK(r)'
    PROVE  PayOK'
BY DEF PayOK

\* disconnect() when the request of the attempt has ended drops nothing.
LEMMA NothingDropped ==
    ASSUME PayOK, NEW c \in Client, phase # "requesting" \/ outcome[attempt] # "waiting",
           Disconnect(c)
    PROVE  UNCHANGED <<pending, outcome, draining>>
<1>1. \A r \in Request : pending[r] = None
  BY DEF PayOK, RequestOK
<1>a. c \in Nat /\ c >= 1
  BY Attempts DEF Client
<1>b. c # None
  BY <1>a DEF None
<1>2. Tracked(c) = {}
  BY <1>1, <1>b DEF Tracked
<1>3. /\ pending' = [r \in Request |-> IF r \in {} THEN None ELSE pending[r]]
      /\ outcome' = [r \in Request |-> IF r \in {} THEN "dropped" ELSE outcome[r]]
      /\ UNCHANGED draining
  BY <1>2 DEF Disconnect, Finish, Leave
<1> QED
  BY <1>3 DEF PayOK, PayTypeOK

-----------------------------------------------------------------------------
\* The loop begins an attempt: the one before it is over.
LEMMA TryKeeps ==
    ASSUME PayOK, Try
    PROVE  PayOK'
<1> USE Attempts DEF PayOK
<1>1. /\ attempt' = attempt + 1 /\ phase' = "connecting" /\ attempt < MaxAttempts
      /\ phase \in {"idle", "backoff"}
      /\ UNCHANGED <<farVars, draining, pending, outcome>>
  BY DEF Try, requestVars
<1>2. attempt \in Nat /\ attempt + 1 \in Attempt
  BY <1>1 DEF PayTypeOK, Attempt
<1>3. PayTypeOK'
  BY <1>1, <1>2 DEF PayTypeOK, farVars, Attempt
<1>4. \A r \in Request : RequestOK(r)'
  BY <1>1 DEF RequestOK, farVars
<1>5. \A r \in Request : r < attempt + 1 => Over(r)
  <2> SUFFICES ASSUME NEW r \in Request, r < attempt + 1
               PROVE  Over(r)
    OBVIOUS
  <2>1. r \in Nat /\ r >= 1
    BY DEF Request
  <2>2. CASE r < attempt
    BY <2>2 DEF LoopOK
  <2>3. CASE r = attempt
    <3>1. phase = "backoff"
      BY <1>1, <2>1, <2>3 DEF LoopOK
    <3> QED
      BY <3>1, <2>3 DEF LoopOK
  <2> QED
    BY <1>2, <2>1, <2>2, <2>3
<1>6. outcome[attempt + 1] = "none"
  BY <1>2 DEF LoopOK
<1>7. LoopOK'
  BY <1>1, <1>2, <1>5, <1>6 DEF LoopOK, Over, farVars
<1> QED
  BY <1>1, <1>3, <1>4, <1>7

\* The loop goes on or throws: it goes on when the attempt is over.
LEMMA RetryKeeps ==
    ASSUME PayOK, phase \in {"connecting", "requesting"},
           phase' \in {"backoff", "threw"}, phase' = "backoff" => Over(attempt),
           phase # "requesting" \/ outcome[attempt] # "waiting",
           UNCHANGED <<farVars, draining, pending, outcome, attempt>>
    PROVE  PayOK'
<1> USE Attempts DEF PayOK, farVars
<1>1. attempt \in Attempt
  BY DEF LoopOK, PayTypeOK, Attempt
<1>2. PayTypeOK' /\ LoopOK'
  BY <1>1 DEF PayTypeOK, LoopOK, Over
<1>3. \A r \in Request : RequestOK(r)'
  BY DEF RequestOK
<1> QED
  BY <1>2, <1>3

\* connect() rejects: the attempt never sent its request.
LEMMA ConnectRejectedKeeps ==
    ASSUME PayOK, ConnectRejected
    PROVE  PayOK'
<1>1. attempt \in Attempt /\ attempt \in Client /\ attempt \in Request
  BY Attempts DEF ConnectRejected, PayOK, LoopOK, PayTypeOK, Attempt
<1>2. /\ phase = "connecting" /\ Disconnect(attempt) /\ UNCHANGED <<attempt, farVars>>
      /\ phase' \in {"backoff", "threw"}
  BY DEF ConnectRejected, RetryOrThrow
<1>3. UNCHANGED <<pending, outcome, draining>>
  BY <1>1, <1>2, NothingDropped
<1>4. Over(attempt)
  BY <1>1, <1>2 DEF PayOK, LoopOK, RequestOK, Over
<1> QED
  BY <1>2, <1>3, <1>4, RetryKeeps DEF userVars

\* The request fails: it is tried again only when the relay refused it or
\* gave the credits back.
LEMMA RequestRejectedKeeps ==
    ASSUME PayOK, RequestRejected
    PROVE  PayOK'
<1>1. attempt \in Attempt /\ attempt \in Client /\ attempt \in Request
  BY Attempts DEF RequestRejected, PayOK, LoopOK, PayTypeOK, Attempt
<1>2. /\ phase = "requesting" /\ Disconnect(attempt) /\ UNCHANGED <<attempt, farVars>>
      /\ outcome[attempt] \in Final \ {"ok"}
      /\ phase' \in {"backoff", "threw"}
  BY DEF RequestRejected, RetryOrThrow
<1>3. UNCHANGED <<pending, outcome, draining>>
  BY <1>1, <1>2, NothingDropped DEF Final
<1>4. RequestOK(attempt) /\ relay[attempt] \in {"none", "held", "settled", "released", "refused"}
  BY <1>1 DEF PayOK, PayTypeOK
<1>5. ASSUME phase' = "backoff" PROVE Over(attempt)
  <2>1. PICK kind \in RequestKinds(attempt) : RetryOrThrow(kind)
    BY DEF RequestRejected
  <2>2. kind \in {"connect", "offline"}
    BY <1>5, <2>1 DEF RetryOrThrow, Retryable
  <2>3. outcome[attempt] # "timeout"
    <3> SUFFICES ASSUME outcome[attempt] = "timeout"
                 PROVE  FALSE
      OBVIOUS
    <3>1. RequestKinds(attempt) = {"timeout"}
      BY DEF RequestKinds
    <3> QED
      BY <2>1, <2>2, <3>1
  <2>4. outcome[attempt] \in {"refused", "error"}
    BY <1>2, <1>4, <2>3 DEF Final, RequestOK
  <2> QED
    BY <1>4, <2>4 DEF RequestOK, Over, ErrorReply
<1> QED
  BY <1>2, <1>3, <1>5, RetryKeeps DEF Final

\* The request resolves: the attempt was settled.
LEMMA RequestResolvedKeeps ==
    ASSUME PayOK, RequestResolved
    PROVE  PayOK'
<1>1. attempt \in Attempt /\ attempt \in Client /\ attempt \in Request
  BY Attempts DEF RequestResolved, PayOK, LoopOK, PayTypeOK, Attempt
<1>2. /\ phase = "requesting" /\ Disconnect(attempt) /\ UNCHANGED <<attempt, farVars>>
      /\ outcome[attempt] = "ok" /\ phase' = "returned"
  BY DEF RequestResolved
<1>3. UNCHANGED <<pending, outcome, draining>>
  BY <1>1, <1>2, NothingDropped
<1>4. PayTypeOK' /\ LoopOK'
  BY <1>1, <1>2, <1>3, Attempts DEF PayOK, PayTypeOK, LoopOK, Over, farVars
<1>5. \A r \in Request : RequestOK(r)'
  BY <1>2, <1>3 DEF PayOK, RequestOK, farVars
<1> QED
  BY <1>3, <1>4, <1>5 DEF PayOK

\* connect() resolves and the request goes out, or is refused here.
LEMMA ConnectResolvedKeeps ==
    ASSUME PayOK, ConnectResolved
    PROVE  PayOK'
<1> USE Attempts DEF PayOK
<1>1. attempt \in Attempt /\ attempt \in Client /\ attempt \in Request /\ attempt # None
  BY DEF ConnectResolved, LoopOK, PayTypeOK, Attempt
<1>2. /\ phase = "connecting" /\ phase' = "requesting" /\ UNCHANGED <<attempt, farVars, draining>>
      /\ Send(attempt, attempt) /\ outcome[attempt] = "none"
  BY DEF ConnectResolved, Send, clientVars
<1>3. /\ \/ outcome' = [outcome EXCEPT ![attempt] = "waiting"]
            /\ pending' = [pending EXCEPT ![attempt] = attempt]
         \/ outcome' = [outcome EXCEPT ![attempt] = "refused"]
            /\ pending' = pending
  BY <1>2 DEF Send
<1>4. PayTypeOK'
  BY <1>1, <1>2, <1>3 DEF PayTypeOK, Final, farVars
<1>5. \A r \in Request : RequestOK(r)'
  <2> SUFFICES ASSUME NEW r \in Request PROVE RequestOK(r)'
    OBVIOUS
  <2>1. RequestOK(r) /\ RequestOK(attempt)
    BY <1>1
  <2>2. CASE r = attempt
    BY <1>1, <1>2, <1>3, <2>1, <2>2 DEF RequestOK, PayTypeOK, farVars
  <2>3. CASE r # attempt
    BY <1>1, <1>2, <1>3, <2>1, <2>3 DEF RequestOK, PayTypeOK, farVars
  <2> QED
    BY <2>2, <2>3
<1>6. LoopOK'
  BY <1>1, <1>2, <1>3 DEF LoopOK, Over, PayTypeOK, farVars
<1> QED
  BY <1>2, <1>4, <1>5, <1>6

-----------------------------------------------------------------------------
\* What the relay does with a request.
LEMMA RelayKeeps ==
    ASSUME PayOK, NEW r \in Request, RelayTakes(r) \/ RelayAnswers(r)
    PROVE  PayOK'
<1> USE DEF PayOK, relayClientVars, clientVars, requestVars
<1>1. RequestOK(r) /\ UNCHANGED <<userVars, draining, pending, outcome>>
  BY DEF RelayTakes, RelayAnswers
<1>2. PayTypeOK'
  BY <1>1 DEF RelayTakes, RelayAnswers, PayTypeOK, ErrorReply, userVars
<1>3. RequestOK(r)'
  BY <1>1 DEF RelayTakes, RelayAnswers, RequestOK, PayTypeOK, ErrorReply, userVars, Final
<1>4. Over(r) => Over(r)'
  BY <1>1 DEF RelayTakes, RelayAnswers, Over, PayTypeOK
<1>5. \A q \in Request \ {r} : relay'[q] = relay[q] /\ reply'[q] = reply[q]
  BY DEF RelayTakes, RelayAnswers, PayTypeOK
<1> QED
  BY <1>1, <1>2, <1>3, <1>4, <1>5, RequestKeeps

\* An answer reaches the caller.
LEMMA AnswerKeeps ==
    ASSUME PayOK, NEW r \in Request, NEW s \in Socket, AnswerArrives(s, r)
    PROVE  PayOK'
<1> USE DEF PayOK, clientVars
<1>1. /\ RequestOK(r) /\ UNCHANGED <<userVars, farVars, draining>>
      /\ pending[r] = Owner(s) /\ reply[r] # "none"
      /\ Leave({r}, IF reply[r] = "ok" THEN "ok" ELSE "error")
  BY DEF AnswerArrives, Answer
<1>2. pending[r] # None
  BY <1>1, Attempts DEF Socket, Owner, Client
<1>3. /\ pending'[r] = None /\ outcome'[r] = (IF reply[r] = "ok" THEN "ok" ELSE "error")
      /\ \A q \in Request \ {r} : pending'[q] = pending[q] /\ outcome'[q] = outcome[q]
  BY <1>1 DEF Leave
<1>4. PayTypeOK'
  BY <1>1 DEF Leave, PayTypeOK, Final, userVars, farVars
<1>5. RequestOK(r)' /\ (Over(r) => Over(r)') /\ outcome[r] = "waiting"
  BY <1>1, <1>2, <1>3 DEF RequestOK, Over, PayTypeOK, userVars, farVars, Final
<1> QED
  BY <1>1, <1>3, <1>4, <1>5, RequestKeeps DEF farVars

\* A request's timer fires.
LEMMA TimeoutKeeps ==
    ASSUME PayOK, NEW r \in Request, RequestTimeout(r), UNCHANGED <<userVars, farVars>>
    PROVE  PayOK'
<1> USE DEF PayOK, clientVars
<1>1. /\ RequestOK(r) /\ UNCHANGED draining
      /\ pending' = [pending EXCEPT ![r] = None]
      /\ outcome' = [outcome EXCEPT ![r] = IF @ = "waiting" THEN "timeout" ELSE @]
  BY DEF RequestTimeout
<1>2. /\ pending'[r] = None /\ outcome'[r] = (IF outcome[r] = "waiting" THEN "timeout" ELSE outcome[r])
      /\ \A q \in Request \ {r} : pending'[q] = pending[q] /\ outcome'[q] = outcome[q]
  BY <1>1 DEF PayTypeOK
<1>3. PayTypeOK'
  BY <1>1, <1>2 DEF PayTypeOK, Final, userVars, farVars
<1>4. RequestOK(r)' /\ (Over(r) => Over(r)')
  BY <1>1, <1>2 DEF RequestOK, Over, PayTypeOK, userVars, farVars, Final
<1> QED
  BY <1>1, <1>2, <1>3, <1>4, RequestKeeps DEF farVars

\* The sockets and the other timers leave the requests alone, and a call
\* through a temporary client never drains.
LEMMA ClientsKeep ==
    ASSUME PayOK, Clients
    PROVE  PayOK'
<1>1. UNCHANGED <<userVars, farVars>>
  BY DEF Clients
<1>2. ASSUME NEW s \in Socket, NetworkStep(s) PROVE PayOK'
  <2>1. UNCHANGED payVars
    BY <1>1, <1>2 DEF NetworkStep, Open, Registered, HandshakeFails, SocketCloses, OnClose,
       payVars, requestVars
  <2> QED
    BY <2>1, StutterKeeps
<1>3. ASSUME NEW s \in Socket, ConnectTimeout(s) PROVE PayOK'
  <2>1. UNCHANGED payVars
    BY <1>1, <1>3 DEF ConnectTimeout, payVars, clientVars, requestVars
  <2> QED
    BY <2>1, StutterKeeps
<1>4. ASSUME NEW c \in Client, Reconnect(c) \/ PongTimeout(c) PROVE PayOK'
  <2>1. UNCHANGED payVars
    BY <1>1, <1>4 DEF Reconnect, PongTimeout, payVars, clientVars, requestVars
  <2> QED
    BY <2>1, StutterKeeps
<1>5. ASSUME NEW r \in Request, RequestTimeout(r) PROVE PayOK'
  BY <1>1, <1>5, TimeoutKeeps
<1>6. ASSUME NEW c \in Client, Drained(c) PROVE FALSE
  BY <1>6 DEF Drained, PayOK
<1> QED
  BY <1>2, <1>3, <1>4, <1>5, <1>6 DEF Clients, TimerStep

-----------------------------------------------------------------------------
\* At the start nothing was sent.
LEMMA InitStrong == DispatchInit => CallStrong
<1> SUFFICES ASSUME DispatchInit PROVE PayOK
  BY DEF CallStrong
<1> USE Attempts DEF DispatchInit, RelayClientInit
<1>1. PayTypeOK
  BY DEF PayTypeOK, Final
<1>2. \A r \in Request : RequestOK(r)
  BY DEF RequestOK
<1>3. LoopOK
  <2>1. \A r \in Request : r \in Nat /\ r >= 1
    BY DEF Request
  <2> QED
    BY <2>1 DEF LoopOK
<1> QED
  BY <1>1, <1>2, <1>3 DEF PayOK

\* Every step keeps the invariant; who drives the clients never changes.
LEMMA NextKeeps ==
    ASSUME CallStrong, [DispatchNext]_dispatchVars
    PROVE  CallStrong'
<1>1. user' = user
  BY DEF DispatchNext, Loop, Try, ConnectRejected, ConnectResolved, RequestResolved,
     RequestRejected, ServiceStart, ServiceSend, ServiceStop, Clients, RelayTakes,
     RelayAnswers, AnswerArrives, ProgressArrives, dispatchVars, userVars
<1> SUFFICES ASSUME user = "dispatch", PayOK PROVE PayOK'
  BY <1>1 DEF CallStrong
<1>2. CASE Loop
  BY <1>2, TryKeeps, ConnectRejectedKeeps, ConnectResolvedKeeps, RequestResolvedKeeps,
     RequestRejectedKeeps DEF Loop
<1>3. CASE Clients
  BY <1>3, ClientsKeep
<1>4. ASSUME NEW r \in Request, RelayTakes(r) \/ RelayAnswers(r) PROVE PayOK'
  BY <1>4, RelayKeeps
<1>5. ASSUME NEW r \in Request, NEW s \in Socket, AnswerArrives(s, r) PROVE PayOK'
  BY <1>5, AnswerKeeps
<1>6. ASSUME NEW r \in Request, NEW s \in Socket, ProgressArrives(s, r) PROVE PayOK'
  <2>1. UNCHANGED payVars
    BY <1>6 DEF ProgressArrives, Progress, payVars, clientVars
  <2> QED
    BY <2>1, StutterKeeps
<1>7. CASE UNCHANGED dispatchVars
  <2>1. UNCHANGED payVars
    BY <1>7 DEF dispatchVars, relayClientVars, payVars, clientVars, requestVars
  <2> QED
    BY <2>1, StutterKeeps
<1> QED
  BY <1>2, <1>3, <1>4, <1>5, <1>6, <1>7
  DEF DispatchNext, ServiceStart, ServiceStop, ServiceSend

\* Only the attempt in hand can have been paid for.
LEMMA StrongImplies ==
    ASSUME CallStrong
    PROVE  PaidOnce
<1> SUFFICES ASSUME user = "dispatch", PayOK
             PROVE  /\ Cardinality({i \in Attempt : relay[i] = "settled"}) <= 1
                    /\ \A i \in Attempt : i < attempt => relay[i] \notin {"held", "settled"}
                    /\ phase = "returned" => relay[attempt] = "settled"
  BY DEF CallStrong, PaidOnce
<1> USE Attempts
<1>1. attempt \in Nat /\ (attempt >= 1 => attempt \in Request)
  BY DEF PayOK, PayTypeOK, Attempt
<1>2. {i \in Attempt : relay[i] = "settled"} \subseteq {attempt}
  <2> SUFFICES ASSUME NEW i \in Attempt, relay[i] = "settled" PROVE i = attempt
    OBVIOUS
  <2>1. i \in Request /\ i \in Nat /\ RequestOK(i)
    BY DEF PayOK
  <2>2. ~(i > attempt)
    BY <2>1 DEF PayOK, LoopOK, RequestOK
  <2>3. ~(i < attempt)
    BY <2>1 DEF PayOK, LoopOK, Over
  <2> QED
    BY <1>1, <2>1, <2>2, <2>3
<1>3. IsFiniteSet({attempt}) /\ Cardinality({attempt}) = 1
  BY FS_Singleton
<1>4. Cardinality({i \in Attempt : relay[i] = "settled"}) <= 1
  BY <1>2, <1>3, FS_Subset
<1>5. ASSUME phase = "returned" PROVE relay[attempt] = "settled"
  BY <1>1, <1>5 DEF PayOK, LoopOK, RequestOK
<1>6. \A i \in Attempt : i < attempt => relay[i] \notin {"held", "settled"}
  BY DEF PayOK, LoopOK, Over
<1> QED
  BY <1>4, <1>5, <1>6

-----------------------------------------------------------------------------
\* The inductive invariant holds throughout.
THEOREM CallStrongHolds == DispatchSpec => []CallStrong
<1>1. DispatchInit => CallStrong
  BY InitStrong
<1>2. CallStrong /\ [DispatchNext]_dispatchVars => CallStrong'
  BY NextKeeps
<1> QED
  BY <1>1, <1>2, PTL DEF DispatchSpec

\* However often a call is tried again, and however its sockets, timers and
\* answers interleave, it pays at most once, and a call that returns a result
\* has paid for the attempt that produced it (relay-dispatch.ts:54, :191).
THEOREM CallPaysOnce == DispatchSpec => []PaidOnce
<1> QED
  BY StrongImplies, CallStrongHolds, PTL

-----------------------------------------------------------------------------
(* The clients and their sockets, whoever drives them.                     *)

\* A socket that has not ended yet.
Alive(s) == state[s] \notin {"new", "closed"}

\* The sockets of a client were opened in order, the first so many of them.
OpenedInOrder(c) ==
    \E n \in 0 .. MaxSockets :
        \A k \in 1 .. MaxSockets : state[<<c, k>>] = "new" <=> k > n

\* What holds between a client and its sockets: one of them at most has not
\* ended, none while the reconnect timer is armed, and a live one is `ws`.
SocketsOK(c) ==
    /\ OpenedInOrder(c)
    /\ ws[c] # NoSocket => Owner(ws[c]) = c
    /\ \A s, t \in Socket :
          Owner(s) = c /\ Owner(t) = c /\ Alive(s) /\ Alive(t) => s = t
    /\ \A s \in Socket : Owner(s) = c =>
          /\ Live(s) => ws[c] = s /\ promise[s] # "timeout"
          /\ reconnect[c] => ~Alive(s)
          /\ registered[c] /\ Live(s) => state[s] = "open" /\ promise[s] = "ok"
          /\ state[s] # "new" /\ ~intentional[c] =>
                reconnect[c] \/ \E t \in Socket : Owner(t) = c /\ Alive(t)

\* A client nobody has started.
Untouched(c) ==
    ~reconnect[c] /\ \A s \in Socket : Owner(s) = c => state[s] = "new"

\* Who has started which clients.
UserOK ==
    /\ user = "service" /\ phase = "idle" => \A c \in Client : Untouched(c)
    /\ user = "dispatch" =>
          /\ phase # "idle" => attempt >= 1
          /\ \A c \in Client : c > attempt => Untouched(c)

\* The inductive invariant of the sockets and requests of all clients.
DispatchStrong ==
    /\ DispatchTypeOK /\ TimersMatchPending /\ UserOK
    /\ \A c \in Client : SocketsOK(c)

SocketTypeOK ==
    /\ state \in [Socket -> {"new", "connecting", "aborting", "open", "closing", "closed"}]
    /\ promise \in [Socket -> {"none", "pending", "ok"} \cup Failure]
    /\ ws \in [Client -> Socket \cup {NoSocket}]
    /\ intentional \in [Client -> BOOLEAN] /\ registered \in [Client -> BOOLEAN]
    /\ reconnect \in [Client -> BOOLEAN]

\* A step that is client c's: the others and their sockets stay as they are.
MoveOf(c) ==
    /\ \A s \in Socket : Owner(s) # c => state'[s] = state[s] /\ promise'[s] = promise[s]
    /\ \A d \in Client \ {c} : /\ ws'[d] = ws[d] /\ intentional'[d] = intentional[d]
                              /\ registered'[d] = registered[d]
                              /\ reconnect'[d] = reconnect[d]

\* A sound step of client c that starts nothing.
GoodMove(c) ==
    /\ SocketTypeOK' /\ MoveOf(c) /\ SocketsOK(c)'
    /\ Untouched(c) => Untouched(c)'

\* Sockets and their owners.
LEMMA SocketFacts ==
    /\ \A s \in Socket : Owner(s) \in Client /\ s # NoSocket
    /\ \A c \in Client : \A k \in 1 .. MaxSockets :
          <<c, k>> \in Socket /\ Owner(<<c, k>>) = c
    /\ MaxSockets \in Nat
BY RelayClientAssumption DEF Socket, Owner, NoSocket, Client

\* The order of the sockets depends only on which of them are new.
LEMMA OrderKept ==
    ASSUME NEW c \in Client, OpenedInOrder(c),
           \A s \in Socket : Owner(s) = c => (state'[s] = "new" <=> state[s] = "new")
    PROVE  OpenedInOrder(c)'
BY SocketFacts DEF OpenedInOrder

\* A step of one client keeps what holds of the others.
LEMMA OthersKeep ==
    ASSUME NEW c \in Client, NEW d \in Client, c # d, MoveOf(c), SocketsOK(d)
    PROVE  SocketsOK(d)' /\ (Untouched(d) => Untouched(d)')
<1>1. \A s \in Socket : Owner(s) = d => state'[s] = state[s] /\ promise'[s] = promise[s]
  BY DEF MoveOf
<1>2. /\ ws'[d] = ws[d] /\ intentional'[d] = intentional[d]
      /\ registered'[d] = registered[d] /\ reconnect'[d] = reconnect[d]
  BY DEF MoveOf
<1>3. OpenedInOrder(d)'
  BY <1>1, OrderKept DEF SocketsOK
<1>4. SocketsOK(d)'
  BY <1>1, <1>2, <1>3 DEF SocketsOK, Alive, Live
<1> QED
  BY <1>1, <1>2, <1>4 DEF Untouched

\* The next socket of a client is its first new one.
LEMMA FreshIsNew ==
    ASSUME NEW c \in Client, OpenedInOrder(c), Fresh(c) \in Socket
    PROVE  /\ state[Fresh(c)] = "new" /\ Owner(Fresh(c)) = c
           /\ \E n \in 0 .. MaxSockets :
                 /\ Fresh(c) = <<c, n + 1>> /\ n + 1 \in 1 .. MaxSockets
                 /\ \A k \in 1 .. MaxSockets : state[<<c, k>>] = "new" <=> k > n
<1>1. PICK n \in 0 .. MaxSockets :
        \A k \in 1 .. MaxSockets : state[<<c, k>>] = "new" <=> k > n
  BY DEF OpenedInOrder
<1> DEFINE f == [k \in 1 .. n |-> <<c, k>>]
<1>2. Opened(c) = {<<c, k>> : k \in 1 .. n}
  BY <1>1, SocketFacts DEF Opened, Socket, Owner
<1>3. f \in Bijection(1 .. n, Opened(c))
  <2>1. f \in [1 .. n -> Opened(c)]
    BY <1>2
  <2>2. \A j, k \in 1 .. n : f[j] = f[k] => j = k
    OBVIOUS
  <2>3. \A s \in Opened(c) : \E k \in 1 .. n : f[k] = s
    BY <1>2
  <2> HIDE DEF f
  <2> QED
    BY <2>1, <2>2, <2>3, Fun_IsBij
<1>4. Cardinality(Opened(c)) = n
  <2>1. ExistsBijection(1 .. n, Opened(c))
    BY <1>3 DEF ExistsBijection
  <2> QED
    BY <2>1, FS_CountingElements
<1>5. Fresh(c) = <<c, n + 1>>
  BY <1>4 DEF Fresh
<1>6. n + 1 \in 1 .. MaxSockets
  BY <1>5, SocketFacts DEF Socket
<1>7. state[<<c, n + 1>>] = "new"
  BY <1>1, <1>6
<1> QED
  <2> HIDE DEF f
  <2>1. /\ Fresh(c) = <<c, n + 1>> /\ n + 1 \in 1 .. MaxSockets
        /\ \A k \in 1 .. MaxSockets : state[<<c, k>>] = "new" <=> k > n
    BY <1>1, <1>5, <1>6
  <2>2. state[Fresh(c)] = "new" /\ Owner(Fresh(c)) = c
    BY <1>5, <1>6, <1>7, SocketFacts
  <2> QED
    BY <2>1, <2>2

\* connect(): with no socket of the client left, one more is opened.
LEMMA ConnectMoves ==
    ASSUME NEW c \in Client, SocketTypeOK, SocketsOK(c), Connect(c),
           \A s \in Socket : Owner(s) = c => ~Alive(s),
           reconnect' = [reconnect EXCEPT ![c] = FALSE]
    PROVE  SocketTypeOK' /\ MoveOf(c) /\ SocketsOK(c)'
<1> DEFINE f == Fresh(c)
<1>1. /\ f \in Socket
      /\ state' = [state EXCEPT ![f] = "connecting"]
      /\ promise' = [promise EXCEPT ![f] = "pending"]
      /\ ws' = [ws EXCEPT ![c] = f]
      /\ intentional' = [intentional EXCEPT ![c] = FALSE]
      /\ registered' = [registered EXCEPT ![c] = FALSE]
  BY DEF Connect
<1>2. PICK n \in 0 .. MaxSockets :
        /\ f = <<c, n + 1>> /\ n + 1 \in 1 .. MaxSockets
        /\ \A k \in 1 .. MaxSockets : state[<<c, k>>] = "new" <=> k > n
  BY <1>1, FreshIsNew DEF SocketsOK
<1>3. Owner(f) = c
  BY <1>1, FreshIsNew DEF SocketsOK
<1> HIDE DEF f
<1>4. SocketTypeOK'
  BY <1>1 DEF SocketTypeOK
<1>5. MoveOf(c)
  BY <1>1, <1>3 DEF SocketTypeOK, MoveOf
<1>6. OpenedInOrder(c)'
  <2>1. n + 1 \in 0 .. MaxSockets
    BY <1>2, SocketFacts
  <2>2. ASSUME NEW k \in 1 .. MaxSockets
        PROVE  state'[<<c, k>>] = "new" <=> k > n + 1
    <3>1. <<c, k>> \in Socket /\ (state[<<c, k>>] = "new" <=> k > n)
      BY <1>2, SocketFacts
    <3>2. CASE k = n + 1
      BY <1>1, <1>2, <3>1, <3>2 DEF SocketTypeOK
    <3>3. CASE k # n + 1
      <4>1. <<c, k>> # f
        BY <1>2, <3>3
      <4>2. state'[<<c, k>>] = state[<<c, k>>]
        BY <1>1, <3>1, <4>1 DEF SocketTypeOK
      <4> QED
        BY <3>1, <3>3, <4>2
    <3> QED
      BY <3>2, <3>3
  <2> QED
    BY <2>1, <2>2 DEF OpenedInOrder
<1>7. /\ state'[f] = "connecting" /\ promise'[f] = "pending" /\ ws'[c] = f
      /\ ~reconnect'[c] /\ ~registered'[c]
      /\ \A s \in Socket \ {f} : state'[s] = state[s]
  BY <1>1 DEF SocketTypeOK
<1>8. \A s \in Socket : Owner(s) = c /\ s # f => ~Alive(s)'
  BY <1>7 DEF Alive
<1> QED
  BY <1>1, <1>3, <1>4, <1>5, <1>6, <1>7, <1>8 DEF SocketsOK, Alive, Live

\* The handshake succeeds.
LEMMA OpenMoves ==
    ASSUME NEW s \in Socket, SocketTypeOK, SocketsOK(Owner(s)), Open(s)
    PROVE  GoodMove(Owner(s))
<1>1. /\ state[s] = "connecting" /\ state' = [state EXCEPT ![s] = "open"]
      /\ UNCHANGED <<promise, ws, intentional, registered, reconnect>>
  BY DEF Open
<1>2. SocketTypeOK' /\ MoveOf(Owner(s)) /\ (Untouched(Owner(s)) => Untouched(Owner(s))')
  BY <1>1 DEF SocketTypeOK, MoveOf, Untouched
<1>3. OpenedInOrder(Owner(s))'
  BY <1>1, OrderKept, SocketFacts DEF SocketTypeOK, SocketsOK
<1>4. \A t \in Socket : Alive(t)' <=> Alive(t)
  BY <1>1 DEF SocketTypeOK, Alive
<1>5. ~registered[Owner(s)]
  BY <1>1 DEF SocketsOK, Live
<1>6. SocketsOK(Owner(s))'
  BY <1>1, <1>3, <1>4, <1>5 DEF SocketsOK, SocketTypeOK, Live
<1> QED
  BY <1>2, <1>6 DEF GoodMove

\* The registration is acknowledged.
LEMMA RegisteredMoves ==
    ASSUME NEW s \in Socket, SocketTypeOK, SocketsOK(Owner(s)), Registered(s)
    PROVE  GoodMove(Owner(s))
<1> DEFINE c == Owner(s)
<1>1. /\ state[s] \in {"open", "closing"} /\ promise[s] \in {"pending", "timeout"}
      /\ registered' = [registered EXCEPT ![c] = TRUE]
      /\ promise' = [promise EXCEPT ![s] = IF @ = "pending" THEN "ok" ELSE @]
      /\ UNCHANGED <<state, ws, intentional, reconnect>>
  BY DEF Registered, Speaks, Settle
<1>2. c \in Client
  BY SocketFacts
<1>3. SocketTypeOK' /\ MoveOf(c) /\ (Untouched(c) => Untouched(c)')
  BY <1>1, <1>2 DEF SocketTypeOK, MoveOf, Untouched
<1>4. OpenedInOrder(c)'
  BY <1>1, <1>2, OrderKept DEF SocketsOK
<1>5. ASSUME NEW t \in Socket, Owner(t) = c, Live(t)
      PROVE  t = s /\ state[t] = "open" /\ promise'[t] = "ok"
  <2>1. t = s
    BY <1>1, <1>5 DEF SocketsOK, Alive, Live
  <2>2. state[s] = "open" /\ promise[s] # "timeout"
    BY <1>1, <1>5, <2>1 DEF SocketsOK, Live
  <2> QED
    BY <1>1, <2>1, <2>2 DEF SocketTypeOK
<1>6. SocketsOK(c)'
  BY <1>1, <1>4, <1>5 DEF SocketsOK, Alive, Live
<1> QED
  BY <1>3, <1>6 DEF GoodMove

\* A socket ends: unless the client closed on purpose it will reconnect.
LEMMA EndMoves ==
    ASSUME NEW s \in Socket, SocketTypeOK, SocketsOK(Owner(s)), OnClose(s), Alive(s),
           NEW how \in Failure, Settle(s, how) \/ UNCHANGED promise
    PROVE  GoodMove(Owner(s))
<1> DEFINE c == Owner(s)
<1>1. /\ state' = [state EXCEPT ![s] = "closed"]
      /\ registered' = [registered EXCEPT ![c] = FALSE]
      /\ reconnect' = [reconnect EXCEPT ![c] = @ \/ ~intentional[c]]
      /\ UNCHANGED <<ws, intentional>>
  BY DEF OnClose, Reschedules
<1>2. /\ c \in Client /\ promise' \in [Socket -> {"none", "pending", "ok"} \cup Failure]
      /\ \A t \in Socket \ {s} : promise'[t] = promise[t]
  BY SocketFacts DEF Settle, SocketTypeOK
<1>3. SocketTypeOK' /\ MoveOf(c) /\ (Untouched(c) => Untouched(c)')
  BY <1>1, <1>2 DEF SocketTypeOK, MoveOf, Untouched, Alive
<1>4. OpenedInOrder(c)'
  BY <1>1, <1>2, OrderKept DEF SocketTypeOK, SocketsOK, Alive
<1>5. \A t \in Socket : Owner(t) = c => ~Alive(t)'
  BY <1>1 DEF SocketTypeOK, SocketsOK, Alive
<1>6. \A t \in Socket : Owner(t) = c => ~Live(t)'
  BY <1>5 DEF Alive, Live
<1>7. reconnect'[c] \/ intentional'[c]
  BY <1>1, <1>2 DEF SocketTypeOK
<1>8. SocketsOK(c)'
  BY <1>1, <1>4, <1>5, <1>6, <1>7 DEF SocketsOK
<1> QED
  BY <1>3, <1>8 DEF GoodMove

\* The client closes `ws`, if it holds one: no socket of it is live any more.
LEMMA CloseMoves ==
    ASSUME NEW c \in Client, SocketTypeOK, SocketsOK(c), state' = CloseWs(c),
           \A s \in Socket : promise'[s] = promise[s]
                              \/ (Owner(s) = c /\ promise'[s] \in Failure),
           promise' \in [Socket -> {"none", "pending", "ok"} \cup Failure],
           ws' = ws \/ ws' = [ws EXCEPT ![c] = NoSocket],
           intentional' = intentional \/ intentional' = [intentional EXCEPT ![c] = TRUE],
           registered' = registered \/ registered' = [registered EXCEPT ![c] = FALSE],
           UNCHANGED reconnect
    PROVE  GoodMove(c)
<1>1. \A s \in Socket : state'[s] = IF s = ws[c] THEN Closed(state[s]) ELSE state[s]
  BY DEF CloseWs
<1>2. state' \in [Socket -> {"new", "connecting", "aborting", "open", "closing", "closed"}]
  BY DEF CloseWs, Closed, SocketTypeOK
<1>3. SocketTypeOK'
  BY <1>2 DEF SocketTypeOK
<1>4. \A s \in Socket : /\ state'[s] = "new" <=> state[s] = "new"
                        /\ Alive(s)' <=> Alive(s)
                        /\ Owner(s) # c => state'[s] = state[s]
  <2> SUFFICES ASSUME NEW s \in Socket
               PROVE  /\ state'[s] = "new" <=> state[s] = "new"
                      /\ Alive(s)' <=> Alive(s)
                      /\ Owner(s) # c => state'[s] = state[s]
    OBVIOUS
  <2>1. CASE s = ws[c]
    <3>1. Owner(s) = c
      BY <2>1, SocketFacts DEF SocketsOK
    <3>2. state'[s] = Closed(state[s])
      BY <1>1, <2>1
    <3>3. state[s] \in {"new", "connecting", "aborting", "open", "closing", "closed"}
      BY DEF SocketTypeOK
    <3> QED
      BY <3>1, <3>2, <3>3 DEF Closed, Alive
  <2>2. CASE s # ws[c]
    BY <1>1, <2>2 DEF Alive
  <2> QED
    BY <2>1, <2>2
<1>5. \A s \in Socket : Owner(s) = c => ~Live(s)'
  BY <1>1 DEF Closed, Live, SocketsOK, SocketTypeOK
<1>6. MoveOf(c)
  BY <1>4, SocketFacts DEF MoveOf, SocketTypeOK, Failure
<1>7. OpenedInOrder(c)'
  BY <1>4, OrderKept DEF SocketsOK
<1>8. /\ ws'[c] = ws[c] \/ ws'[c] = NoSocket
      /\ ~intentional'[c] => ~intentional[c]
  BY DEF SocketTypeOK
<1>9. SocketsOK(c)'
  BY <1>4, <1>5, <1>7, <1>8 DEF SocketsOK
<1>10. Untouched(c) => Untouched(c)'
  BY <1>4 DEF Untouched
<1> QED
  BY <1>3, <1>6, <1>9, <1>10 DEF GoodMove

\* The sockets and timers make sound steps of a client that was started.
LEMMA NetworkMoves ==
    ASSUME NEW s \in Socket, SocketTypeOK, SocketsOK(Owner(s)), NetworkStep(s)
    PROVE  GoodMove(Owner(s))
<1>1. CASE HandshakeFails(s)
  <2>1. Settle(s, "error") /\ OnClose(s) /\ Alive(s) /\ "error" \in Failure
    BY <1>1 DEF HandshakeFails, Alive, Failure
  <2> QED
    BY <2>1, EndMoves
<1>2. CASE SocketCloses(s)
  <2>1. /\ Settle(s, "closed") \/ UNCHANGED promise
        /\ OnClose(s) /\ Alive(s) /\ "closed" \in Failure
    BY <1>2 DEF SocketCloses, Alive, Failure
  <2> QED
    BY <2>1, EndMoves
<1> QED
  BY <1>1, <1>2, OpenMoves, RegisteredMoves DEF NetworkStep

\* The timer of a connection attempt closes `ws`.
LEMMA ConnectTimeoutMoves ==
    ASSUME NEW s \in Socket, SocketTypeOK, SocketsOK(Owner(s)), ConnectTimeout(s)
    PROVE  GoodMove(Owner(s))
<1> DEFINE c == Owner(s)
<1>1. /\ promise' = [promise EXCEPT ![s] = IF @ = "pending" THEN "timeout" ELSE @]
      /\ promise[s] = "pending" /\ state' = CloseWs(c)
      /\ UNCHANGED <<ws, intentional, registered, reconnect>>
  BY DEF ConnectTimeout, Settle, clientVars
<1>2. /\ promise' \in [Socket -> {"none", "pending", "ok"} \cup Failure]
      /\ \A t \in Socket : promise'[t] = promise[t]
                          \/ (Owner(t) = c /\ promise'[t] \in Failure)
  <2>1. "timeout" \in Failure
    BY DEF Failure
  <2>2. promise' \in [Socket -> {"none", "pending", "ok"} \cup Failure]
    BY <1>1, <2>1 DEF SocketTypeOK
  <2>3. promise'[s] = "timeout" /\ \A t \in Socket \ {s} : promise'[t] = promise[t]
    BY <1>1 DEF SocketTypeOK
  <2>4. ASSUME NEW t \in Socket
        PROVE  promise'[t] = promise[t] \/ (Owner(t) = c /\ promise'[t] \in Failure)
    BY <2>1, <2>3
  <2> QED
    BY <2>2, <2>4
<1>3. c \in Client
  BY SocketFacts
<1> QED
  BY <1>1, <1>2, <1>3, CloseMoves

\* A missing pong closes `ws`.
LEMMA PongTimeoutMoves ==
    ASSUME NEW c \in Client, SocketTypeOK, SocketsOK(c), PongTimeout(c)
    PROVE  GoodMove(c)
<1>1. state' = CloseWs(c) /\ UNCHANGED <<promise, ws, intentional, registered, reconnect>>
  BY DEF PongTimeout, clientVars
<1>2. /\ promise' \in [Socket -> {"none", "pending", "ok"} \cup Failure]
      /\ \A t \in Socket : promise'[t] = promise[t]
                          \/ (Owner(t) = c /\ promise'[t] \in Failure)
  BY <1>1 DEF SocketTypeOK
<1>3. ws' = ws /\ intentional' = intentional /\ registered' = registered
  BY <1>1
<1> QED
  BY <1>1, <1>2, <1>3, CloseMoves

\* disconnect() and the end of its draining close `ws` and forget it.
LEMMA FinishMoves ==
    ASSUME NEW c \in Client, SocketTypeOK, SocketsOK(c), Disconnect(c) \/ Drained(c)
    PROVE  GoodMove(c)
<1>1. /\ state' = CloseWs(c) /\ ws' = [ws EXCEPT ![c] = NoSocket]
      /\ UNCHANGED <<promise, reconnect>>
      /\ intentional' = intentional \/ intentional' = [intentional EXCEPT ![c] = TRUE]
      /\ registered' = registered \/ registered' = [registered EXCEPT ![c] = FALSE]
  BY DEF Disconnect, Drained, Finish, Cleanup
<1>2. /\ promise' \in [Socket -> {"none", "pending", "ok"} \cup Failure]
      /\ \A t \in Socket : promise'[t] = promise[t]
                          \/ (Owner(t) = c /\ promise'[t] \in Failure)
  BY <1>1 DEF SocketTypeOK
<1> QED
  BY <1>1, <1>2, CloseMoves

\* disconnect() with requests pending: the sockets stay as they are.
LEMMA DrainMoves ==
    ASSUME NEW c \in Client, SocketTypeOK, SocketsOK(c), Drain(c)
    PROVE  GoodMove(c)
<1>1. /\ intentional' = [intentional EXCEPT ![c] = TRUE]
      /\ registered' = [registered EXCEPT ![c] = FALSE]
      /\ UNCHANGED <<state, promise, ws, reconnect>>
  BY DEF Drain, Cleanup, socketVars
<1>2. SocketTypeOK' /\ MoveOf(c) /\ (Untouched(c) => Untouched(c)')
  BY <1>1 DEF SocketTypeOK, MoveOf, Untouched
<1>3. OpenedInOrder(c)'
  BY <1>1, OrderKept DEF SocketsOK
<1>4. ~registered'[c] /\ intentional'[c]
  BY <1>1 DEF SocketTypeOK
<1>5. SocketsOK(c)'
  BY <1>1, <1>3, <1>4 DEF SocketsOK, Alive, Live
<1> QED
  BY <1>2, <1>5 DEF GoodMove

\* The reconnect timer fires when no socket is left.
LEMMA ReconnectMoves ==
    ASSUME NEW c \in Client, SocketTypeOK, SocketsOK(c), Reconnect(c)
    PROVE  GoodMove(c)
<1>1. /\ reconnect[c] /\ reconnect' = [reconnect EXCEPT ![c] = FALSE] /\ Connect(c)
  BY DEF Reconnect
<1>2. \A s \in Socket : Owner(s) = c => ~Alive(s)
  BY <1>1 DEF SocketsOK
<1> QED
  BY <1>1, <1>2, ConnectMoves DEF GoodMove, Untouched

\* The user starts a client nobody has started.
LEMMA StartMoves ==
    ASSUME NEW c \in Client, SocketTypeOK, SocketsOK(c), Untouched(c), Connect(c),
           UNCHANGED reconnect
    PROVE  SocketTypeOK' /\ MoveOf(c) /\ SocketsOK(c)'
<1>1. \A s \in Socket : Owner(s) = c => ~Alive(s)
  BY DEF Untouched, Alive
<1>2. reconnect' = [reconnect EXCEPT ![c] = FALSE]
  BY DEF Untouched, SocketTypeOK
<1> QED
  BY <1>1, <1>2, ConnectMoves

-----------------------------------------------------------------------------
(* All clients together, their requests, and who drives them.              *)

ClientsOK == SocketTypeOK /\ \A c \in Client : SocketsOK(c)
NothingStarted == \A c \in Client : Untouched(c) => Untouched(c)'

RequestsOK ==
    /\ pending \in [Request -> Client \cup {None}]
    /\ timers \in [Request -> 0 .. MaxProgress + 1]
    /\ progress \in [Request -> 0 .. MaxProgress]
    /\ outcome \in [Request -> {"none", "waiting"} \cup Final]
    /\ TimersMatchPending

DriversTypeOK ==
    /\ ping \in [Client -> BOOLEAN] /\ draining \in [Client -> BOOLEAN]
    /\ user \in {"service", "dispatch"}
    /\ phase \in {"idle", "connecting", "requesting", "backoff", "returned", "threw"}
    /\ attempt \in 0 .. MaxAttempts
    /\ relay \in [Request -> {"none", "held", "settled", "released", "refused"}]
    /\ reply \in [Request -> {"none", "ok"} \cup ErrorReply]

\* The parts of the invariant.
LEMMA StrongParts ==
    DispatchStrong <=> ClientsOK /\ RequestsOK /\ DriversTypeOK /\ UserOK
BY DEF DispatchStrong, DispatchTypeOK, RelayClientTypeOK, ClientsOK, SocketTypeOK, RequestsOK,
   DriversTypeOK

\* A sound step of one client keeps what holds of all.
LEMMA MoveKeeps ==
    ASSUME NEW c \in Client, ClientsOK, GoodMove(c)
    PROVE  ClientsOK' /\ NothingStarted
BY OthersKeep DEF ClientsOK, GoodMove, NothingStarted

\* A client that is started now was untouched; the others stay as they are.
LEMMA StartKeeps ==
    ASSUME NEW c \in Client, ClientsOK, Untouched(c), Connect(c), UNCHANGED reconnect
    PROVE  /\ ClientsOK'
           /\ \A d \in Client \ {c} : Untouched(d) => Untouched(d)'
<1>1. SocketTypeOK' /\ MoveOf(c) /\ SocketsOK(c)'
  BY StartMoves DEF ClientsOK
<1> QED
  BY <1>1, OthersKeep DEF ClientsOK

\* Steps that leave the sockets alone.
LEMMA SocketsStay ==
    ASSUME ClientsOK, UNCHANGED <<state, promise, ws, intentional, registered, reconnect>>
    PROVE  ClientsOK' /\ NothingStarted
BY DEF ClientsOK, SocketTypeOK, SocketsOK, OpenedInOrder, Alive, Live, NothingStarted, Untouched

\* Unless a client is started, nothing changes in who has started which.
LEMMA UserStays ==
    ASSUME UserOK, NothingStarted, user' = user, attempt' = attempt,
           phase' = "idle" <=> phase = "idle"
    PROVE  UserOK'
BY DEF UserOK, NothingStarted

\* Pending requests that leave the map take their timers with them.
LEMMA LeaveKeeps ==
    ASSUME RequestsOK, NEW rs \in SUBSET Request, \A r \in rs : pending[r] # None,
           NEW how \in Final, Leave(rs, how)
    PROVE  RequestsOK'
<1>1. "waiting" \notin Final /\ "none" \notin Final
  BY DEF Final
<1>2. \A r \in rs : timers[r] = 1
  BY DEF RequestsOK, TimersMatchPending
<1>3. \A r \in Request : /\ pending'[r] = IF r \in rs THEN None ELSE pending[r]
                         /\ timers'[r] = IF r \in rs THEN 0 ELSE timers[r]
                         /\ outcome'[r] = IF r \in rs THEN how ELSE outcome[r]
  BY <1>2 DEF Leave
<1>4. TimersMatchPending'
  BY <1>1, <1>3 DEF RequestsOK, TimersMatchPending
<1>5. /\ pending' \in [Request -> Client \cup {None}]
      /\ outcome' \in [Request -> {"none", "waiting"} \cup Final]
      /\ progress' \in [Request -> 0 .. MaxProgress]
  BY DEF Leave, RequestsOK
<1>6. timers' \in [Request -> 0 .. MaxProgress + 1]
  <2>1. timers' = [r \in Request |-> IF r \in rs THEN timers[r] - 1 ELSE timers[r]]
    BY DEF Leave
  <2>2. \A r \in Request : timers'[r] \in 0 .. MaxProgress + 1
    BY <1>3, RelayClientAssumption DEF RequestsOK
  <2> QED
    BY <2>1, <2>2
<1> QED
  BY <1>4, <1>5, <1>6 DEF RequestsOK

\* A request is sent with a timer, or refused.
LEMMA SendKeeps ==
    ASSUME RequestsOK, NEW c \in Client, NEW r \in Request, Send(c, r)
    PROVE  RequestsOK'
<1>1. c # None /\ MaxProgress \in Nat
  BY RelayClientAssumption DEF Client, None
<1>2. outcome[r] = "none" /\ pending[r] = None /\ timers[r] = 0 /\ UNCHANGED progress
  BY DEF Send, RequestsOK, TimersMatchPending
<1>3. CASE IsConnected(c)
  BY <1>1, <1>2, <1>3 DEF Send, RequestsOK, TimersMatchPending
<1>4. CASE ~IsConnected(c)
  BY <1>2, <1>4 DEF Send, RequestsOK, TimersMatchPending, Final
<1> QED
  BY <1>3, <1>4

\* Progress leaves a request with one timer.
LEMMA ProgressKeeps ==
    ASSUME RequestsOK, NEW s \in Socket, NEW r \in Request, Progress(s, r)
    PROVE  RequestsOK'
<1>1. MaxProgress \in Nat
  BY RelayClientAssumption
<1>2. timers' = timers
  BY <1>1 DEF Progress, Rearmed, RequestsOK
<1> QED
  BY <1>1, <1>2 DEF Progress, RequestsOK, TimersMatchPending

\* A timer that fires belongs to a pending request, and rejects it.
LEMMA RequestTimeoutKeeps ==
    ASSUME RequestsOK, NEW r \in Request, RequestTimeout(r)
    PROVE  RequestsOK'
<1>1. timers[r] = 1 /\ pending[r] # None /\ outcome[r] = "waiting"
  BY DEF RequestTimeout, RequestsOK, TimersMatchPending
<1>2. /\ timers' = [timers EXCEPT ![r] = 0]
      /\ pending' = [pending EXCEPT ![r] = None]
      /\ outcome' = [outcome EXCEPT ![r] = "timeout"]
      /\ UNCHANGED progress
  BY <1>1 DEF RequestTimeout
<1>3. MaxProgress \in Nat /\ "timeout" \in Final
  BY RelayClientAssumption DEF Final
<1> QED
  BY <1>2, <1>3 DEF RequestsOK, TimersMatchPending

\* disconnect() drops what the client still tracks.
LEMMA FinishKeeps ==
    ASSUME RequestsOK, NEW c \in Client, Finish(c)
    PROVE  RequestsOK'
<1>1. c # None
  BY RelayClientAssumption DEF Client, None
<1>2. \A r \in Tracked(c) : pending[r] # None
  BY <1>1 DEF Tracked
<1>3. Tracked(c) \in SUBSET Request /\ "dropped" \in Final
  BY DEF Tracked, Final
<1> QED
  BY <1>2, <1>3, LeaveKeeps DEF Finish

-----------------------------------------------------------------------------
\* Client 1 is the daemon's; an attempt has a client and a request of its own.
LEMMA Drivers ==
    ASSUME DriversTypeOK, UserOK
    PROVE  /\ user = "dispatch" /\ phase # "idle" => /\ attempt \in Client /\ attempt \in Request
                                                    /\ attempt \in Attempt
           /\ attempt \in Nat /\ 1 \in Client
           /\ attempt < MaxAttempts => attempt + 1 \in Attempt /\ attempt + 1 \in Client
<1>1. attempt \in Nat /\ attempt <= MaxAttempts
  BY Attempts DEF DriversTypeOK
<1>2. 1 \in Attempt
  BY DispatchAssumption DEF Attempt
<1>3. user = "dispatch" /\ phase # "idle" => attempt >= 1
  BY DEF UserOK
<1>4. user = "dispatch" /\ phase # "idle" => attempt \in Attempt
  BY <1>1, <1>3, Attempts DEF Attempt
<1>5. attempt < MaxAttempts => attempt + 1 \in Attempt
  BY <1>1, Attempts DEF Attempt
<1> QED
  BY <1>1, <1>2, <1>4, <1>5, Attempts

\* The loop: each turn starts a client of its own, and disconnects it.
LEMMA LoopSteps ==
    ASSUME DispatchStrong, Loop
    PROVE  DispatchStrong'
<1>a. ClientsOK /\ RequestsOK /\ DriversTypeOK /\ UserOK
  BY StrongParts
<1>b. user = "dispatch"
  BY DEF Loop, Try, ConnectRejected, ConnectResolved, RequestResolved, RequestRejected
<1> SUFFICES ClientsOK' /\ RequestsOK' /\ DriversTypeOK' /\ UserOK'
  BY StrongParts, PTL
<1>1. CASE Try
  <2> DEFINE c == attempt + 1
  <2>1. /\ attempt < MaxAttempts /\ attempt' = c /\ phase' = "connecting" /\ user' = user
        /\ Connect(c)
        /\ UNCHANGED <<reconnect, ping, draining, pending, timers, progress, outcome, relay, reply>>
    BY <1>1 DEF Try, requestVars, farVars
  <2>2. c \in Client /\ c \in Attempt /\ attempt \in Nat
    BY <1>a, <2>1, Drivers
  <2>3. \A d \in Client : d > attempt => Untouched(d)
    BY <1>a, <1>b DEF UserOK
  <2>4. Untouched(c)
    BY <2>2, <2>3
  <2>5. ClientsOK' /\ \A d \in Client \ {c} : Untouched(d) => Untouched(d)'
    BY <1>a, <2>1, <2>2, <2>4, StartKeeps
  <2>6. RequestsOK'
    BY <1>a, <2>1 DEF RequestsOK, TimersMatchPending
  <2>7. DriversTypeOK'
    BY <1>a, <2>1, <2>2, Attempts DEF DriversTypeOK, Attempt
  <2>8. ASSUME NEW d \in Client, d > c PROVE Untouched(d)'
    <3>1. d \in Nat
      BY Attempts
    <3>2. d > attempt /\ d # c
      BY <2>2, <2>8, <3>1
    <3> QED
      BY <2>3, <2>5, <3>2
  <2>9. UserOK'
    BY <1>b, <2>1, <2>2, <2>8 DEF UserOK
  <2> QED
    BY <2>5, <2>6, <2>7, <2>9
<1>2. CASE ConnectRejected \/ RequestResolved \/ RequestRejected
  <2>1. /\ phase \in {"connecting", "requesting"} /\ Disconnect(attempt)
        /\ phase' \in {"backoff", "returned", "threw"}
        /\ UNCHANGED <<user, attempt, relay, reply>>
    BY <1>2 DEF ConnectRejected, RequestResolved, RequestRejected, RetryOrThrow, farVars
  <2>2. attempt \in Client
    BY <1>a, <1>b, <2>1, Drivers
  <2>3. GoodMove(attempt)
    BY <1>a, <2>1, <2>2, FinishMoves DEF ClientsOK
  <2>4. ClientsOK' /\ NothingStarted
    BY <1>a, <2>2, <2>3, MoveKeeps
  <2>5. RequestsOK'
    BY <1>a, <2>1, <2>2, FinishKeeps DEF Disconnect
  <2>6. ping' = [ping EXCEPT ![attempt] = FALSE] /\ draining' = draining
    BY <2>1 DEF Disconnect, Cleanup
  <2>7. DriversTypeOK'
    BY <1>a, <2>1, <2>6 DEF DriversTypeOK
  <2>8. UserOK'
    BY <1>a, <2>1, <2>4, UserStays
  <2> QED
    BY <2>4, <2>5, <2>7, <2>8
<1>3. CASE ConnectResolved
  <2>1. /\ phase = "connecting" /\ phase' = "requesting" /\ Send(attempt, attempt)
        /\ UNCHANGED <<state, promise, ws, intentional, registered, reconnect, ping, draining,
                       user, attempt, relay, reply>>
    BY <1>3 DEF ConnectResolved, socketVars, clientVars, farVars
  <2>2. attempt \in Client /\ attempt \in Request
    BY <1>a, <1>b, <2>1, Drivers
  <2>3. ClientsOK' /\ NothingStarted
    BY <1>a, <2>1, SocketsStay
  <2>4. RequestsOK'
    BY <1>a, <2>1, <2>2, SendKeeps
  <2>5. DriversTypeOK'
    BY <1>a, <2>1 DEF DriversTypeOK
  <2>6. UserOK'
    BY <1>a, <2>1, <2>3, UserStays
  <2> QED
    BY <2>3, <2>4, <2>5, <2>6
<1> QED
  BY <1>1, <1>2, <1>3 DEF Loop

\* The daemon: it starts client 1, sends over it and disconnects it.
LEMMA ServiceSteps ==
    ASSUME DispatchStrong,
           ServiceStart \/ ServiceStop \/ \E r \in Request : ServiceSend(r)
    PROVE  DispatchStrong'
<1>a. ClientsOK /\ RequestsOK /\ DriversTypeOK /\ UserOK
  BY StrongParts
<1>b. 1 \in Client /\ user = "service"
  BY <1>a, Drivers DEF ServiceStart, ServiceStop, ServiceSend
<1> SUFFICES ClientsOK' /\ RequestsOK' /\ DriversTypeOK' /\ UserOK'
  BY StrongParts, PTL
<1>1. CASE ServiceStart
  <2>1. /\ phase = "idle" /\ phase' = "requesting" /\ Connect(1)
        /\ UNCHANGED <<reconnect, ping, draining, pending, timers, progress, outcome,
                       user, attempt, relay, reply>>
    BY <1>1 DEF ServiceStart, requestVars, farVars
  <2>2. Untouched(1)
    BY <1>a, <1>b, <2>1 DEF UserOK
  <2>3. ClientsOK'
    BY <1>a, <1>b, <2>1, <2>2, StartKeeps
  <2>4. RequestsOK'
    BY <1>a, <2>1 DEF RequestsOK, TimersMatchPending
  <2>5. DriversTypeOK'
    BY <1>a, <2>1 DEF DriversTypeOK
  <2>6. UserOK'
    BY <1>b, <2>1 DEF UserOK
  <2> QED
    BY <2>3, <2>4, <2>5, <2>6
<1>2. CASE ServiceStop
  <2>1. /\ phase = "requesting" /\ phase' = "returned" /\ (Disconnect(1) \/ Drain(1))
        /\ UNCHANGED <<user, attempt, relay, reply>>
    BY <1>2 DEF ServiceStop, farVars
  <2>2. GoodMove(1)
    BY <1>a, <1>b, <2>1, FinishMoves, DrainMoves DEF ClientsOK
  <2>3. ClientsOK' /\ NothingStarted
    BY <1>a, <1>b, <2>2, MoveKeeps
  <2>4. RequestsOK'
    <3>1. CASE Disconnect(1)
      BY <1>a, <1>b, <3>1, FinishKeeps DEF Disconnect
    <3>2. CASE Drain(1)
      BY <1>a, <3>2 DEF Drain, requestVars, RequestsOK, TimersMatchPending
    <3> QED
      BY <2>1, <3>1, <3>2
  <2>5. DriversTypeOK'
    BY <1>a, <2>1 DEF DriversTypeOK, Disconnect, Drain, Cleanup
  <2>6. UserOK'
    BY <1>a, <2>1, <2>3, UserStays
  <2> QED
    BY <2>3, <2>4, <2>5, <2>6
<1>3. ASSUME NEW r \in Request, ServiceSend(r)
      PROVE  ClientsOK' /\ RequestsOK' /\ DriversTypeOK' /\ UserOK'
  <2>1. /\ Send(1, r)
        /\ UNCHANGED <<state, promise, ws, intentional, registered, reconnect, ping, draining,
                       user, phase, attempt, relay, reply>>
    BY <1>3 DEF ServiceSend, socketVars, clientVars, userVars, farVars
  <2>2. ClientsOK' /\ NothingStarted
    BY <1>a, <2>1, SocketsStay
  <2>3. RequestsOK'
    BY <1>a, <1>b, <2>1, SendKeeps
  <2>4. DriversTypeOK'
    BY <1>a, <2>1 DEF DriversTypeOK
  <2>5. UserOK'
    BY <1>a, <2>1, <2>2, UserStays
  <2> QED
    BY <2>2, <2>3, <2>4, <2>5
<1> QED
  BY <1>1, <1>2, <1>3

\* The sockets' events, the timers and the end of draining.
LEMMA ClientSteps ==
    ASSUME DispatchStrong, Clients
    PROVE  DispatchStrong'
<1>a. ClientsOK /\ RequestsOK /\ DriversTypeOK /\ UserOK
  BY StrongParts
<1>b. UNCHANGED <<user, phase, attempt, relay, reply>>
  BY DEF Clients, userVars, farVars
<1>c. ASSUME ClientsOK' /\ NothingStarted, RequestsOK',
             ping' \in [Client -> BOOLEAN], draining' \in [Client -> BOOLEAN]
      PROVE  DispatchStrong'
  <2>1. DriversTypeOK'
    BY <1>a, <1>b, <1>c DEF DriversTypeOK
  <2>2. UserOK'
    BY <1>a, <1>b, <1>c, UserStays
  <2> QED
    BY <1>c, <2>1, <2>2, StrongParts, PTL
<1>1. ASSUME NEW s \in Socket, NetworkStep(s) PROVE DispatchStrong'
  <2>1. GoodMove(Owner(s)) /\ Owner(s) \in Client
    BY <1>a, <1>1, SocketFacts, NetworkMoves DEF ClientsOK
  <2>2. ClientsOK' /\ NothingStarted
    BY <1>a, <2>1, MoveKeeps
  <2>3. /\ UNCHANGED <<pending, timers, progress, outcome, draining>>
        /\ ping' \in [Client -> BOOLEAN]
    BY <1>a, <1>1 DEF NetworkStep, Open, Registered, HandshakeFails, SocketCloses, OnClose,
       requestVars, DriversTypeOK
  <2>4. RequestsOK' /\ draining' \in [Client -> BOOLEAN]
    BY <1>a, <2>3 DEF RequestsOK, TimersMatchPending, DriversTypeOK
  <2> QED
    BY <1>c, <2>2, <2>3, <2>4
<1>2. ASSUME NEW s \in Socket, ConnectTimeout(s) PROVE DispatchStrong'
  <2>1. GoodMove(Owner(s)) /\ Owner(s) \in Client
    BY <1>a, <1>2, SocketFacts, ConnectTimeoutMoves DEF ClientsOK
  <2>2. ClientsOK' /\ NothingStarted
    BY <1>a, <2>1, MoveKeeps
  <2>3. UNCHANGED <<pending, timers, progress, outcome, draining, ping>>
    BY <1>2 DEF ConnectTimeout, clientVars, requestVars
  <2>4. RequestsOK' /\ draining' \in [Client -> BOOLEAN] /\ ping' \in [Client -> BOOLEAN]
    BY <1>a, <2>3 DEF RequestsOK, TimersMatchPending, DriversTypeOK
  <2> QED
    BY <1>c, <2>2, <2>4
<1>3. ASSUME NEW c \in Client, Reconnect(c) \/ PongTimeout(c) PROVE DispatchStrong'
  <2>1. GoodMove(c)
    BY <1>a, <1>3, ReconnectMoves, PongTimeoutMoves DEF ClientsOK
  <2>2. ClientsOK' /\ NothingStarted
    BY <1>a, <2>1, MoveKeeps
  <2>3. UNCHANGED <<pending, timers, progress, outcome, draining, ping>>
    BY <1>3 DEF Reconnect, PongTimeout, clientVars, requestVars
  <2>4. RequestsOK' /\ draining' \in [Client -> BOOLEAN] /\ ping' \in [Client -> BOOLEAN]
    BY <1>a, <2>3 DEF RequestsOK, TimersMatchPending, DriversTypeOK
  <2> QED
    BY <1>c, <2>2, <2>4
<1>4. ASSUME NEW r \in Request, RequestTimeout(r) PROVE DispatchStrong'
  <2>1. UNCHANGED <<state, promise, ws, intentional, registered, reconnect, ping, draining>>
    BY <1>4 DEF RequestTimeout, socketVars, clientVars
  <2>2. ClientsOK' /\ NothingStarted
    BY <1>a, <2>1, SocketsStay
  <2>3. RequestsOK'
    BY <1>a, <1>4, RequestTimeoutKeeps
  <2>4. draining' \in [Client -> BOOLEAN] /\ ping' \in [Client -> BOOLEAN]
    BY <1>a, <2>1 DEF DriversTypeOK
  <2> QED
    BY <1>c, <2>2, <2>3, <2>4
<1>5. ASSUME NEW c \in Client, Drained(c) PROVE DispatchStrong'
  <2>1. GoodMove(c)
    BY <1>a, <1>5, FinishMoves DEF ClientsOK
  <2>2. ClientsOK' /\ NothingStarted
    BY <1>a, <2>1, MoveKeeps
  <2>3. RequestsOK'
    BY <1>a, <1>5, FinishKeeps DEF Drained
  <2>4. draining' \in [Client -> BOOLEAN] /\ ping' \in [Client -> BOOLEAN]
    BY <1>a, <1>5 DEF Drained, DriversTypeOK
  <2> QED
    BY <1>c, <2>2, <2>3, <2>4
<1> QED
  BY <1>1, <1>2, <1>3, <1>4, <1>5 DEF Clients, TimerStep

\* The relay, and what arrives from it.
LEMMA RelaySteps ==
    ASSUME DispatchStrong, NEW r \in Request,
           \/ RelayTakes(r) \/ RelayAnswers(r)
           \/ \E s \in Socket : AnswerArrives(s, r) \/ ProgressArrives(s, r)
    PROVE  DispatchStrong'
<1>a. ClientsOK /\ RequestsOK /\ DriversTypeOK /\ UserOK
  BY StrongParts
<1>1. UNCHANGED <<state, promise, ws, intentional, registered, reconnect, ping, draining,
                  user, phase, attempt>>
  BY DEF RelayTakes, RelayAnswers, AnswerArrives, ProgressArrives, Answer, Progress,
     relayClientVars, socketVars, clientVars, userVars
<1>2. ClientsOK' /\ NothingStarted
  BY <1>a, <1>1, SocketsStay
<1>3. UserOK'
  BY <1>a, <1>1, <1>2, UserStays
<1>4. CASE RelayTakes(r) \/ RelayAnswers(r)
  <2>1. UNCHANGED <<pending, timers, progress, outcome>>
    BY <1>4 DEF RelayTakes, RelayAnswers, relayClientVars, requestVars
  <2>2. RequestsOK'
    BY <1>a, <2>1 DEF RequestsOK, TimersMatchPending
  <2>3. DriversTypeOK'
    BY <1>a, <1>1, <1>4 DEF DriversTypeOK, RelayTakes, RelayAnswers, ErrorReply
  <2> QED
    BY <1>2, <1>3, <2>2, <2>3, StrongParts, PTL
<1>5. ASSUME NEW s \in Socket, AnswerArrives(s, r) \/ ProgressArrives(s, r)
      PROVE  DispatchStrong'
  <2>1. UNCHANGED farVars
    BY <1>5 DEF AnswerArrives, ProgressArrives
  <2>2. DriversTypeOK'
    BY <1>a, <1>1, <2>1 DEF DriversTypeOK, farVars
  <2>3. CASE AnswerArrives(s, r)
    <3> DEFINE how == IF reply[r] = "ok" THEN "ok" ELSE "error"
    <3>1. pending[r] = Owner(s) /\ Leave({r}, how)
      BY <2>3 DEF AnswerArrives, Answer
    <3>2. pending[r] # None
      BY <3>1, SocketFacts, RelayClientAssumption DEF Client, None
    <3>3. how \in Final
      BY DEF Final
    <3>4. RequestsOK'
      <4> HIDE DEF how
      <4> QED
        BY <1>a, <3>1, <3>2, <3>3, LeaveKeeps
    <3> QED
      BY <1>2, <1>3, <2>2, <3>4, StrongParts, PTL
  <2>4. CASE ProgressArrives(s, r)
    <3>1. RequestsOK'
      BY <1>a, <2>4, ProgressKeeps DEF ProgressArrives
    <3> QED
      BY <1>2, <1>3, <2>2, <3>1, StrongParts, PTL
  <2> QED
    BY <1>5, <2>3, <2>4
<1> QED
  BY <1>4, <1>5

\* At the start no client exists.
LEMMA DispatchInitStrong == DispatchInit => DispatchStrong
<1> SUFFICES ASSUME DispatchInit PROVE DispatchStrong
  OBVIOUS
<1> USE DEF DispatchInit, RelayClientInit
<1>1. ASSUME NEW c \in Client PROVE SocketsOK(c)
  <2>1. \A k \in 1 .. MaxSockets : state[<<c, k>>] = "new" /\ k > 0
    BY SocketFacts
  <2>2. OpenedInOrder(c)
    <3>1. 0 \in 0 .. MaxSockets
      BY SocketFacts
    <3>2. \A k \in 1 .. MaxSockets : state[<<c, k>>] = "new" <=> k > 0
      BY <2>1
    <3> QED
      BY <3>1, <3>2 DEF OpenedInOrder
  <2>3. ws[c] = NoSocket /\ \A s \in Socket : state[s] = "new"
    OBVIOUS
  <2> QED
    BY <2>2, <2>3 DEF SocketsOK, Alive, Live
<1>2. SocketTypeOK
  BY DEF SocketTypeOK
<1>3. RequestsOK
  BY RelayClientAssumption DEF RequestsOK, TimersMatchPending
<1>4. DriversTypeOK
  BY DispatchAssumption DEF DriversTypeOK
<1>5. UserOK
  BY DEF UserOK, Untouched
<1> QED
  BY <1>1, <1>2, <1>3, <1>4, <1>5, StrongParts DEF ClientsOK

\* Every step keeps the invariant.
LEMMA DispatchNextKeeps ==
    ASSUME DispatchStrong, [DispatchNext]_dispatchVars
    PROVE  DispatchStrong'
<1>1. CASE UNCHANGED dispatchVars
  BY <1>1 DEF dispatchVars, relayClientVars, socketVars, clientVars, requestVars, userVars,
     farVars, DispatchStrong, DispatchTypeOK, RelayClientTypeOK, TimersMatchPending, UserOK,
     Untouched, SocketsOK, OpenedInOrder, Alive, Live
<1>2. CASE DispatchNext
  BY <1>2, LoopSteps, ServiceSteps, ClientSteps, RelaySteps DEF DispatchNext
<1> QED
  BY <1>1, <1>2

\* What the invariant says of the properties of the client.
LEMMA DispatchStrongImplies ==
    ASSUME DispatchStrong
    PROVE  DispatchInv /\ NeverStranded
<1> USE DEF DispatchStrong
<1>1. OneLiveSocket
  <2> SUFFICES ASSUME NEW c \in Client, NEW s \in Socket, NEW t \in Socket,
                      Owner(s) = c, Owner(t) = c, Live(s), Live(t)
               PROVE  s = t /\ ws[c] = s
    BY DEF OneLiveSocket
  <2> QED
    BY DEF SocketsOK, Live, Alive
<1>2. ConnectedIsRegistered
  <2> SUFFICES ASSUME NEW c \in Client, IsConnected(c)
               PROVE  promise[ws[c]] = "ok"
    BY DEF ConnectedIsRegistered
  <2>1. ws[c] \in Socket /\ Owner(ws[c]) = c
    BY DEF IsConnected, SocketsOK, DispatchTypeOK, RelayClientTypeOK
  <2> QED
    BY <2>1 DEF IsConnected, SocketsOK, Live
<1>3. NeverStranded
  <2> SUFFICES ASSUME NEW c \in Client, Opened(c) # {}, ~intentional[c], ~reconnect[c]
               PROVE  \E s \in Opened(c) : state[s] # "closed"
    BY DEF NeverStranded
  <2>1. PICK s \in Socket : Owner(s) = c /\ state[s] # "new"
    BY DEF Opened
  <2>2. PICK t \in Socket : Owner(t) = c /\ Alive(t)
    BY <2>1 DEF SocketsOK
  <2> QED
    BY <2>2 DEF Opened, Alive
<1> QED
  BY <1>1, <1>2, <1>3 DEF DispatchInv

-----------------------------------------------------------------------------
\* The inductive invariant holds throughout.
THEOREM DispatchStrongHolds == DispatchSpec => []DispatchStrong
<1>1. DispatchInit => DispatchStrong
  BY DispatchInitStrong
<1>2. DispatchStrong /\ [DispatchNext]_dispatchVars => DispatchStrong'
  BY DispatchNextKeeps
<1> QED
  BY <1>1, <1>2, PTL DEF DispatchSpec

\* In every interleaving of handshakes, closes that come late, timeouts and
\* reconnects, each pending request has one timer and a caller, a client has
\* one live socket at most, and it takes itself for connected only on a socket
\* that registered (websocket-client.ts:36-47, :334).
THEOREM ClientInStep == DispatchSpec => []DispatchInv
<1>1. DispatchStrong => DispatchInv
  BY DispatchStrongImplies
<1> QED
  BY <1>1, DispatchStrongHolds, PTL

\* A client that was started and not told to leave has a socket whose end is
\* still to come, or a reconnect timer (websocket-client.ts:137, :428, :461).
THEOREM ClientNeverStranded == DispatchSpec => []NeverStranded
<1>1. DispatchStrong => NeverStranded
  BY DispatchStrongImplies
<1> QED
  BY <1>1, DispatchStrongHolds, PTL

=============================================================================
