------------------------- MODULE RelayServerProofs -------------------------
(***************************************************************************)
(* Theorems about the relay, for any number of owners, agent ids, sockets, *)
(* requests and restarts.                                                  *)
(*                                                                         *)
(* The inductive invariant is RequestOK of every request, which relates    *)
(* the relay's memory, the timers, the escrow's row and the answers, and   *)
(* Connected, which relates requests and routes to the sockets.  A         *)
(* step either moves one request (OneRequest) or, when an owner            *)
(* disconnects or the relay restarts, several at once.                     *)
(***************************************************************************)
EXTENDS RelayServer, TLAPS

TimerOf(r) ==
    IF pending[r] = None THEN {}
    ELSE CASE pending[r].lifecycle = "held" -> {"idle"}
           [] pending[r].lifecycle = "abandoned" -> {"grace"}
           [] OTHER -> {"hard"}

\* What is known of one request.
RequestOK(r) ==
    /\ pending[r] # None => /\ outcome[r] = "none" /\ answers[r] = 0 /\ sentTo[r] # None
                            /\ escrow[r] \in {pending[r].lifecycle, "none"}
    /\ pending[r] = None /\ outcome[r] = "none" => sentTo[r] = None
    /\ sentTo[r] = None => escrow[r] = "none"
    /\ escrow[r] \in Live => pending[r] # None \/ outcome[r] = "lost"
    /\ timers[r] = TimerOf(r)
    /\ escrow[r] = "settled" => outcome[r] = "ok"
    /\ escrow[r] = "released" => outcome[r] \in {"error", "timeout", "gone", "lost"}
    /\ fee[r] => outcome[r] = "ok"
    /\ answers[r] <= 1
    /\ outcome[r] \in {"none", "lost"} => answers[r] = 0

\* A closed socket is kept under no name but one it has given up; requests
\* and routes lead to owners with a socket.
Connected ==
    /\ \A o \in Owner : connections[o] # None => HasSocket(o)
    /\ \A r \in Request : pending[r] # None => connections[pending[r].target] # None
    /\ \A k \in AgentKey : keyOwner[k] # None => connections[keyOwner[k]] # None

\* The inductive invariant.
RelayStrong ==
    /\ RelayTypeOK
    /\ \A r \in Request : RequestOK(r)
    /\ Connected

\* What a step may do to the escrow of a request.
EscrowMove(r) ==
    \/ escrow'[r] = escrow[r]
    \/ escrow[r] = "none" /\ escrow'[r] = "held"
    \/ escrow[r] \in Live /\ escrow'[r] \in Live
    \/ escrow[r] \in Live /\ escrow'[r] \in {"settled", "released"}

GoodStep == RelayStrong' /\ \A r \in Request : EscrowMove(r)

SameRequest(r) ==
    /\ pending'[r] = pending[r] /\ timers'[r] = timers[r] /\ sentTo'[r] = sentTo[r]
    /\ escrow'[r] = escrow[r] /\ fee'[r] = fee[r] /\ answers'[r] = answers[r]
    /\ outcome'[r] = outcome[r]

-----------------------------------------------------------------------------
\* A pending request under another lifecycle keeps its two ends.
LEMMA Relabel ==
    ASSUME NEW p \in PendingRequest, NEW l \in Lifecycle
    PROVE  /\ [p EXCEPT !.lifecycle = l] \in PendingRequest
           /\ [p EXCEPT !.lifecycle = l].target = p.target
           /\ [p EXCEPT !.lifecycle = l].lifecycle = l
BY DEF PendingRequest

\* A request that stays as it is stays right.
LEMMA SameKeeps ==
    ASSUME NEW r \in Request, RequestOK(r), SameRequest(r)
    PROVE  RequestOK(r)' /\ EscrowMove(r)
BY DEF RequestOK, SameRequest, TimerOf, EscrowMove

\* A step of one request that leaves connections and routes alone.
LEMMA OneRequest ==
    ASSUME RelayStrong, RelayTypeOK', NEW r \in Request,
           RequestOK(r)', EscrowMove(r), \A q \in Request \ {r} : SameRequest(q),
           UNCHANGED <<state, registered, connections, keyOwner>>,
           pending'[r] # None => connections[pending'[r].target] # None
    PROVE  GoodStep
<1>1. \A q \in Request : RequestOK(q)' /\ EscrowMove(q)
  BY SameKeeps DEF RelayStrong
<1>2. Connected'
  BY DEF RelayStrong, Connected, HasSocket, SameRequest
<1> QED
  BY <1>1, <1>2 DEF GoodStep, RelayStrong

\* A step that moves no request.
LEMMA NoRequest ==
    ASSUME RelayStrong, RelayTypeOK', UNCHANGED requestVars,
           \A o \in Owner : connections[o] # None => connections'[o] # None,
           \A o \in Owner : connections'[o] # None => HasSocket(o)',
           \A k \in AgentKey : keyOwner'[k] # None => connections'[keyOwner'[k]] # None
    PROVE  GoodStep
<1>1. \A q \in Request : SameRequest(q)
  BY DEF SameRequest, requestVars
<1>2. \A q \in Request : RequestOK(q)' /\ EscrowMove(q)
  BY <1>1, SameKeeps DEF RelayStrong
<1>3. \A q \in Request : pending[q] # None => pending[q].target \in Owner
  BY DEF RelayStrong, RelayTypeOK, PendingRequest
<1>4. Connected'
  BY <1>3 DEF RelayStrong, Connected, requestVars
<1> QED
  BY <1>2, <1>4 DEF GoodStep, RelayStrong

\* A request that ends with the escrow status its end calls for.
LEMMA EndKeeps ==
    ASSUME RelayStrong, NEW r \in Request, pending[r] # None,
           NEW how, NEW final, NEW answered \in SUBSET {r},
           End({r}, how, final, answered),
           <<how, final>> \in {<<"ok", "settled">>, <<"error", "released">>, <<"timeout", "released">>},
           fee' \in [Request -> BOOLEAN], \A q \in Request \ {r} : fee'[q] = fee[q],
           fee'[r] => how = "ok",
           UNCHANGED <<socketVars, restarts>>
    PROVE  GoodStep
<1> USE DEF RelayStrong
<1>1. RequestOK(r) /\ escrow[r] \in Live \cup {"none"}
  BY DEF RequestOK, RelayTypeOK, PendingRequest, Lifecycle, Live
<1>2. /\ pending'[r] = None /\ timers'[r] = {} /\ sentTo'[r] = sentTo[r]
      /\ escrow'[r] = Finalized(escrow[r], final)
      /\ answers'[r] \in {answers[r], answers[r] + 1} /\ outcome'[r] = how
  BY DEF End, RelayTypeOK
<1>3. RelayTypeOK'
  <2>1. /\ pending' \in [Request -> PendingRequest \cup {None}]
        /\ timers' \in [Request -> SUBSET {"idle", "hard", "grace"}]
        /\ sentTo' \in [Request -> Owner \cup {None}]
        /\ answers' \in [Request -> Nat]
    BY DEF End, RelayTypeOK
  <2>2. /\ escrow' \in [Request -> Live \cup {"none", "settled", "released"}]
        /\ outcome' \in [Request -> Outcome]
    BY DEF End, RelayTypeOK, Finalized, Outcome
  <2> QED
    BY <2>1, <2>2 DEF RelayTypeOK, socketVars
<1>4. RequestOK(r)' /\ EscrowMove(r)
  BY <1>1, <1>2 DEF RequestOK, EscrowMove, Finalized, TimerOf, RelayTypeOK, Live
<1>5. \A q \in Request \ {r} : SameRequest(q)
  BY DEF End, SameRequest, RelayTypeOK
<1> QED
  BY <1>2, <1>3, <1>4, <1>5, OneRequest DEF socketVars

-----------------------------------------------------------------------------
\* Sockets: what connects, registers or passes moves no request.
LEMMA ConnectKeeps ==
    ASSUME RelayStrong, NEW s \in Socket, Connect(s)
    PROVE  GoodStep
<1>1. RelayTypeOK'
  BY DEF RelayStrong, RelayTypeOK, Connect, requestVars
<1>2. UNCHANGED <<requestVars, registered, connections, keyOwner>>
  BY DEF Connect
<1>3. \A t \in Socket : state'[t] = "closed" => state[t] = "closed"
  BY DEF Connect, RelayStrong, RelayTypeOK
<1>4. \A o \in Owner : connections'[o] # None => HasSocket(o)'
  BY <1>2, <1>3 DEF RelayStrong, Connected, HasSocket, RelayTypeOK
<1> QED
  BY <1>1, <1>2, <1>4, NoRequest DEF RelayStrong, Connected, requestVars

\* A registration gives its owner a connection and takes none away.
LEMMA RegisterKeeps ==
    ASSUME RelayStrong, NEW s \in Socket, NEW o \in Owner, NEW keys \in SUBSET AgentKey,
           Register(s, o, keys)
    PROVE  GoodStep
<1> USE RelayAssumption DEF RelayStrong
<1>1. RelayTypeOK'
  BY DEF RelayTypeOK, Register, requestVars
<1>2. UNCHANGED requestVars
  BY DEF Register
<1>3. /\ connections'[o] = s /\ s # None
      /\ \A q \in Owner \ {o} : connections'[q] = connections[q]
  BY DEF Register, RelayTypeOK
<1>4. \A k \in AgentKey : keyOwner'[k] # None => connections'[keyOwner'[k]] # None
  BY <1>3 DEF Register, RelayTypeOK, Connected
<1>5. /\ state'[s] # "closed"
      /\ \A t \in Socket : state'[t] = "closed" => state[t] = "closed"
      /\ \A t \in Socket \ {s} : registered'[t] = registered[t]
  BY DEF Register, Speaks, RelayTypeOK
<1>6. \A q \in Owner : connections'[q] # None => HasSocket(q)'
  BY <1>3, <1>5 DEF Connected, HasSocket, RelayTypeOK
<1> QED
  BY <1>1, <1>2, <1>3, <1>4, <1>6, NoRequest

\* A window of the rate limit passes.
LEMMA WindowKeeps ==
    ASSUME RelayStrong, NEW o \in Owner, WindowPasses(o)
    PROVE  GoodStep
<1>1. RelayTypeOK'
  BY RelayAssumption DEF RelayStrong, RelayTypeOK, WindowPasses, requestVars
<1>2. UNCHANGED <<requestVars, state, registered, connections, keyOwner>>
  BY DEF WindowPasses
<1> QED
  BY <1>1, <1>2, NoRequest DEF RelayStrong, Connected, HasSocket, requestVars

-----------------------------------------------------------------------------
\* A request that is refused was never held.
LEMMA RefuseKeeps ==
    ASSUME RelayStrong, NEW s \in Socket, NEW r \in Request, RefuseRequest(s, r)
    PROVE  GoodStep
<1> USE RelayAssumption DEF RelayStrong, RefuseRequest
<1>0. registered[s] \in Owner
  BY DEF RelayTypeOK
<1>1. RelayTypeOK'
  <2>1. rate' \in [Owner -> 0 .. RateMax]
    BY <1>0 DEF RelayTypeOK, Admitted
  <2>2. outcome' \in [Request -> Outcome] /\ answers' \in [Request -> Nat]
    BY DEF RelayTypeOK, Outcome
  <2> QED
    BY <2>1, <2>2 DEF RelayTypeOK
<1>2. RequestOK(r) /\ pending[r] = None
  BY DEF RequestOK
<1>3. outcome'[r] = "refused" /\ answers'[r] \in {answers[r], answers[r] + 1}
  BY DEF RelayTypeOK
<1>4. RequestOK(r)' /\ EscrowMove(r)
  BY <1>2, <1>3 DEF RequestOK, EscrowMove, TimerOf, RelayTypeOK, Live
<1>5. \A q \in Request \ {r} : SameRequest(q)
  BY DEF SameRequest, RelayTypeOK
<1> QED
  BY <1>1, <1>2, <1>4, <1>5, OneRequest

\* A request is forwarded to an owner the relay can reach.
LEMMA ForwardKeeps ==
    ASSUME RelayStrong, NEW s \in Socket, NEW r \in Request,
           NEW target \in Owner \cup AgentKey, NEW priced \in BOOLEAN,
           ForwardRequest(s, r, target, priced)
    PROVE  GoodStep
<1> DEFINE from == registered[s]
           to == Resolve(target)
           new == [origin |-> from, target |-> to, lifecycle |-> "held"]
<1> USE DEF RelayStrong
<1>1. from \in Owner
  BY DEF RelayTypeOK, ForwardRequest
<1>2. to \in Owner /\ connections[to] # None
  BY DEF RelayTypeOK, ForwardRequest, Resolve, Reachable
<1>3. /\ rate' = [rate EXCEPT ![from] = @ + 1] /\ Admitted(from)
      /\ pending' = [pending EXCEPT ![r] = new] /\ timers' = [timers EXCEPT ![r] = {"idle"}]
      /\ escrow' = [escrow EXCEPT ![r] = IF priced THEN "held" ELSE "none"]
      /\ sentTo' = [sentTo EXCEPT ![r] = to]
      /\ outcome[r] = "none" /\ sentTo[r] = None
      /\ UNCHANGED <<state, registered, connections, keyOwner, online,
                       fee, answers, outcome, restarts>>
  BY DEF ForwardRequest
<1> HIDE DEF from, to
<1>4. new \in PendingRequest /\ new.target = to /\ new.lifecycle = "held" /\ new # None
  BY <1>1, <1>2, NothingIsPending DEF PendingRequest, Lifecycle
<1> HIDE DEF new
<1>5. RelayTypeOK'
  <2>1. rate' \in [Owner -> 0 .. RateMax]
    BY <1>1, <1>3, RelayAssumption DEF RelayTypeOK, Admitted
  <2>2. /\ pending' \in [Request -> PendingRequest \cup {None}]
        /\ sentTo' \in [Request -> Owner \cup {None}]
        /\ timers' \in [Request -> SUBSET {"idle", "hard", "grace"}]
    BY <1>2, <1>3, <1>4 DEF RelayTypeOK
  <2>3. escrow' \in [Request -> Live \cup {"none", "settled", "released"}]
    BY <1>3 DEF RelayTypeOK, Live
  <2> QED
    BY <1>3, <2>1, <2>2, <2>3 DEF RelayTypeOK
<1>6. /\ pending'[r] = new /\ timers'[r] = {"idle"} /\ sentTo'[r] = to
      /\ escrow'[r] \in {"held", "none"}
  BY <1>3 DEF RelayTypeOK
<1>7. RequestOK(r) /\ escrow[r] = "none" /\ to # None /\ pending[r] = None
  BY <1>2, <1>3, RelayAssumption DEF RequestOK
<1>8. RequestOK(r)' /\ EscrowMove(r)
  BY <1>3, <1>4, <1>6, <1>7 DEF RequestOK, EscrowMove, TimerOf, Live
<1>9. \A q \in Request \ {r} : SameRequest(q)
  BY <1>3 DEF SameRequest, RelayTypeOK
<1> QED
  BY <1>2, <1>3, <1>4, <1>5, <1>6, <1>8, <1>9, OneRequest

\* A pending request whose provider has begun or goes on.
LEMMA LabelKeeps ==
    ASSUME RelayStrong, NEW r \in Request, pending[r] # None,
           NEW l \in {"started", "progressing"}, NEW status,
           pending' = [pending EXCEPT ![r].lifecycle = l],
           escrow' = [escrow EXCEPT ![r] = status],
           status \in {l, "none"}, status = "none" <=> escrow[r] = "none",
           timers' \in [Request -> SUBSET {"idle", "hard", "grace"}],
           timers'[r] = {"hard"}, \A q \in Request \ {r} : timers'[q] = timers[q],
           UNCHANGED <<socketVars, sentTo, fee, answers, outcome, restarts>>
    PROVE  GoodStep
<1> USE DEF RelayStrong
<1> DEFINE new == [pending[r] EXCEPT !.lifecycle = l]
<1>1. pending[r] \in PendingRequest /\ l \in Lifecycle
  BY DEF RelayTypeOK, Lifecycle
<1>2. new \in PendingRequest /\ new.target = pending[r].target /\ new.lifecycle = l /\ new # None
  BY <1>1, Relabel, NothingIsPending
<1>3. pending' = [pending EXCEPT ![r] = new]
  BY DEF RelayTypeOK
<1> HIDE DEF new
<1>4. RelayTypeOK'
  <2>1. pending' \in [Request -> PendingRequest \cup {None}]
    BY <1>2, <1>3 DEF RelayTypeOK
  <2>2. escrow' \in [Request -> Live \cup {"none", "settled", "released"}]
    BY DEF RelayTypeOK, Live
  <2> QED
    BY <2>1, <2>2 DEF RelayTypeOK, socketVars
<1>5. pending'[r] = new /\ escrow'[r] = status
  BY <1>3 DEF RelayTypeOK
<1>6. RequestOK(r) /\ escrow[r] \in Live \cup {"none"}
  BY <1>1 DEF RequestOK, Live, PendingRequest, Lifecycle
<1>7. RequestOK(r)' /\ EscrowMove(r)
  BY <1>2, <1>5, <1>6 DEF RequestOK, EscrowMove, TimerOf, Live
<1>8. \A q \in Request \ {r} : SameRequest(q)
  BY <1>3 DEF SameRequest, RelayTypeOK
<1>9. connections[new.target] # None
  BY <1>2 DEF Connected
<1> QED
  BY <1>4, <1>5, <1>7, <1>8, <1>9, OneRequest DEF socketVars


\* relay_started on a held request.
LEMMA StartedKeeps ==
    ASSUME RelayStrong, NEW r \in Request, RelayStarted(r)
    PROVE  GoodStep
<1>1. /\ pending[r] # None /\ pending[r].lifecycle = "held"
      /\ Start(r, "started", Marked(escrow[r], {"held", "started"}, "started"))
      /\ UNCHANGED <<socketVars, sentTo, fee, answers, outcome, restarts>>
  BY DEF RelayStarted
<1>2. escrow[r] \in {"held", "none"} /\ timers \in [Request -> SUBSET {"idle", "hard", "grace"}]
  BY <1>1 DEF RelayStrong, RequestOK, RelayTypeOK
<1> DEFINE status == Marked(escrow[r], {"held", "started"}, "started")
<1>3. status \in {"started", "none"} /\ (status = "none" <=> escrow[r] = "none")
  BY <1>2 DEF Marked
<1>4. /\ pending' = [pending EXCEPT ![r].lifecycle = "started"]
      /\ timers' = [timers EXCEPT ![r] = {"hard"}]
      /\ escrow' = [escrow EXCEPT ![r] = status]
  BY <1>1 DEF Start
<1>5. /\ timers' \in [Request -> SUBSET {"idle", "hard", "grace"}] /\ timers'[r] = {"hard"}
      /\ \A q \in Request \ {r} : timers'[q] = timers[q]
  BY <1>2, <1>4
<1> HIDE DEF status
<1> QED
  BY <1>1, <1>3, <1>4, <1>5, LabelKeeps

\* relay_progress, the first or a later one.
LEMMA ProgressKeeps ==
    ASSUME RelayStrong, NEW r \in Request, RelayProgress(r)
    PROVE  GoodStep
<1>1. pending[r] # None /\ UNCHANGED <<socketVars, sentTo, fee, answers, outcome, restarts>>
  BY DEF RelayProgress
<1>2. /\ escrow[r] \in {pending[r].lifecycle, "none"} /\ timers[r] = TimerOf(r)
      /\ timers \in [Request -> SUBSET {"idle", "hard", "grace"}]
  BY <1>1 DEF RelayStrong, RequestOK, RelayTypeOK
<1>3. CASE /\ pending[r].lifecycle = "held"
           /\ Start(r, "progressing", Marked(Marked(escrow[r], {"held", "started"}, "started"),
                                             {"held", "started", "progressing"}, "progressing"))
  <2> DEFINE status == Marked(Marked(escrow[r], {"held", "started"}, "started"),
                              {"held", "started", "progressing"}, "progressing")
  <2>1. status \in {"progressing", "none"} /\ (status = "none" <=> escrow[r] = "none")
    BY <1>2, <1>3 DEF Marked
  <2>2. /\ pending' = [pending EXCEPT ![r].lifecycle = "progressing"]
        /\ timers' = [timers EXCEPT ![r] = {"hard"}]
        /\ escrow' = [escrow EXCEPT ![r] = status]
    BY <1>3 DEF Start
  <2>3. /\ timers' \in [Request -> SUBSET {"idle", "hard", "grace"}] /\ timers'[r] = {"hard"}
        /\ \A q \in Request \ {r} : timers'[q] = timers[q]
    BY <1>2, <2>2
  <2> HIDE DEF status
  <2> QED
    BY <1>1, <2>1, <2>2, <2>3, LabelKeeps
<1>4. CASE /\ pending[r].lifecycle \in {"started", "progressing"}
           /\ pending' = [pending EXCEPT ![r].lifecycle = "progressing"]
           /\ escrow' = [escrow EXCEPT ![r] = Marked(@, {"held", "started", "progressing"}, "progressing")]
           /\ UNCHANGED timers
  <2> DEFINE status == Marked(escrow[r], {"held", "started", "progressing"}, "progressing")
  <2>1. status \in {"progressing", "none"} /\ (status = "none" <=> escrow[r] = "none")
    BY <1>2, <1>4 DEF Marked
  <2>2. escrow' = [escrow EXCEPT ![r] = status]
    BY <1>4
  <2>3. timers'[r] = {"hard"}
    BY <1>1, <1>2, <1>4 DEF TimerOf
  <2> HIDE DEF status
  <2> QED
    BY <1>1, <1>2, <1>4, <2>1, <2>2, <2>3, LabelKeeps
<1> QED
  BY <1>3, <1>4 DEF RelayProgress

\* A response, with a result or with an error.
LEMMA ResponseKeeps ==
    ASSUME RelayStrong, NEW r \in Request, NEW withFee \in BOOLEAN,
           ResponseOk(r, withFee) \/ ResponseError(r)
    PROVE  GoodStep
<1>1. pending[r] # None /\ UNCHANGED <<socketVars, restarts>>
  BY DEF ResponseOk, ResponseError
<1>2. /\ fee \in [Request -> BOOLEAN] /\ ~fee[r]
      /\ Answerable({r}) \in SUBSET {r}
  BY <1>1 DEF RelayStrong, RelayTypeOK, RequestOK, Answerable
<1>3. CASE ResponseOk(r, withFee)
  <2>1. End({r}, "ok", "settled", Answerable({r})) /\ fee' = [fee EXCEPT ![r] = withFee]
    BY <1>3 DEF ResponseOk
  <2>2. fee' \in [Request -> BOOLEAN] /\ \A q \in Request \ {r} : fee'[q] = fee[q]
    BY <1>2, <2>1
  <2> QED
    BY <1>1, <1>2, <2>1, <2>2, EndKeeps
<1>4. CASE ResponseError(r)
  <2>1. End({r}, "error", "released", Answerable({r})) /\ fee' = fee
    BY <1>4 DEF ResponseError
  <2> QED
    BY <1>1, <1>2, <2>1, EndKeeps
<1> QED
  BY <1>3, <1>4

\* A timer that fires finds its request in the phase it was armed for.
LEMMA LapseKeeps ==
    ASSUME RelayStrong, NEW r \in Request, NEW timer, NEW phases, NEW answered,
           \/ timer = "idle" /\ phases = {"held"} /\ answered = Answerable({r} \cap Pending)
           \/ timer = "hard" /\ phases = {"held", "started", "progressing"}
                             /\ answered = Answerable({r} \cap Pending)
           \/ timer = "grace" /\ phases = {"abandoned"} /\ answered = {},
           Lapse(r, timer, phases, answered)
    PROVE  GoodStep
<1>1. timer \in TimerOf(r) /\ UNCHANGED <<socketVars, fee, restarts>>
  BY DEF RelayStrong, RequestOK, Lapse
<1>2. pending[r] # None
  BY <1>1 DEF TimerOf
<1>3. pending[r].lifecycle \in Lifecycle
  BY <1>2 DEF RelayStrong, RelayTypeOK, PendingRequest
<1>4. pending[r].lifecycle \in phases
  BY <1>1, <1>2, <1>3 DEF TimerOf, Lifecycle
<1>5. End({r}, "timeout", "released", answered)
  BY <1>2, <1>4 DEF Lapse
<1>6. answered \in SUBSET {r}
  BY DEF Answerable
<1>7. fee \in [Request -> BOOLEAN] /\ ~fee[r]
  BY <1>2 DEF RelayStrong, RelayTypeOK, RequestOK
<1> QED
  BY <1>1, <1>2, <1>5, <1>6, <1>7, EndKeeps

-----------------------------------------------------------------------------
\* An owner disconnects: what happens to every request at once.
LEMMA DisconnectKeeps ==
    ASSUME RelayStrong, NEW o \in Owner, Disconnect(o),
           state' \in [Socket -> {"new", "open", "closing", "closed"}],
           \A t \in Socket : state'[t] = "closed" => state[t] = "closed" \/ registered[t] = o,
           UNCHANGED <<registered, restarts>>
    PROVE  GoodStep
<1> USE DEF RelayStrong
<1> DEFINE failed == Failed(o)
           own == {r \in Pending \ failed : pending[r].origin = o}
           refunded == {r \in own : pending[r].lifecycle = "held"}
           kept == {r \in own \ refunded : pending[r].lifecycle # "abandoned"}
           ended == failed \cup refunded
           told == {r \in failed : pending[r].origin # o /\ Reachable(pending[r].origin)}
<1>1. /\ connections' = [connections EXCEPT ![o] = None]
      /\ keyOwner' = [k \in AgentKey |-> IF keyOwner[k] = o THEN None ELSE keyOwner[k]]
      /\ rate' = [rate EXCEPT ![o] = 0] /\ online' = online \ {o}
      /\ UNCHANGED <<sentTo, fee>>
  BY DEF Disconnect, RoutesWithout
<1>2. /\ pending' = [r \in Request |->
              IF r \in ended THEN None
              ELSE IF r \in kept THEN [pending[r] EXCEPT !.lifecycle = "abandoned"]
                   ELSE pending[r]]
      /\ timers' = [r \in Request |->
              IF r \in ended THEN {} ELSE IF r \in kept THEN {"grace"} ELSE timers[r]]
      /\ escrow' = [r \in Request |->
              IF r \in ended THEN Finalized(escrow[r], "released")
              ELSE IF r \in kept
                   THEN Marked(escrow[r], {"started", "progressing", "abandoned"}, "abandoned")
                   ELSE escrow[r]]
      /\ answers' = [r \in Request |-> IF r \in told THEN answers[r] + 1 ELSE answers[r]]
      /\ outcome' = [r \in Request |-> IF r \in ended THEN "gone" ELSE outcome[r]]
  BY DEF Disconnect
<1>3. /\ ended \subseteq Pending /\ told \subseteq ended /\ kept \subseteq Pending
      /\ \A r \in kept : r \notin ended /\ pending[r].lifecycle \in {"started", "progressing"}
      /\ \A r \in Pending \ ended : pending[r].target # o
  BY DEF Failed, Pending, RelayTypeOK, PendingRequest, Lifecycle
<1> HIDE DEF ended, kept, told
<1>4. ASSUME NEW r \in Request
      PROVE  /\ RequestOK(r)' /\ EscrowMove(r)
             /\ pending'[r] \in PendingRequest \cup {None}
             /\ pending'[r] # None => pending[r] # None /\ r \notin ended
                                      /\ pending'[r].target = pending[r].target
             /\ escrow'[r] \in Live \cup {"none", "settled", "released"}
             /\ timers'[r] \in SUBSET {"idle", "hard", "grace"}
             /\ answers'[r] \in Nat /\ outcome'[r] \in Outcome
  <2>t. /\ RequestOK(r) /\ pending[r] \in PendingRequest \cup {None}
        /\ escrow[r] \in Live \cup {"none", "settled", "released"}
        /\ timers[r] \in SUBSET {"idle", "hard", "grace"}
        /\ answers[r] \in Nat /\ outcome[r] \in Outcome
        /\ sentTo'[r] = sentTo[r] /\ fee'[r] = fee[r]
    BY <1>1 DEF RelayTypeOK
  <2>1. CASE r \in ended
    <3>1. pending[r] # None
      BY <1>3, <2>1 DEF Pending
    <3>2. /\ pending'[r] = None /\ timers'[r] = {} /\ escrow'[r] = Finalized(escrow[r], "released")
          /\ answers'[r] \in {answers[r], answers[r] + 1} /\ outcome'[r] = "gone"
      BY <1>2, <2>1
    <3>3. escrow[r] \in Live \cup {"none"}
      BY <2>t, <3>1 DEF RequestOK, PendingRequest, Lifecycle, Live
    <3>4. RequestOK(r)' /\ EscrowMove(r)
      BY <2>t, <3>1, <3>2, <3>3 DEF RequestOK, EscrowMove, Finalized, TimerOf, Live
    <3> QED
      BY <2>t, <3>2, <3>3, <3>4 DEF Finalized, Outcome
  <2>2. CASE r \in kept
    <3> DEFINE new == [pending[r] EXCEPT !.lifecycle = "abandoned"]
    <3>1. pending[r] # None /\ r \notin ended /\ pending[r].lifecycle \in {"started", "progressing"}
      BY <1>3, <2>2 DEF Pending
    <3>2. new \in PendingRequest /\ new.target = pending[r].target /\ new.lifecycle = "abandoned"
          /\ new # None
      BY <2>t, <3>1, Relabel, NothingIsPending DEF Lifecycle
    <3>3. /\ pending'[r] = new /\ timers'[r] = {"grace"}
          /\ escrow'[r] = Marked(escrow[r], {"started", "progressing", "abandoned"}, "abandoned")
          /\ answers'[r] = answers[r] /\ outcome'[r] = outcome[r]
      BY <1>2, <1>3, <2>2, <3>1
    <3> HIDE DEF new
    <3>4. escrow[r] \in {"started", "progressing", "none"}
      BY <2>t, <3>1 DEF RequestOK
    <3>5. RequestOK(r)' /\ EscrowMove(r)
      BY <2>t, <3>1, <3>2, <3>3, <3>4 DEF RequestOK, EscrowMove, Marked, TimerOf, Live
    <3> QED
      BY <2>t, <3>1, <3>2, <3>3, <3>4, <3>5 DEF Marked, Live
  <2>3. CASE r \notin ended /\ r \notin kept
    <3>1. SameRequest(r)
      BY <1>1, <1>2, <1>3, <2>3 DEF SameRequest
    <3> QED
      BY <2>t, <2>3, <3>1, SameKeeps DEF SameRequest
  <2> QED
    BY <2>1, <2>2, <2>3
<1>5. RelayTypeOK'
  <2>1. /\ connections' \in [Owner -> Socket \cup {None}] /\ keyOwner' \in [AgentKey -> Owner \cup {None}]
        /\ rate' \in [Owner -> 0 .. RateMax] /\ online' \in SUBSET (Owner \ Ephemeral)
    BY <1>1, RelayAssumption DEF RelayTypeOK
  <2>2. /\ pending' \in [Request -> PendingRequest \cup {None}]
        /\ timers' \in [Request -> SUBSET {"idle", "hard", "grace"}]
    BY <1>2, <1>4
  <2>3. /\ escrow' \in [Request -> Live \cup {"none", "settled", "released"}]
        /\ answers' \in [Request -> Nat] /\ outcome' \in [Request -> Outcome]
    BY <1>2, <1>4
  <2> QED
    BY <1>1, <2>1, <2>2, <2>3 DEF RelayTypeOK
<1>6. Connected'
  <2>1. ASSUME NEW r \in Request, pending'[r] # None PROVE connections'[pending'[r].target] # None
    <3>1. pending[r] # None /\ r \notin ended /\ pending'[r].target = pending[r].target
      BY <1>4, <2>1
    <3>2. pending[r].target # o /\ pending[r].target \in Owner
      BY <1>3, <3>1 DEF Pending, RelayTypeOK, PendingRequest
    <3> QED
      BY <1>1, <3>1, <3>2 DEF Connected, RelayTypeOK
  <2>2. \A k \in AgentKey : keyOwner'[k] # None => connections'[keyOwner'[k]] # None
    BY <1>1 DEF Connected, RelayTypeOK
  <2>3. ASSUME NEW q \in Owner, connections'[q] # None PROVE HasSocket(q)'
    BY <1>1, <2>3 DEF Connected, HasSocket, RelayTypeOK
  <2> QED
    BY <2>1, <2>2, <2>3 DEF Connected
<1> QED
  BY <1>4, <1>5, <1>6 DEF GoodStep


\* A socket that closes or fails disconnects its owner, if it has one.
LEMMA SocketKeeps ==
    ASSUME RelayStrong, NEW s \in Socket, SocketClosed(s) \/ SocketError(s)
    PROVE  GoodStep
<1>0. \A t \in Socket : state'[t] = "closed" => state[t] = "closed" \/ t = s
  BY DEF SocketClosed, SocketError, RelayStrong, RelayTypeOK
<1>1. /\ state' \in [Socket -> {"new", "open", "closing", "closed"}]
      /\ UNCHANGED <<registered, restarts>>
  BY DEF SocketClosed, SocketError, RelayStrong, RelayTypeOK
<1>2. CASE registered[s] = None
  <2>1. UNCHANGED <<connections, keyOwner, rate, online, requestVars>>
    BY <1>2 DEF SocketClosed, SocketError
  <2>2. RelayTypeOK'
    BY <1>1, <2>1 DEF RelayStrong, RelayTypeOK, requestVars
  <2>3. ASSUME NEW q \in Owner, connections'[q] # None PROVE HasSocket(q)'
    BY <1>1, <1>2, <1>0, <2>1, <2>3, RelayAssumption
    DEF RelayStrong, Connected, HasSocket, RelayTypeOK
  <2> QED
    BY <2>1, <2>2, <2>3, NoRequest DEF RelayStrong, Connected
<1>3. CASE registered[s] # None
  <2>1. Disconnect(registered[s]) /\ registered[s] \in Owner
    BY <1>3 DEF SocketClosed, SocketError, RelayStrong, RelayTypeOK
  <2> QED
    BY <1>1, <1>0, <2>1, DisconnectKeeps
<1> QED
  BY <1>2, <1>3

\* A restart forgets the requests and keeps the rows.
LEMMA RestartKeeps ==
    ASSUME RelayStrong, NEW old \in SUBSET Request, Restart(old)
    PROVE  GoodStep
<1> USE RelayAssumption DEF RelayStrong, Restart
<1>1. ASSUME NEW r \in Request
      PROVE  /\ RequestOK(r)' /\ EscrowMove(r)
             /\ escrow'[r] \in Live \cup {"none", "settled", "released"}
             /\ outcome'[r] \in Outcome
  <2>1. /\ RequestOK(r) /\ escrow[r] \in Live \cup {"none", "settled", "released"}
        /\ outcome[r] \in Outcome
    BY DEF RelayTypeOK
  <2>2. /\ pending'[r] = None /\ timers'[r] = {} /\ sentTo'[r] = sentTo[r] /\ fee'[r] = fee[r]
        /\ answers'[r] = answers[r]
        /\ outcome'[r] = (IF pending[r] # None THEN "lost" ELSE outcome[r])
        /\ escrow'[r] = (IF r \in old THEN Finalized(escrow[r], "released") ELSE escrow[r])
        /\ r \in old => escrow[r] \in {"held", "abandoned"}
    BY DEF Pending, Orphans
  <2>3. escrow'[r] = escrow[r] \/ (escrow[r] \in Live /\ escrow'[r] = "released")
    BY <2>2 DEF Finalized
  <2>4. RequestOK(r)'
    BY <2>1, <2>2, <2>3 DEF RequestOK, TimerOf, Live
  <2> QED
    BY <2>1, <2>2, <2>3, <2>4 DEF EscrowMove, Outcome
<1>2. RelayTypeOK'
  <2>1. escrow' \in [Request -> Live \cup {"none", "settled", "released"}] /\ outcome' \in [Request -> Outcome]
    BY <1>1
  <2>2. /\ state' \in [Socket -> {"new", "open", "closing", "closed"}]
        /\ connections' \in [Owner -> Socket \cup {None}] /\ keyOwner' \in [AgentKey -> Owner \cup {None}]
        /\ rate' \in [Owner -> 0 .. RateMax]
    BY DEF RelayTypeOK
  <2>3. /\ pending' \in [Request -> PendingRequest \cup {None}]
        /\ timers' \in [Request -> SUBSET {"idle", "hard", "grace"}]
        /\ restarts' \in 0 .. MaxRestarts
    BY DEF RelayTypeOK
  <2> QED
    BY <2>1, <2>2, <2>3 DEF RelayTypeOK
<1>3. Connected'
  BY DEF Connected
<1> QED
  BY <1>1, <1>2, <1>3 DEF GoodStep

-----------------------------------------------------------------------------
\* Nothing is pending, held or routed at the start.
LEMMA InitStrong == RelayInit => RelayStrong
<1> SUFFICES ASSUME RelayInit PROVE RelayStrong
  OBVIOUS
<1> USE RelayAssumption DEF RelayInit
<1>1. RelayTypeOK
  <2>1. /\ state \in [Socket -> {"new", "open", "closing", "closed"}]
        /\ registered \in [Socket -> Owner \cup {None}] /\ connections \in [Owner -> Socket \cup {None}]
        /\ keyOwner \in [AgentKey -> Owner \cup {None}] /\ rate \in [Owner -> 0 .. RateMax]
    OBVIOUS
  <2>2. /\ pending \in [Request -> PendingRequest \cup {None}]
        /\ timers \in [Request -> SUBSET {"idle", "hard", "grace"}]
        /\ sentTo \in [Request -> Owner \cup {None}]
        /\ escrow \in [Request -> Live \cup {"none", "settled", "released"}]
    OBVIOUS
  <2>3. outcome \in [Request -> Outcome] /\ answers \in [Request -> Nat]
    BY DEF Outcome
  <2>4. fee \in [Request -> BOOLEAN]
    OBVIOUS
  <2> QED
    BY <2>1, <2>2, <2>3, <2>4 DEF RelayTypeOK
<1>2. \A r \in Request : RequestOK(r)
  BY DEF RequestOK, TimerOf, Live
<1>3. Connected
  BY DEF Connected
<1> QED
  BY <1>1, <1>2, <1>3 DEF RelayStrong

\* Every step keeps the invariant and moves escrows as it may.
LEMMA StepIsGood ==
    ASSUME RelayStrong, RelayNext
    PROVE  GoodStep
<1>1. CASE Traffic
  <2>1. ASSUME NEW s \in Socket, Connect(s) \/ SocketClosed(s) \/ SocketError(s) PROVE GoodStep
    BY <2>1, ConnectKeeps, SocketKeeps
  <2>2. ASSUME NEW s \in Socket, NEW o \in Owner, NEW keys \in SUBSET AgentKey, Register(s, o, keys)
        PROVE  GoodStep
    BY <2>2, RegisterKeeps
  <2>3. ASSUME NEW o \in Owner, WindowPasses(o) PROVE GoodStep
    BY <2>3, WindowKeeps
  <2>4. ASSUME NEW s \in Socket, NEW r \in Request, RefuseRequest(s, r) PROVE GoodStep
    BY <2>4, RefuseKeeps
  <2>5. ASSUME NEW s \in Socket, NEW r \in Request, NEW target \in Owner \cup AgentKey,
               NEW priced \in BOOLEAN, ForwardRequest(s, r, target, priced)
        PROVE  GoodStep
    BY <2>5, ForwardKeeps
  <2>6. ASSUME NEW r \in Request, RelayStarted(r) \/ RelayProgress(r) PROVE GoodStep
    BY <2>6, StartedKeeps, ProgressKeeps
  <2>7. ASSUME NEW r \in Request, NEW withFee \in BOOLEAN, ResponseOk(r, withFee) \/ ResponseError(r)
        PROVE  GoodStep
    BY <2>7, ResponseKeeps
  <2> QED
    BY <1>1, <2>1, <2>2, <2>3, <2>4, <2>5, <2>6, <2>7 DEF Traffic
<1>2. ASSUME NEW r \in Request, TimerFires(r) PROVE GoodStep
  BY <1>2, LapseKeeps DEF TimerFires, IdleTimeout, HardTimeout, GraceTimeout
<1>3. ASSUME NEW old \in SUBSET Request, Restart(old) PROVE GoodStep
  BY <1>3, RestartKeeps
<1> QED
  BY <1>1, <1>2, <1>3 DEF RelayNext

\* A stuttering step keeps the invariant.
LEMMA StutterKeeps ==
    ASSUME RelayStrong, UNCHANGED relayVars
    PROVE  RelayStrong'
<1>1. \A r \in Request : SameRequest(r)
  BY DEF relayVars, SameRequest
<1>2. \A r \in Request : RequestOK(r)'
  BY <1>1, SameKeeps DEF RelayStrong
<1>3. RelayTypeOK' /\ Connected'
  BY DEF RelayStrong, relayVars, RelayTypeOK, Connected, HasSocket
<1> QED
  BY <1>2, <1>3 DEF RelayStrong

\* The invariant contains what the runs check.
LEMMA StrongImplies ==
    RelayStrong => RelayInv /\ PaidForResults /\ AnsweredAtMostOnce /\ RoutesLead
<1> SUFFICES ASSUME RelayStrong
             PROVE  RelayInv /\ PaidForResults /\ AnsweredAtMostOnce /\ RoutesLead
  OBVIOUS
<1>1. EscrowTracksPending
  BY DEF RelayStrong, RequestOK, EscrowTracksPending, Live, RelayTypeOK, PendingRequest, Lifecycle
<1>2. TimerOfPhase
  BY DEF RelayStrong, RequestOK, TimerOfPhase, TimerOf
<1>3. PendingHasProvider
  BY DEF RelayStrong, Connected, PendingHasProvider, Pending, RelayTypeOK, PendingRequest
<1>4. RoutesLead
  BY DEF RelayStrong, Connected, RoutesLead, RelayTypeOK
<1>5. PaidForResults /\ AnsweredAtMostOnce
  BY DEF RelayStrong, RequestOK, PaidForResults, AnsweredAtMostOnce
<1> QED
  BY <1>1, <1>2, <1>3, <1>4, <1>5 DEF RelayStrong, RelayInv

-----------------------------------------------------------------------------
\* The inductive invariant holds throughout.
THEOREM RelayStrongHolds == RelaySpec => []RelayStrong
<1>1. RelayInit => RelayStrong
  BY InitStrong
<1>2. RelayStrong /\ [RelayNext]_relayVars => RelayStrong'
  BY StepIsGood, StutterKeeps DEF GoodStep
<1> QED
  BY <1>1, <1>2, PTL DEF RelaySpec

\* What the relay tracks, its timers and the escrows agree, for any number of
\* sockets, requests, disconnects and restarts (setPendingTimer,
\* markEscrowStarted and its kin in src/src/relay/websocket-relay.ts).
THEOREM RelayAgrees == RelaySpec => []RelayInv
<1> QED
  BY StrongImplies, RelayStrongHolds, PTL

\* The provider is paid for results only, and every request that ends without
\* one is refunded (handleRelayResponse, handleDisconnect and the timers).
THEOREM RelayPaysForResults == RelaySpec => []PaidForResults
<1> QED
  BY StrongImplies, RelayStrongHolds, PTL

\* No requester hears of its request twice, whatever races with its end.
THEOREM RelayAnswersOnce == RelaySpec => []AnsweredAtMostOnce
<1> QED
  BY StrongImplies, RelayStrongHolds, PTL

\* No route of an agent id outlives the socket of its owner, whatever sockets
\* are replaced, renamed or closed late (agentIdToOwner); the route of a
\* socket that has taken a second name may.
THEOREM RelayRoutesLead == RelaySpec => []RoutesLead
<1> QED
  BY StrongImplies, RelayStrongHolds, PTL

-----------------------------------------------------------------------------
\* What the refinement mapping makes of the moves of an escrow.
LEMMA MovesArePromised ==
    ASSUME RelayStrong, GoodStep
    PROVE  RelayPromise!PromiseNext
<1> DEFINE phase == [r \in Request |->
               CASE escrow[r] = "none" -> "none"
                 [] escrow[r] = "settled" -> "paid"
                 [] escrow[r] = "released" -> "refunded"
                 [] OTHER -> "open"]
           amount == [r \in Request |-> IF escrow[r] = "none" THEN 0 ELSE 1]
           out == [r \in Request |-> IF escrow[r] \in {"settled", "released"} THEN 1 ELSE 0]
<1> SUFFICES ASSUME NEW r \in Request
             PROVE  \/ /\ phase'[r] = phase[r] /\ amount'[r] = amount[r] /\ out'[r] = out[r]
                    \/ /\ phase[r] = "none" /\ phase'[r] = "open"
                       /\ amount'[r] \in {1} /\ out'[r] = out[r]
                    \/ /\ phase[r] = "open"
                       /\ \/ phase'[r] \in {"paid", "refunded"} /\ out'[r] = amount[r]
                          \/ phase'[r] = "confirmed" /\ out'[r] = 0
                       /\ amount'[r] = amount[r]
  BY DEF RelayPromise!PromiseNext, RelayPromise!Stays, RelayPromise!Opens, RelayPromise!Closes
<1>1. /\ phase[r] = CASE escrow[r] = "none" -> "none"
                      [] escrow[r] = "settled" -> "paid"
                      [] escrow[r] = "released" -> "refunded"
                      [] OTHER -> "open"
      /\ phase'[r] = CASE escrow'[r] = "none" -> "none"
                       [] escrow'[r] = "settled" -> "paid"
                       [] escrow'[r] = "released" -> "refunded"
                       [] OTHER -> "open"
      /\ amount[r] = IF escrow[r] = "none" THEN 0 ELSE 1
      /\ amount'[r] = IF escrow'[r] = "none" THEN 0 ELSE 1
      /\ out[r] = IF escrow[r] \in {"settled", "released"} THEN 1 ELSE 0
      /\ out'[r] = IF escrow'[r] \in {"settled", "released"} THEN 1 ELSE 0
  OBVIOUS
<1> HIDE DEF phase, amount, out
<1>2. EscrowMove(r)
  BY DEF GoodStep
<1> QED
  BY <1>1, <1>2 DEF EscrowMove, Live

\* The relay keeps the promise of the escrow: each hold is paid out once, in
\* full, to one side, whatever ends its request (src/src/credit/escrow.ts).
THEOREM RelayEscrowPromise == RelaySpec => RelayKeepsPromise
<1>1. RelayInit => RelayPromise!PromiseInit
  BY DEF RelayInit, RelayPromise!PromiseInit
<1>2. RelayStrong /\ [RelayNext]_relayVars => [RelayPromise!PromiseNext]_RelayPromise!promiseVars
  <2>1. ASSUME RelayStrong, RelayNext PROVE RelayPromise!PromiseNext
    BY <2>1, StepIsGood, MovesArePromised
  <2>2. ASSUME UNCHANGED relayVars PROVE UNCHANGED RelayPromise!promiseVars
    BY <2>2 DEF relayVars, RelayPromise!promiseVars
  <2> QED
    BY <2>1, <2>2
<1> QED
  BY <1>1, <1>2, RelayStrongHolds, PTL
  DEF RelaySpec, RelayKeepsPromise, RelayPromise!PromiseSpec


=============================================================================
