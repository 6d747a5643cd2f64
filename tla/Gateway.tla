------------------------------ MODULE Gateway ------------------------------
(***************************************************************************)
(* The provider's gateway: POST /rpc of src/src/gateway/server.ts and the  *)
(* request handler executeCapabilityRequest of src/src/gateway/execute.ts  *)
(* that it shares with the relay client.                                   *)
(*                                                                         *)
(* Handlers run concurrently in one process and give way to one another at *)
(* their awaits: the credit sync with the registry, the load of the        *)
(* provider's configuration, and the skill's execution.  What lies between *)
(* two awaits is one action.  The credit database is shared with other     *)
(* processes of the node; an orphan recovery is started by each of them.   *)
(* The sync overwrites the balance of the node's own account, which no     *)
(* requester of this module has.                                           *)
(***************************************************************************)
EXTENDS Integers, FiniteSetsExt

CONSTANTS
    Handler,         \* requests to the gateway
    Price,           \* credits_per_call of the skill
    InitialBalance,  \* the requesters' balance, one account
    MaxConcurrent,   \* capacity.max_concurrent of the skill
    DailyLimit,      \* provider_daily_limit, 0 for none
    MaxFaults,       \* bound: failing writes of the reputation
    MaxCrashes       \* bound: crashes of the process

ASSUME GatewayAssumption ==
    /\ IsFiniteSet(Handler)
    /\ Price \in Nat \ {0}
    /\ {InitialBalance, MaxConcurrent, DailyLimit, MaxFaults, MaxCrashes} \subseteq Nat

VARIABLES
    kind,      \* over HTTP, alone or as an item of a JSON-RPC array, with a
               \* skill_id ("skill", "skillItem") or without ("card",
               \* "cardItem"); "relay": authorised by the relay; "receipt":
               \* with a receipt
    post,      \* the items of the array that the handler's request came in
    class,     \* "plain", "white" (listed) or "refused" (black-listed, or the
               \* provider does not accept)
    phase,     \* where the handler waits
    escrow,    \* status of the handler's escrow row
    outcome,   \* what executeCapabilityRequest returned or threw
    work,      \* the skill's own execution
    reputation,\* what the request did to the card's success rate
    rows,      \* rows of the request in request_log
    inFlight,  \* inFlight of the gateway: under the skill, under the card
    balance,   \* the requesters' balance
    faults,
    crashes

handlerVars == <<kind, post, class, phase, escrow, outcome, work, reputation, rows>>
processVars == <<inFlight, balance, faults, crashes>>
gatewayVars == <<handlerVars, processVars>>

Single == {"skill", "card"}
Item == {"skillItem", "cardItem"}
Class == {"plain", "white", "refused"}
Key == {"skill", "card"}
Active == {"syncing", "holding", "running"}

GatewayTypeOK ==
    /\ kind \in [Handler -> Single \cup Item \cup {"relay", "receipt", "none"}]
    /\ post \in [Handler -> SUBSET Handler]
    /\ class \in [Handler -> Class]
    /\ phase \in [Handler -> Active \cup {"none", "ended", "lost"}]
    /\ escrow \in [Handler -> {"none", "held", "settled", "released"}]
    /\ outcome \in [Handler -> {"none", "ok", "error", "overload", "thrown"}]
    /\ work \in [Handler -> {"none", "going", "over"}]
    /\ reputation \in [Handler -> {"same", "up", "down"}]
    /\ rows \in [Handler -> Nat]
    /\ inFlight \in [Key -> Nat] /\ balance \in Nat
    /\ faults \in 0 .. MaxFaults /\ crashes \in 0 .. MaxCrashes

GatewayInit ==
    /\ kind = [h \in Handler |-> "none"]
    /\ post = [h \in Handler |-> {}]
    /\ class = [h \in Handler |-> "plain"]
    /\ phase = [h \in Handler |-> "none"]
    /\ escrow = [h \in Handler |-> "none"]
    /\ outcome = [h \in Handler |-> "none"]
    /\ work = [h \in Handler |-> "none"]
    /\ reputation = [h \in Handler |-> "same"]
    /\ rows = [h \in Handler |-> 0]
    /\ inFlight = [k \in Key |-> 0]
    /\ balance = InitialBalance
    /\ faults = 0 /\ crashes = 0

\* Requests over HTTP are counted under skill_id ?? card_id.
Counted(h) == kind[h] \in Single \cup Item
TrackKey(h) == IF kind[h] \in {"skill", "skillItem"} THEN "skill" ELSE "card"

\* The `finally` of /rpc: the slot is given back however the handler ended.
End(h, result) ==
    /\ phase' = [phase EXCEPT ![h] = "ended"]
    /\ outcome' = [outcome EXCEPT ![h] = result]
    /\ inFlight' = IF Counted(h) THEN [inFlight EXCEPT ![TrackKey(h)] = @ - 1] ELSE inFlight

\* The requester gets its answer: a single request when its handler returns,
\* the items of an array together, once all have returned and none has thrown.
Answered(h) ==
    \A g \in post[h] \cup {h} : phase[g] = "ended" /\ outcome[g] # "thrown"

\* if (escrowId) releaseEscrow(...)
Refund(h) ==
    IF escrow[h] = "held"
    THEN /\ escrow' = [escrow EXCEPT ![h] = "released"]
         /\ balance' = balance + Price
    ELSE UNCHANGED <<escrow, balance>>
\* releaseEscrow and settleEscrow throw on an escrow that is finalised.
Finalised(h) == escrow[h] \in {"settled", "released"}

-----------------------------------------------------------------------------
(* Arrival                                                                 *)

AtCapacity == inFlight["skill"] >= MaxConcurrent

\* A single request that names the skill, beyond the skill's capacity, is
\* logged and turned away.
Overload(h) ==
    /\ phase[h] = "none" /\ AtCapacity
    /\ kind' = [kind EXCEPT ![h] = "skill"]
    /\ phase' = [phase EXCEPT ![h] = "ended"]
    /\ outcome' = [outcome EXCEPT ![h] = "overload"]
    /\ rows' = [rows EXCEPT ![h] = 1]
    /\ UNCHANGED <<post, class, escrow, work, reputation, processVars>>

\* Seeded fault: the capacity is compared with the requests that ran before.
AdmitsOneMore(k) == k = "skill" => inFlight["skill"] <= MaxConcurrent
\* The capacity is looked at for a single request with a skill_id only: one
\* without it runs the card's first skill, and is counted under the card.
Admits(k) == k = "skill" => ~AtCapacity

\* A single request takes its slot and syncs the balance; a relayed one is not
\* counted and holds nothing here.
Arrive(h, k, c) ==
    /\ phase[h] = "none" /\ Admits(k)
    /\ kind' = [kind EXCEPT ![h] = k]
    /\ class' = [class EXCEPT ![h] = c]
    /\ phase' = [phase EXCEPT ![h] = IF k = "relay" THEN "holding" ELSE "syncing"]
    /\ inFlight' = IF k \in Key THEN [inFlight EXCEPT ![k] = @ + 1] ELSE inFlight
    /\ UNCHANGED <<post, escrow, outcome, work, reputation, rows, balance, faults, crashes>>

\* A JSON-RPC array: its items run up to their first await one after the other,
\* those of `named` with a skill_id.  No item looks at the capacity.
ArriveArray(items, named, c) ==
    /\ \A h \in items : phase[h] = "none"
    /\ kind' = [h \in Handler |-> IF h \in named THEN "skillItem"
                                 ELSE IF h \in items THEN "cardItem" ELSE kind[h]]
    /\ post' = [h \in Handler |-> IF h \in items THEN items ELSE post[h]]
    /\ class' = [h \in Handler |-> IF h \in items THEN c[h] ELSE class[h]]
    /\ phase' = [h \in Handler |-> IF h \in items THEN "syncing" ELSE phase[h]]
    /\ inFlight' = [k \in Key |-> inFlight[k] + Cardinality(IF k = "skill" THEN named
                                                            ELSE items \ named)]
    /\ UNCHANGED <<escrow, outcome, work, reputation, rows, balance, faults, crashes>>

\* Unknown card or skill, a paid request with a receipt: refused at once.  The
\* guard against self-requests leaves a row in the log.
RefuseAtOnce(h) ==
    /\ phase[h] = "none"
    /\ kind' = [kind EXCEPT ![h] = "receipt"]
    /\ phase' = [phase EXCEPT ![h] = "ended"]
    /\ outcome' = [outcome EXCEPT ![h] = "error"]
    /\ \E n \in {0, 1} : rows' = [rows EXCEPT ![h] = n]
    /\ UNCHANGED <<post, class, escrow, work, reputation, processVars>>

\* The sync returned, failed or timed out: balance check and hold.
Hold(h) ==
    /\ phase[h] = "syncing"
    /\ IF balance < Price
       THEN End(h, "error") /\ UNCHANGED <<escrow, balance>>
       ELSE /\ escrow' = [escrow EXCEPT ![h] = "held"]
            /\ balance' = balance - Price
            /\ phase' = [phase EXCEPT ![h] = "holding"]
            /\ UNCHANGED <<outcome, inFlight>>
    /\ UNCHANGED <<kind, post, class, work, reputation, rows, faults, crashes>>

-----------------------------------------------------------------------------
(* The provider's gate                                                     *)

\* countTodayExecutions: every row of the day, refusals and overloads too.
Today == MapThenSumSet(LAMBDA h : rows[h], Handler)
LimitReached(h) == class[h] # "white" /\ DailyLimit > 0 /\ Today >= DailyLimit

\* Not accepting, black-listed or over the daily limit.  A release that throws
\* because a recovery was faster rejects the handler.
\* Seeded fault: this early return forgets the escrow.
TurnAwayKeeps(h) ==
    /\ phase[h] = "holding"
    /\ class[h] = "refused" \/ LimitReached(h)
    /\ IF Finalised(h) THEN End(h, "thrown") ELSE End(h, "error")
    /\ UNCHANGED <<kind, post, class, escrow, work, reputation, rows, balance, faults, crashes>>
TurnAway(h) ==
    /\ phase[h] = "holding"
    /\ class[h] = "refused" \/ LimitReached(h)
    /\ IF Finalised(h)
       THEN End(h, "thrown") /\ UNCHANGED <<escrow, balance>>
       ELSE End(h, "error") /\ Refund(h)
    /\ UNCHANGED <<kind, post, class, work, reputation, rows, faults, crashes>>

Start(h) ==
    /\ phase[h] = "holding"
    /\ class[h] # "refused" /\ ~LimitReached(h)
    /\ phase' = [phase EXCEPT ![h] = "running"]
    /\ work' = [work EXCEPT ![h] = "going"]
    /\ UNCHANGED <<kind, post, class, escrow, outcome, reputation, rows, processVars>>

-----------------------------------------------------------------------------
(* The end of the execution                                                *)

WriteFails == faults < MaxFaults /\ faults' = faults + 1

\* handleFailure: release, then the penalty, then the row.  It rejects when
\* the release throws or the reputation cannot be written.
HandleFailure(h, penalty) ==
    /\ IF Finalised(h)
       THEN /\ End(h, "thrown")
            /\ UNCHANGED <<escrow, balance, reputation, rows, faults>>
       ELSE /\ Refund(h)
            /\ \/ /\ End(h, "error")
                  /\ reputation' = [reputation EXCEPT ![h] = IF penalty THEN "down" ELSE @]
                  /\ rows' = [rows EXCEPT ![h] = @ + 1]
                  /\ UNCHANGED faults
               \/ /\ penalty /\ WriteFails
                  /\ End(h, "thrown")
                  /\ UNCHANGED <<reputation, rows>>
    /\ UNCHANGED <<kind, post, class, crashes>>

HandleSuccess(h) ==
    /\ escrow[h] \in {"none", "held"}
    /\ End(h, "ok")
    /\ escrow' = [escrow EXCEPT ![h] = IF @ = "held" THEN "settled" ELSE @]
    /\ reputation' = [reputation EXCEPT ![h] = "up"]
    /\ rows' = [rows EXCEPT ![h] = @ + 1]
    /\ UNCHANGED <<kind, post, class, balance, faults, crashes>>

\* handleSuccess settles, and the reputation cannot be written: the catch
\* around it runs handleFailure, whose release throws in its turn.  A relayed
\* request has no escrow and fails with a penalty.
SuccessBreaks(h) ==
    /\ WriteFails
    /\ IF escrow[h] = "held"
       THEN /\ End(h, "thrown")
            /\ escrow' = [escrow EXCEPT ![h] = "settled"]
            /\ UNCHANGED <<reputation, rows>>
       ELSE /\ escrow[h] = "none"
            /\ End(h, "error")
            /\ reputation' = [reputation EXCEPT ![h] = "down"]
            /\ rows' = [rows EXCEPT ![h] = @ + 1]
            /\ UNCHANGED escrow
    /\ UNCHANGED <<kind, post, class, balance, crashes>>

\* The skill returns a result; settleEscrow throws when a recovery has
\* released the escrow meanwhile, and then the release throws too.
Succeed(h) ==
    /\ phase[h] = "running" /\ work[h] = "going"
    /\ work' = [work EXCEPT ![h] = "over"]
    /\ \/ HandleSuccess(h)
       \/ SuccessBreaks(h)
       \/ Finalised(h) /\ HandleFailure(h, TRUE)

\* Seeded fault: a failed execution pays the provider.
FailPays(h) ==
    /\ phase[h] = "running" /\ work[h] = "going"
    /\ work' = [work EXCEPT ![h] = "over"]
    /\ escrow' = [escrow EXCEPT ![h] = IF @ = "held" THEN "settled" ELSE @]
    /\ End(h, "error")
    /\ reputation' = [reputation EXCEPT ![h] = "down"]
    /\ rows' = [rows EXCEPT ![h] = @ + 1]
    /\ UNCHANGED <<kind, post, class, balance, faults, crashes>>

\* The skill fails, or no skill is there to run ('not_found': no penalty).
Fail(h) ==
    /\ phase[h] = "running" /\ work[h] = "going"
    /\ work' = [work EXCEPT ![h] = "over"]
    /\ \E penalty \in BOOLEAN : HandleFailure(h, penalty)

\* The skill's time limit passes and the work goes on unheard.  The skill
\* executor reports it as a failure like any other, the HTTP path as a timeout.
Timeout(h) ==
    /\ phase[h] = "running"
    /\ UNCHANGED work
    /\ \E penalty \in BOOLEAN : HandleFailure(h, penalty)

WorkEnds(h) ==
    /\ work[h] = "going" /\ phase[h] # "running"
    /\ work' = [work EXCEPT ![h] = "over"]
    /\ UNCHANGED <<kind, post, class, phase, escrow, outcome, reputation, rows, processVars>>

-----------------------------------------------------------------------------
(* Crash and recovery                                                      *)

Crash ==
    /\ crashes < MaxCrashes
    /\ crashes' = crashes + 1
    /\ phase' = [h \in Handler |-> IF phase[h] \in Active THEN "lost" ELSE phase[h]]
    /\ work' = [h \in Handler |-> IF work[h] = "going" THEN "over" ELSE work[h]]
    /\ inFlight' = [k \in Key |-> 0]
    /\ UNCHANGED <<kind, post, class, escrow, outcome, reputation, rows, balance, faults>>

\* A process of the node starts and releases the holds that are old enough,
\* be their handler lost or at work.
Recover(h) ==
    /\ escrow[h] = "held"
    /\ Refund(h)
    /\ UNCHANGED <<kind, post, class, phase, outcome, work, reputation, rows, inFlight,
                   faults, crashes>>

-----------------------------------------------------------------------------

Handle(h) ==
    \/ \E k \in Single \cup {"relay"}, c \in Class : Arrive(h, k, c)
    \/ Overload(h) \/ RefuseAtOnce(h)
    \/ Hold(h) \/ TurnAway(h) \/ Start(h)
    \/ Succeed(h) \/ Fail(h) \/ Timeout(h) \/ WorkEnds(h)

GatewayNext ==
    \/ \E h \in Handler : Handle(h) \/ Recover(h)
    \/ \E items \in SUBSET Handler : \E named \in SUBSET items, c \in [items -> Class] :
          ArriveArray(items, named, c)
    \/ Crash

\* Awaits end: the sync and the time limit have timers of their own.
GatewayFairness ==
    \A h \in Handler :
       WF_gatewayVars(Hold(h) \/ TurnAway(h) \/ Start(h) \/ Timeout(h))

GatewaySpec == GatewayInit /\ [][GatewayNext]_gatewayVars /\ GatewayFairness

-----------------------------------------------------------------------------
(* Properties                                                              *)

\* No path out of a handler leaves its hold behind: an escrow is held only
\* while its handler waits or runs, or once a crash has lost the handler
\* (execute.ts:347, :354, :366, :394).
HoldEndsWithHandler ==
    \A h \in Handler : escrow[h] = "held" => phase[h] \in {"holding", "running", "lost"}

\* Why an item that is done has no answer yet, or never will: another item of
\* its array is at work, was lost in a crash, or threw.
HeldUp(h) ==
    \E g \in post[h] \ {h} :
       \/ phase[g] \in Active
       \/ phase[g] = "lost" /\ crashes > 0
       \/ outcome[g] = "thrown" /\ (faults > 0 \/ escrow[g] = "released")

\* Paid means answered and answered means paid.  A direct request that
\* succeeded is settled and one that was refused or failed cost nothing.  A
\* settled one has its answer, unless its own writes broke after the
\* settlement, or an item of the same array holds it up: the array's one
\* Promise.all is rejected by an item whose writes broke or whose hold a
\* recovery had released (execute.ts:425-439, :476-481, server.ts:247).
PaidMeansAnswered ==
    \A h \in Handler :
       /\ outcome[h] = "ok" /\ kind[h] # "relay" => escrow[h] = "settled"
       /\ outcome[h] \in {"error", "overload"} => escrow[h] \in {"none", "released"}
       /\ escrow[h] = "settled" => \/ outcome[h] = "ok" /\ (Answered(h) \/ HeldUp(h))
                                   \/ outcome[h] = "thrown" /\ faults > 0

\* The in-flight counters count the HTTP requests in progress under the skill
\* and under the card, however they end.  A single request that names the skill
\* is never admitted beyond its capacity; requests without a skill_id, items of
\* arrays and relayed requests may run beyond it (server.ts:326, :363, :379).
InFlightExact ==
    /\ \A k \in Key :
          inFlight[k] = Cardinality({h \in Handler : /\ Counted(h) /\ TrackKey(h) = k
                                                     /\ phase[h] \in Active})
    /\ Cardinality({h \in Handler : kind[h] = "skill" /\ phase[h] \in Active}) <= MaxConcurrent

\* Being turned away, by the capacity, the gate, the limit or the balance, is
\* never held against the provider: the rating moves for executions only, and
\* a request is logged once (execute.ts:386, server.ts:324).
RatedForWorkOnly ==
    \A h \in Handler :
       /\ reputation[h] # "same" => work[h] # "none" /\ rows[h] = 1
       /\ rows[h] <= 1

\* The account loses exactly what is held or paid.
BalanceMatchesEscrows ==
    balance = InitialBalance
                - Price * Cardinality({h \in Handler : escrow[h] \in {"held", "settled"}})

\* What the gateway does to an escrow is what the escrow promises
\* (src/src/credit/escrow.ts:140, :239, :306).
Promise == INSTANCE EscrowPromise WITH
    EscrowId <- Handler,
    HoldAmount <- {Price},
    phase <- [h \in Handler |->
                CASE escrow[h] = "none" -> "none"
                  [] escrow[h] = "held" -> "open"
                  [] escrow[h] = "settled" -> "paid"
                  [] escrow[h] = "released" -> "refunded"],
    amount <- [h \in Handler |-> IF escrow[h] = "none" THEN 0 ELSE Price],
    out <- [h \in Handler |-> IF escrow[h] \in {"settled", "released"} THEN Price ELSE 0]
GatewayKeepsPromise == Promise!PromiseSpec

\* What the gateway's books keep to while handlers interleave: slots given
\* back, ratings for work only, and the balance short of the open and the
\* settled escrows alone (server.ts:331-346, execute.ts:303, :396).
GatewayInv ==
    GatewayTypeOK /\ InFlightExact /\ RatedForWorkOnly /\ BalanceMatchesEscrows

=============================================================================
