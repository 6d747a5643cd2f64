------------------------------ MODULE Autonomy ------------------------------
(***************************************************************************)
(* The consumer's side of a node: the calls of one MCP session.  The       *)
(* handler of agentbnb_request (src/src/mcp/tools/request.ts) checks the   *)
(* session's budget and then either asks a card directly or gives the need *)
(* to the AutoRequestor (src/src/autonomy/auto-request.ts), which searches, *)
(* resolves a target, and lets the autonomy tier and the reserve floor     *)
(* decide whether its credits may be spent without the owner.              *)
(*                                                                         *)
(* Calls run concurrently in one process and give way to one another at    *)
(* their awaits; what lies between two awaits is one action.  A call's own *)
(* escrow is in the node's credit database, that of a paid relay request   *)
(* in the relay's, which is the same when the node is its own registry.    *)
(* Vouchers and the network fee are CreditLedger's.                        *)
(***************************************************************************)
EXTENDS Integers, FiniteSetsExt

CONSTANTS
    Call,
    Cost,            \* prices of the network's skills
    MaxCost,         \* the max_cost of queries
    SessionBudget, SingleRequestMax, BlockSecond,    \* consumer_autonomy
    Tier1, Tier2,    \* autonomy: tier1_max_credits, tier2_max_credits
    Reserve,         \* budget: reserve_credits
    InitialBalance,
    OwnRelay,        \* the relay holds in the node's own credit database
    MaxFaults        \* bound: audit rows that cannot be written

ASSUME AutonomyAssumption ==
    /\ Cost \subseteq Nat /\ MaxCost \subseteq Nat
    /\ {SessionBudget, SingleRequestMax, Tier1, Tier2, Reserve, InitialBalance,
        MaxFaults} \subseteq Nat
    /\ BlockSecond \in BOOLEAN /\ OwnRelay \in BOOLEAN

VARIABLES
    phase,      \* where the call waits
    mode,       \* "query" or "direct"
    max,        \* maxCostCredits of a query
    cost,       \* credits_per_call of the resolved target
    scored,     \* some candidate of the search was eligible
    escrow,     \* the call's row in the node's credit_escrow
    relay,      \* the call's request at the relay: on its way, or its escrow there
    rows,       \* kinds of audit rows the call left in request_log
    outcome,    \* how the call ended
    pending,    \* the call's row in pending_requests
    session,    \* consumerSession: totalSpent and paidCallCount
    overlapped, \* history: calls that passed the budget with another under way
    balance,    \* the owner's balance in the node's database
    stale,      \* history: calls whose request was on its way to the relay when
                \* another call lowered the balance
    faults

callVars == <<phase, mode, max, cost, scored, escrow, relay, rows, outcome, pending>>
autonomyVars == <<callVars, session, overlapped, balance, stale, faults>>

Waiting == {"searching", "resolving", "fetching", "relaying", "calling"}
Outcome == {"none", "over_budget", "no_peer", "tier_blocked", "budget_blocked",
            "success", "failed", "thrown"}

AutonomyTypeOK ==
    /\ phase \in [Call -> Waiting \cup {"none", "ended"}]
    /\ mode \in [Call -> {"query", "direct"}]
    /\ max \in [Call -> MaxCost \cup {0}] /\ cost \in [Call -> Cost \cup {0}]
    /\ scored \in [Call -> BOOLEAN]
    /\ escrow \in [Call -> {"none", "held", "settled", "released"}]
    /\ relay \in [Call -> {"none", "asked", "held", "settled", "released"}]
    /\ rows \in [Call -> SUBSET {"auto", "notify", "pending", "failed"}]
    /\ outcome \in [Call -> Outcome]
    /\ pending \in [Call -> {"none", "pending", "approved", "rejected"}]
    /\ session \in [totalSpent : Nat, paidCallCount : Nat]
    /\ overlapped \subseteq Call /\ stale \subseteq Call
    /\ balance \in Nat /\ faults \in 0 .. MaxFaults

AutonomyInit ==
    /\ phase = [c \in Call |-> "none"]
    /\ mode = [c \in Call |-> "query"]
    /\ max = [c \in Call |-> 0]
    /\ cost = [c \in Call |-> 0]
    /\ scored = [c \in Call |-> FALSE]
    /\ escrow = [c \in Call |-> "none"]
    /\ relay = [c \in Call |-> "none"]
    /\ rows = [c \in Call |-> {}]
    /\ outcome = [c \in Call |-> "none"]
    /\ pending = [c \in Call |-> "none"]
    /\ session = [totalSpent |-> 0, paidCallCount |-> 0]
    /\ overlapped = {}
    /\ balance = InitialBalance
    /\ stale = {}
    /\ faults = 0

Becomes(c, p) == phase' = [phase EXCEPT ![c] = p]
End(c, result) == Becomes(c, "ended") /\ outcome' = [outcome EXCEPT ![c] = result]
Logs(c, row) == rows' = [rows EXCEPT ![c] = @ \cup {row}]

-----------------------------------------------------------------------------
(* The session's budget                                                    *)

\* Seeded fault: the request in hand is left out of the sum.
CheckSpentOnly(estimate) ==
    \/ estimate = 0
    \/ /\ estimate <= SingleRequestMax
       /\ session.totalSpent <= SessionBudget
       /\ ~(BlockSecond /\ session.paidCallCount > 0)
\* checkConsumerBudget
CheckConsumerBudget(estimate) ==
    \/ estimate = 0
    \/ /\ estimate <= SingleRequestMax
       /\ session.totalSpent + estimate <= SessionBudget
       /\ ~(BlockSecond /\ session.paidCallCount > 0)

\* recordConsumerSpend
Spent(credits) ==
    IF credits > 0
    THEN [totalSpent |-> session.totalSpent + credits,
          paidCallCount |-> session.paidCallCount + 1]
    ELSE session

\* The calls that may still spend what the budget let through.
UnderWay(c) == {d \in Call \ {c} : phase[d] \in Waiting}
PassesBudget(c) ==
    overlapped' = IF UnderWay(c) = {} THEN overlapped
                  ELSE overlapped \cup UnderWay(c) \cup {c}

\* A query is checked with its max_cost; a card's price has to be read first.
Query(c, m) ==
    /\ phase[c] = "none"
    /\ mode' = [mode EXCEPT ![c] = "query"]
    /\ max' = [max EXCEPT ![c] = m]
    /\ IF CheckConsumerBudget(m)
       THEN Becomes(c, "searching") /\ PassesBudget(c) /\ UNCHANGED outcome
       ELSE End(c, "over_budget") /\ UNCHANGED overlapped
    /\ UNCHANGED <<cost, scored, escrow, relay, rows, pending, session, balance, stale, faults>>

Direct(c) ==
    /\ phase[c] = "none"
    /\ mode' = [mode EXCEPT ![c] = "direct"]
    /\ Becomes(c, "fetching")
    /\ UNCHANGED <<max, cost, scored, escrow, relay, rows, outcome, pending, session,
                   overlapped, balance, stale, faults>>

\* The request leaves for the relay, which holds for what is paid.
Asks(c, p) == relay' = IF p > 0 THEN [relay EXCEPT ![c] = "asked"] ELSE relay

\* The remote card: unreachable, or a price that passes the budget, or not.  A
\* paid call goes through the relay; a free one costs nothing anywhere.
Fetch(c) ==
    /\ phase[c] = "fetching"
    /\ \/ End(c, "failed") /\ UNCHANGED <<cost, relay, overlapped>>
       \/ \E p \in Cost :
            /\ cost' = [cost EXCEPT ![c] = p]
            /\ IF CheckConsumerBudget(p)
               THEN Becomes(c, "relaying") /\ Asks(c, p) /\ PassesBudget(c) /\ UNCHANGED outcome
               ELSE End(c, "over_budget") /\ UNCHANGED <<relay, overlapped>>
    /\ UNCHANGED <<mode, max, scored, escrow, rows, pending, session, balance, stale, faults>>

-----------------------------------------------------------------------------
(* The AutoRequestor's gates                                               *)

\* searchCards, the remote fallback and scorePeers.  A fallback that fails
\* leaves a row of its own and no candidate.
Search(c) ==
    /\ phase[c] = "searching"
    /\ Becomes(c, "resolving")
    /\ \/ \E some \in BOOLEAN : scored' = [scored EXCEPT ![c] = some] /\ UNCHANGED rows
       \/ Logs(c, "failed") /\ UNCHANGED scored
    /\ UNCHANGED <<mode, max, cost, escrow, relay, outcome, pending, session,
                   overlapped, balance, stale, faults>>

GetAutonomyTier(amount) ==
    IF amount < Tier1 THEN 1 ELSE IF amount < Tier2 THEN 2 ELSE 3

\* Seeded fault: the reserve is not kept back.
CanSpendAll(amount) == amount = 0 \/ balance >= amount
\* BudgetManager.canSpend: availableCredits is never negative.
CanSpend(amount) == amount = 0 \/ balance - Reserve >= amount

\* An early return: one failed row and no spend.
FailsEarly(c, result) ==
    /\ End(c, result)
    /\ Logs(c, "failed")
    /\ UNCHANGED <<escrow, relay, pending, balance, stale>>

NoPeer(c) ==
    /\ phase[c] = "resolving"
    /\ FailsEarly(c, "no_peer")
    /\ UNCHANGED <<mode, max, cost, scored, session, overlapped, faults>>

\* p credits leave the balance; what others on their way to the relay were
\* told by canSpend no longer holds.
Takes(c, p) ==
    /\ balance' = balance - p
    /\ stale' = IF p = 0 THEN stale
                ELSE stale \cup {d \in Call \ {c} : relay[d] = "asked"}

\* What happens to a target of price p, resolved for call c, up to the next
\* await.  Without candidates the price is compared with the query's limit;
\* the target found for the best candidate is not compared again.
Eligible(c, p) == scored[c] \/ p <= max[c]

TierThree(c, p) ==
    /\ GetAutonomyTier(p) = 3
    /\ End(c, "tier_blocked")
    /\ Logs(c, "pending")
    /\ pending' = [pending EXCEPT ![c] = "pending"]
    /\ UNCHANGED <<escrow, relay, balance, stale>>

\* A paid target behind the relay: nothing is held here, the request leaves and
\* the relay will hold; no registry or no signing identity ends the call.
PaidRelay(c, p) ==
    /\ GetAutonomyTier(p) < 3 /\ CanSpend(p) /\ p > 0
    /\ \/ FailsEarly(c, "no_peer")
       \/ /\ Becomes(c, "relaying") /\ Asks(c, p)
          /\ UNCHANGED <<escrow, outcome, rows, pending, balance, stale>>

\* A target with a gateway, or a free one: held here.  Without a configuration
\* for the peer the hold is taken and released before the call returns.
LocalTarget(c, p) ==
    /\ GetAutonomyTier(p) < 3 /\ CanSpend(p)
    /\ \/ FailsEarly(c, "no_peer")
       \/ /\ Becomes(c, "calling")
          /\ escrow' = [escrow EXCEPT ![c] = "held"]
          /\ Takes(c, p)
          /\ UNCHANGED <<relay, outcome, rows, pending>>

OverFloor(c, p) ==
    /\ GetAutonomyTier(p) < 3 /\ ~CanSpend(p)
    /\ FailsEarly(c, "budget_blocked")

Resolve(c, p) ==
    /\ phase[c] = "resolving" /\ Eligible(c, p)
    /\ cost' = [cost EXCEPT ![c] = p]
    /\ TierThree(c, p) \/ OverFloor(c, p) \/ PaidRelay(c, p) \/ LocalTarget(c, p)
    /\ UNCHANGED <<mode, max, scored, session, overlapped, faults>>

-----------------------------------------------------------------------------
(* The relay                                                               *)

\* The request arrives and the relay holds, if it finds the balance; the call
\* may have given up by then.  No reserve is kept back there.
RelayHolds(c) ==
    /\ relay[c] = "asked"
    /\ relay' = [relay EXCEPT ![c] = "held"]
    /\ IF OwnRelay THEN balance >= cost[c] /\ Takes(c, cost[c]) ELSE UNCHANGED <<balance, stale>>
    /\ UNCHANGED <<phase, mode, max, cost, scored, escrow, rows, outcome, pending, session,
                   overlapped, faults>>

\* The relay settles when the result comes, or refunds: its timers, a
\* disconnect, a failed provider, a recovery.
RelaySettles(c) ==
    /\ relay[c] = "held"
    /\ relay' = [relay EXCEPT ![c] = "settled"]
    /\ UNCHANGED <<phase, mode, max, cost, scored, escrow, rows, outcome, pending, session,
                   overlapped, balance, stale, faults>>

RelayRefunds(c) ==
    /\ relay[c] = "held"
    /\ relay' = [relay EXCEPT ![c] = "released"]
    /\ balance' = IF OwnRelay THEN balance + cost[c] ELSE balance
    /\ UNCHANGED <<phase, mode, max, cost, scored, escrow, rows, outcome, pending, session,
                   overlapped, stale, faults>>

-----------------------------------------------------------------------------
(* The end of a call                                                       *)

SuccessRow(c) == IF GetAutonomyTier(cost[c]) = 2 THEN "notify" ELSE "auto"
WriteFails == faults < MaxFaults /\ faults' = faults + 1

\* Seeded fault: the spend of a call is recorded when it fails, too.
RelayFailsSpent(c) ==
    /\ phase[c] = "relaying"
    /\ End(c, "failed")
    /\ IF mode[c] = "query" THEN Logs(c, "failed") ELSE UNCHANGED rows
    /\ session' = Spent(cost[c])
    /\ UNCHANGED <<mode, max, cost, scored, escrow, relay, pending, overlapped, balance,
                   stale, faults>>

\* The request through the relay ends in an error: the relay refused it or it
\* never got there, or no word came in time, whatever the relay did or will
\* do; the answer may be lost with the temporary connection.
RelayFails(c) ==
    /\ phase[c] = "relaying"
    /\ End(c, "failed")
    /\ IF mode[c] = "query" THEN Logs(c, "failed") ELSE UNCHANGED rows
    /\ \/ relay[c] = "asked" /\ relay' = [relay EXCEPT ![c] = "none"]
       \/ UNCHANGED relay
    /\ UNCHANGED <<mode, max, cost, scored, escrow, pending, session, overlapped, balance,
                   stale, faults>>

\* A result comes after the settlement; a free request has none.
RelayAnswers(c) ==
    /\ phase[c] = "relaying" /\ relay[c] \in {"settled", "none"}
    /\ \/ /\ End(c, "success")
          /\ session' = Spent(cost[c])
          /\ IF mode[c] = "query" THEN Logs(c, SuccessRow(c)) ELSE UNCHANGED rows
          /\ UNCHANGED faults
       \* The success row cannot be written: the catch reports a failure.
       \/ /\ mode[c] = "query" /\ WriteFails
          /\ End(c, "failed") /\ Logs(c, "failed") /\ UNCHANGED session
    /\ UNCHANGED <<mode, max, cost, scored, escrow, relay, pending, overlapped, balance, stale>>

\* The peer's gateway answers: settle, row, spend.  If the row cannot be
\* written the catch tries to release what is settled and the call throws.
PeerAnswers(c) ==
    /\ phase[c] = "calling" /\ escrow[c] = "held"
    /\ escrow' = [escrow EXCEPT ![c] = "settled"]
    /\ \/ /\ End(c, "success") /\ Logs(c, SuccessRow(c))
          /\ session' = Spent(cost[c])
          /\ UNCHANGED faults
       \/ /\ WriteFails
          /\ End(c, "thrown") /\ UNCHANGED <<rows, session>>
    /\ UNCHANGED <<mode, max, cost, scored, pending, relay, overlapped, balance, stale>>

\* The peer fails or does not answer in time: release, then the row.
PeerFails(c) ==
    /\ phase[c] = "calling" /\ escrow[c] = "held"
    /\ escrow' = [escrow EXCEPT ![c] = "released"]
    /\ balance' = balance + cost[c]
    /\ \/ End(c, "failed") /\ Logs(c, "failed") /\ UNCHANGED faults
       \/ WriteFails /\ End(c, "thrown") /\ UNCHANGED rows
    /\ UNCHANGED <<mode, max, cost, scored, pending, relay, session, overlapped, stale>>

\* An orphan recovery released the escrow: settle throws, and so does the
\* release in the catch.
FindsReleased(c) ==
    /\ phase[c] = "calling" /\ escrow[c] = "released"
    /\ End(c, "thrown")
    /\ UNCHANGED <<mode, max, cost, scored, escrow, pending, relay, rows, session,
                   overlapped, balance, stale, faults>>

-----------------------------------------------------------------------------
(* Others: the owner and the other processes of the node                   *)

\* POST /me/pending-requests/:id/approve or reject: the row changes, whatever
\* it said before, and nothing else happens.
OwnerResolves(c, resolution) ==
    /\ pending[c] # "none"
    /\ pending' = [pending EXCEPT ![c] = resolution]
    /\ UNCHANGED <<phase, mode, max, cost, scored, escrow, relay, rows, outcome, session,
                   overlapped, balance, stale, faults>>

\* A process of the node starts and releases the holds that are old enough.
Recover(c) ==
    /\ escrow[c] = "held"
    /\ escrow' = [escrow EXCEPT ![c] = "released"]
    /\ balance' = balance + cost[c]
    /\ UNCHANGED <<phase, mode, max, cost, scored, relay, rows, outcome, pending, session,
                   overlapped, stale, faults>>

-----------------------------------------------------------------------------

Answers(c) == RelayAnswers(c) \/ PeerAnswers(c)
Fails(c) == RelayFails(c) \/ PeerFails(c) \/ FindsReleased(c)

AutonomyNext ==
    \E c \in Call :
       \/ \E m \in MaxCost : Query(c, m)
       \/ Direct(c) \/ Fetch(c) \/ Search(c) \/ NoPeer(c)
       \/ \E p \in Cost : Resolve(c, p)
       \/ Answers(c) \/ Fails(c)
       \/ \E r \in {"approved", "rejected"} : OwnerResolves(c, r)
       \/ Recover(c)
       \/ RelayHolds(c) \/ RelaySettles(c) \/ RelayRefunds(c)

\* Every await has an end: HTTP and relay requests have time limits.
AutonomyFairness ==
    \A c \in Call : WF_autonomyVars(Fetch(c) \/ Search(c) \/ NoPeer(c) \/ Fails(c))

AutonomySpec == AutonomyInit /\ [][AutonomyNext]_autonomyVars /\ AutonomyFairness

-----------------------------------------------------------------------------
(* Properties                                                              *)

\* The payments at the relay that no check stood for: of direct calls, which
\* ask no canSpend, and of queries that another call's payment overtook.
Unchecked == {c \in Call : /\ OwnRelay /\ relay[c] \in {"held", "settled"}
                          /\ (mode[c] = "direct" \/ c \in stale)}

\* Concurrent calls leave the reserve alone: a call held here cannot be
\* overtaken between canSpend and its hold, a relayed query can
\* (auto-request.ts:490, :543), and what is missing from the reserve is no more
\* than what such queries and direct calls took (budget.ts:10, :28).
FloorHolds ==
    balance + MapThenSumSet(LAMBDA c : cost[c], Unchecked)
       >= IF InitialBalance < Reserve THEN InitialBalance ELSE Reserve

\* What needs the owner's approval never spends: the tier is that of the
\* target in the end, not of the candidate it was resolved for, and a pending
\* request stays unpaid whatever the owner answers (auto-request.ts:458).
TierThreeNeverSpends ==
    \A c \in Call :
       mode[c] = "query" /\ (escrow[c] # "none" \/ relay[c] # "none")
          => cost[c] < (IF Tier1 < Tier2 THEN Tier2 ELSE Tier1) /\ pending[c] = "none"

\* A request is never escrowed twice, here and by the relay
\* (auto-request.ts:508-510).
OneEscrow == \A c \in Call : escrow[c] = "none" \/ (relay[c] = "none" /\ phase[c] # "relaying")

\* No end of a call leaves its hold behind (auto-request.ts:593-703).
NoHoldAfterCall == \A c \in Call : escrow[c] = "held" => phase[c] = "calling"

\* Every query that returns leaves the row that says how it ended
\* (auto-request.ts:251).
OutcomeIsLogged ==
    \A c \in Call : mode[c] = "query" =>
       /\ outcome[c] = "success" => {"auto", "notify"} \cap rows[c] # {}
       /\ outcome[c] = "tier_blocked" => "pending" \in rows[c] /\ pending[c] # "none"
       /\ outcome[c] \in {"no_peer", "budget_blocked", "failed"} => "failed" \in rows[c]

\* The session's record never runs ahead of the money: it adds up the paid
\* calls that reported success, each of which was really charged
\* (request.ts:143, :276, :324).
SpendIsReal ==
    /\ session.totalSpent = MapThenSumSet(LAMBDA c : cost[c],
                                          {c \in Call : outcome[c] = "success"})
    /\ \A c \in Call : outcome[c] = "success" => "settled" \in {escrow[c], relay[c]} \/ cost[c] = 0

\* What a success may take beyond the session budget: its price, if others
\* were unpaid when it passed the check; else what its target costs above the
\* limit the check was asked about.
Beyond == [c \in Call |->
              IF c \in overlapped THEN cost[c]
              ELSE IF mode[c] = "query" /\ cost[c] > max[c] THEN cost[c] - max[c] ELSE 0]

\* The session budget is overrun only by calls that passed the check while
\* others were still unpaid and by queries whose target cost more than their
\* limit, and by no more than these took (consumer-autonomy.ts:121, request.ts:93).
OverrunNeedsARace ==
    session.totalSpent <=
       SessionBudget + MapThenSumSet(LAMBDA c : Beyond[c], {c \in Call : outcome[c] = "success"})

\* What the calls do to their escrows is what the escrow promises
\* (src/src/credit/escrow.ts:239, :306).
Promise == INSTANCE EscrowPromise WITH
    EscrowId <- Call,
    HoldAmount <- Cost,
    phase <- [c \in Call |->
                CASE escrow[c] = "none" -> "none"
                  [] escrow[c] = "held" -> "open"
                  [] escrow[c] = "settled" -> "paid"
                  [] escrow[c] = "released" -> "refunded"],
    amount <- [c \in Call |-> IF escrow[c] = "none" THEN 0 ELSE cost[c]],
    out <- [c \in Call |-> IF escrow[c] \in {"settled", "released"} THEN cost[c] ELSE 0]
AutonomyKeepsPromise == Promise!PromiseSpec

\* What concurrent calls keep to: the reserve is untouched but by what the
\* relay took for direct calls and overtaken queries, a call that needs
\* approval spends nothing, a payment has one escrow, none is left when the
\* call has ended, and the outcome is in the log.
AutonomyInv ==
    /\ AutonomyTypeOK
    /\ FloorHolds /\ TierThreeNeverSpends
    /\ OneEscrow /\ NoHoldAfterCall /\ OutcomeIsLogged

=============================================================================
