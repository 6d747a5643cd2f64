---------------------------- MODULE GatewayBatch ----------------------------
(***************************************************************************)
(* A batch of capability requests: executeCapabilityBatch of               *)
(* src/src/gateway/execute.ts under the route POST /api/request/batch of   *)
(* src/src/registry/batch-routes.ts.                                       *)
(*                                                                         *)
(* The items run in one process, one after the other or all at once, and   *)
(* give way at the resolution of the target, the connection of the relay   *)
(* client and the answer.  An item that goes through the relay meets the   *)
(* relay server of the same process, which holds the price again from the  *)
(* same account in the same credit database.                               *)
(***************************************************************************)
EXTENDS Integers, FiniteSetsExt

CONSTANTS
    Items,           \* how many requests the batch has
    Prices,          \* prices a target may turn out to have
    Caps,            \* values of max_credits
    TotalBudget,     \* total_budget
    InitialBalance,  \* the owner's balance
    MaxFaults        \* bound: writes that fail, holds recovered meanwhile

ASSUME BatchAssumption ==
    /\ {Items, TotalBudget, InitialBalance, MaxFaults} \subseteq Nat
    /\ Items > 0
    /\ Prices \subseteq Nat \ {0} /\ Caps \subseteq Nat

Item == 1 .. Items

VARIABLES
    strategy,    \* "sequential" or "parallel" (best_effort runs the same way)
    cap,         \* max_credits of every item
    batch,       \* "none", "running", "returned" or "thrown"
    step,        \* where an item waits
    cost,        \* credits_per_call of the resolved target
    escrow,      \* the batch's own escrow of an item
    hubEscrow,   \* the relay's escrow of the same item
    outcome,     \* status of the item's result
    spent,       \* credits_spent of the item's result
    refunded,    \* credits_refunded of the item's result
    client,      \* relayClient: the item that made it, 0 for undefined
    link,        \* the relay client an item made
    balance,
    faults

itemVars == <<step, cost, escrow, hubEscrow, outcome, spent, refunded>>
batchVars == <<strategy, cap, batch, itemVars, client, link, balance, faults>>

Waits == {"resolving", "dispatching", "importing", "connecting", "sending", "remote"}
EscrowStatus == {"none", "held", "settled", "released"}

BatchTypeOK ==
    /\ strategy \in {"sequential", "parallel"}
    /\ cap \in [Item -> Caps]
    /\ batch \in {"none", "running", "returned", "thrown"}
    /\ step \in [Item -> Waits \cup {"waiting", "done"}]
    /\ cost \in [Item -> Prices \cup {0}]
    /\ escrow \in [Item -> EscrowStatus] /\ hubEscrow \in [Item -> EscrowStatus]
    /\ outcome \in [Item -> {"none", "success", "failed", "skipped"}]
    /\ spent \in [Item -> Nat] /\ refunded \in [Item -> Nat]
    /\ client \in 0 .. Items
    /\ link \in [Item -> {"none", "connecting", "open", "closed"}]
    /\ balance \in Nat /\ faults \in 0 .. MaxFaults

BatchInit ==
    /\ strategy \in {"sequential", "parallel"}
    /\ cap \in [Item -> Caps]
    /\ batch = "none"
    /\ step = [i \in Item |-> "waiting"]
    /\ cost = [i \in Item |-> 0]
    /\ escrow = [i \in Item |-> "none"] /\ hubEscrow = [i \in Item |-> "none"]
    /\ outcome = [i \in Item |-> "none"]
    /\ spent = [i \in Item |-> 0] /\ refunded = [i \in Item |-> 0]
    /\ client = 0
    /\ link = [i \in Item |-> "none"]
    /\ balance = InitialBalance
    /\ faults = 0

Total(f) == MapThenSumSet(LAMBDA i : f[i], Item)

\* The route's `finally` disconnects the client it knows of.
Disconnects ==
    link' = [i \in Item |-> IF i = client THEN "closed" ELSE link[i]]

-----------------------------------------------------------------------------
(* The batch                                                               *)

\* Σ max_credits against total_budget, before any escrow.
Submit ==
    /\ batch = "none"
    /\ IF Total(cap) > TotalBudget
       THEN /\ batch' = "returned"
            /\ outcome' = [i \in Item |-> "skipped"]
            /\ step' = [i \in Item |-> "done"]
       ELSE batch' = "running" /\ UNCHANGED <<outcome, step>>
    /\ UNCHANGED <<strategy, cap, cost, escrow, hubEscrow, spent, refunded, client,
                   link, balance, faults>>

Turn(i) == strategy = "parallel" \/ \A j \in 1 .. i - 1 : outcome[j] = "success"

Begin(i) ==
    /\ batch = "running" /\ step[i] = "waiting" /\ Turn(i)
    /\ step' = [step EXCEPT ![i] = "resolving"]
    /\ UNCHANGED <<strategy, cap, batch, cost, escrow, hubEscrow, outcome, spent,
                   refunded, client, link, balance, faults>>

Skip(i) ==
    /\ batch = "running" /\ step[i] = "waiting"
    /\ strategy = "sequential"
    /\ \E j \in 1 .. i - 1 : outcome[j] = "failed"
    /\ step' = [step EXCEPT ![i] = "done"]
    /\ outcome' = [outcome EXCEPT ![i] = "skipped"]
    /\ UNCHANGED <<strategy, cap, batch, cost, escrow, hubEscrow, spent, refunded,
                   client, link, balance, faults>>

Return ==
    /\ batch = "running"
    /\ \A i \in Item : step[i] = "done"
    /\ batch' = "returned"
    /\ Disconnects
    /\ UNCHANGED <<strategy, cap, itemVars, client, balance, faults>>

-----------------------------------------------------------------------------
(* The end of an item                                                      *)

Result(i, status, paid, back) ==
    /\ step' = [step EXCEPT ![i] = "done"]
    /\ outcome' = [outcome EXCEPT ![i] = status]
    /\ spent' = [spent EXCEPT ![i] = paid]
    /\ refunded' = [refunded EXCEPT ![i] = back]

\* executeItem rejects: allSettled turns it into a failed item, the sequential
\* loop rejects as a whole.
Reject(i) ==
    /\ Result(i, "failed", 0, 0)
    /\ IF strategy = "sequential"
       THEN batch' = "thrown" /\ Disconnects
       ELSE UNCHANGED <<batch, link>>

\* Seeded fault: a failed item reports its price as spent.
FailureSpends(i) ==
    /\ escrow[i] = "held"
    /\ escrow' = [escrow EXCEPT ![i] = "released"]
    /\ balance' = balance + cost[i]
    /\ Result(i, "failed", cost[i], 0)
    /\ UNCHANGED <<batch, link, faults>>
\* Seeded fault: the catch answers and leaves the escrow to the recovery.
FailureKeeps(i) ==
    /\ Result(i, "failed", 0, cost[i])
    /\ UNCHANGED <<escrow, balance, batch, link, faults>>
\* The catch: releaseEscrow, which throws on an escrow that is finalised.
Failure(i) ==
    \/ /\ escrow[i] = "held"
       /\ escrow' = [escrow EXCEPT ![i] = "released"]
       /\ balance' = balance + cost[i]
       /\ Result(i, "failed", 0, cost[i])
       /\ UNCHANGED <<batch, link, faults>>
    \/ /\ escrow[i] # "held"
       /\ Reject(i)
       /\ UNCHANGED <<escrow, balance, faults>>

\* Settle, then the reputation.  A write that fails after the settlement ends
\* in the catch, whose release throws.
Success(i) ==
    \/ /\ escrow[i] = "held"
       /\ escrow' = [escrow EXCEPT ![i] = "settled"]
       /\ \/ Result(i, "success", cost[i], 0) /\ UNCHANGED <<batch, link, faults>>
          \/ faults < MaxFaults /\ faults' = faults + 1 /\ Reject(i)
       /\ UNCHANGED balance
    \/ escrow[i] # "held" /\ Failure(i)

-----------------------------------------------------------------------------
(* The steps of an item                                                    *)

\* No target, too dear, or not enough credits: no escrow yet.
Decline(i) ==
    /\ step[i] = "resolving"
    /\ Result(i, "failed", 0, 0)
    /\ UNCHANGED <<strategy, cap, batch, cost, escrow, hubEscrow, client, link,
                   balance, faults>>

\* Seeded fault: the cap of the item is not looked at.
AffordableOnly(i, price) == price <= balance
Affordable(i, price) == price <= cap[i] /\ price <= balance

\* Balance check, hold and dispatch in one tick.  A target of the local
\* registry answers at once; nothing is executed for it.
Hold(i) ==
    /\ step[i] = "resolving"
    /\ \E price \in Prices, next \in {"dispatching", "relay"} :
          /\ Affordable(i, price)
          /\ cost' = [cost EXCEPT ![i] = price]
          /\ balance' = balance - price
          /\ step' = [step EXCEPT ![i] =
                         IF next = "dispatching" THEN next
                         ELSE IF client = 0 THEN "importing" ELSE "sending"]
    /\ escrow' = [escrow EXCEPT ![i] = "held"]
    /\ UNCHANGED <<strategy, cap, batch, hubEscrow, outcome, spent, refunded, client,
                   link, faults>>

Dispatched(i) ==
    /\ step[i] = "dispatching"
    /\ Success(i)
    /\ UNCHANGED <<strategy, cap, cost, hubEscrow, client>>

\* Every item that saw no client before its import makes one.
Imported(i) ==
    /\ step[i] = "importing"
    /\ client' = i
    /\ link' = [link EXCEPT ![i] = "connecting"]
    /\ step' = [step EXCEPT ![i] = "connecting"]
    /\ UNCHANGED <<strategy, cap, batch, cost, escrow, hubEscrow, outcome, spent,
                   refunded, balance, faults>>

Connected(i) ==
    /\ step[i] = "connecting"
    /\ link' = [link EXCEPT ![i] = "open"]
    /\ step' = [step EXCEPT ![i] = "sending"]
    /\ UNCHANGED <<strategy, cap, batch, cost, escrow, hubEscrow, outcome, spent,
                   refunded, client, balance, faults>>

\* The connection fails, or the client the item found is not registered yet.
SendFails(i) ==
    /\ \/ step[i] = "connecting"
       \/ step[i] = "sending" /\ link[client] # "open"
    /\ Failure(i)
    /\ UNCHANGED <<strategy, cap, cost, hubEscrow, client>>

\* The relay looks the price up and holds it from `requester`, the owner of
\* the batch.
Send(i) ==
    /\ step[i] = "sending" /\ link[client] = "open"
    /\ IF balance < cost[i]
       THEN Failure(i) /\ UNCHANGED hubEscrow
       ELSE /\ hubEscrow' = [hubEscrow EXCEPT ![i] = "held"]
            /\ balance' = balance - cost[i]
            /\ step' = [step EXCEPT ![i] = "remote"]
            /\ UNCHANGED <<batch, escrow, outcome, spent, refunded, link, faults>>
    /\ UNCHANGED <<strategy, cap, cost, client>>

Answered(i) ==
    /\ step[i] = "remote" /\ hubEscrow[i] = "held"
    /\ hubEscrow' = [hubEscrow EXCEPT ![i] = "settled"]
    /\ Success(i)
    /\ UNCHANGED <<strategy, cap, cost, client>>

\* The client gives up; the relay ends its own request later.
TimedOut(i) ==
    /\ step[i] = "remote"
    /\ Failure(i)
    /\ UNCHANGED <<strategy, cap, cost, hubEscrow, client>>

\* The relay ends the request of an item that no longer listens.
HubEnds(i) ==
    /\ hubEscrow[i] = "held" /\ step[i] # "remote"
    /\ \E paid \in BOOLEAN :
          /\ hubEscrow' = [hubEscrow EXCEPT ![i] = IF paid THEN "settled" ELSE "released"]
          /\ balance' = IF paid THEN balance ELSE balance + cost[i]
    /\ UNCHANGED <<strategy, cap, batch, step, cost, escrow, outcome, spent, refunded,
                   client, link, faults>>

\* Another process of the node starts and releases an old hold.
Recover(i) ==
    /\ faults < MaxFaults /\ faults' = faults + 1
    /\ escrow[i] = "held"
    /\ escrow' = [escrow EXCEPT ![i] = "released"]
    /\ balance' = balance + cost[i]
    /\ UNCHANGED <<strategy, cap, batch, step, cost, hubEscrow, outcome, spent,
                   refunded, client, link>>

-----------------------------------------------------------------------------

ItemStep(i) ==
    \/ Begin(i) \/ Skip(i) \/ Decline(i) \/ Hold(i) \/ Dispatched(i)
    \/ Imported(i) \/ Connected(i) \/ SendFails(i) \/ Send(i)
    \/ Answered(i) \/ TimedOut(i)

BatchNext ==
    \/ Submit \/ Return
    \/ \E i \in Item : ItemStep(i) \/ HubEnds(i) \/ Recover(i)

\* Awaits end: the resolution fails or answers, the client has timers for the
\* connection and the request, and the relay has one for the request.
BatchFairness ==
    /\ WF_batchVars(Return)
    /\ \A i \in Item : WF_batchVars(ItemStep(i)) /\ WF_batchVars(HubEnds(i))

BatchSpec == BatchInit /\ [][BatchNext]_batchVars /\ BatchFairness

-----------------------------------------------------------------------------
(* Properties                                                              *)

Paid(e) == Total([i \in Item |-> IF e[i] = "settled" THEN cost[i] ELSE 0])

\* What the result reports is what the batch's own escrows did, whatever the
\* interleaving: nothing is reported as spent that was not settled, and the
\* sums are exact as long as no write failed and no hold was recovered
\* (execute.ts:700-707, :728-735, :754).
ReportsWhatItPaid ==
    batch = "returned" =>
       /\ \A i \in Item : spent[i] > 0 => escrow[i] = "settled" /\ spent[i] = cost[i]
       /\ \A i \in Item : refunded[i] > 0 => escrow[i] = "released"
       /\ faults = 0 => Total(spent) = Paid(escrow)

\* The batch's own escrows never take more than total_budget, although every
\* item looks at its own cap and at the balance only (execute.ts:577, :626).
OwnHoldsInBudget ==
    Total([i \in Item |-> IF escrow[i] \in {"held", "settled"} THEN cost[i] ELSE 0])
       <= TotalBudget

\* A sequential batch has one item in flight, and after a failure it holds
\* nothing more (execute.ts:697-719).
SequentialStops ==
    strategy = "sequential" =>
       \A i, j \in Item :
          /\ step[i] \in Waits /\ step[j] \in Waits => i = j
          /\ j < i /\ outcome[j] = "failed" => escrow[i] = "none"

\* When the batch has answered, whichever way, none of its own holds is left
\* (execute.ts:676, :704).
NoHoldLeft ==
    batch \in {"returned", "thrown"} => \A i \in Item : escrow[i] # "held"

\* What a batch keeps to while its items interleave: it leaves no hold behind,
\* and a sequential one stops at a failure (execute.ts:676, :704, :711).
BatchInv == BatchTypeOK /\ NoHoldLeft /\ SequentialStops

\* Each of the batch's escrows is opened once and closed once, for the amount
\* it was opened for (src/src/credit/escrow.ts:140).
Promise == INSTANCE EscrowPromise WITH
    EscrowId <- Item,
    HoldAmount <- Prices,
    phase <- [i \in Item |->
                CASE escrow[i] = "none" -> "none"
                  [] escrow[i] = "held" -> "open"
                  [] escrow[i] = "settled" -> "paid"
                  [] escrow[i] = "released" -> "refunded"],
    amount <- [i \in Item |-> IF escrow[i] = "none" THEN 0 ELSE cost[i]],
    out <- [i \in Item |-> IF escrow[i] \in {"settled", "released"} THEN cost[i] ELSE 0]
BatchKeepsPromise == Promise!PromiseSpec

\* What is left to do, in steps: an item's own, one for the relay's hold of it,
\* the batch's, and the faults that may still happen.
ItemSteps == [waiting |-> 6, resolving |-> 5, dispatching |-> 4, importing |-> 4,
              connecting |-> 3, sending |-> 2, remote |-> 1, done |-> 0]
BatchSteps == [none |-> 2, running |-> 1, returned |-> 0, thrown |-> 0]
Ahead == [i \in Item |-> 2 * ItemSteps[step[i]] + IF hubEscrow[i] = "held" THEN 1 ELSE 0]
Left == Total(Ahead) + BatchSteps[batch] + (MaxFaults - faults)

\* No batch goes on for ever, and the relay's requests it leaves behind do not
\* either: each step leaves less to do, in whatever order the items take them
\* (execute.ts:555-677, :697-735).
EveryStepCounts == [][Left' < Left]_batchVars

=============================================================================
