------------------------- MODULE GatewayBatchProofs -------------------------
(***************************************************************************)
(* Theorems about a batch, for any number of items, any prices, caps and   *)
(* budget, and any number of faults.                                       *)
(*                                                                         *)
(* ItemOK says what is known of one item, SequenceOK what the order of a   *)
(* sequential batch is, and BatchOK what the end of the batch says of the  *)
(* items.  Every step but Submit and Return moves one item (ItemMove).     *)
(* ItemBooks says what an item's hold, its cap and its entries in the      *)
(* report say of one another; the totals follow by the theorems on sums.   *)
(***************************************************************************)
EXTENDS GatewayBatch, SumTheorems, TLAPS

Begun(i) == step[i] \in Waits \/ outcome[i] \in {"success", "failed"}

\* Where an item is, and what that says of its escrow and its result.
ItemOK(i) ==
    /\ outcome[i] = "none" <=> step[i] # "done"
    /\ escrow[i] # "none" => cost[i] \in Prices /\ Begun(i) /\ step[i] # "resolving"
    /\ escrow[i] = "held" => step[i] # "done"

\* An item of a sequential batch begins when all before it have succeeded.
SequenceOK ==
    strategy = "sequential" =>
       \A i \in Item : Begun(i) => \A j \in Item : j < i => outcome[j] = "success"

\* No item is under way before the batch or after it.
BatchOK ==
    /\ batch = "none" => \A i \in Item : step[i] = "waiting"
    /\ batch = "returned" => \A i \in Item : step[i] = "done"
    /\ batch = "thrown" => \A i \in Item : step[i] \notin Waits

\* The inductive invariant.
BatchStrong ==
    BatchTypeOK /\ (\A i \in Item : ItemOK(i)) /\ SequenceOK /\ BatchOK

\* What a step may do to the escrow of an item and to the price it was held for.
EscrowMove(i) ==
    \/ escrow'[i] = escrow[i] /\ (escrow[i] # "none" => cost'[i] = cost[i])
    \/ escrow[i] = "none" /\ escrow'[i] = "held" /\ cost'[i] \in Prices
    \/ escrow[i] = "held" /\ escrow'[i] \in {"settled", "released"} /\ cost'[i] = cost[i]

\* A step of one item.
ItemMove(i) ==
    /\ \A j \in Item \ {i} : /\ step'[j] = step[j] /\ outcome'[j] = outcome[j]
                             /\ escrow'[j] = escrow[j] /\ cost'[j] = cost[j]
    /\ ItemOK(i)' /\ EscrowMove(i)
    /\ strategy' = strategy
    /\ step'[i] = step[i] \/ step[i] \in Waits \/ batch = "running"
    /\ outcome[i] = "success" => outcome'[i] = "success"
    /\ Begun(i)' => \/ Begun(i)
                    \/ strategy = "sequential" =>
                         \A j \in Item : j < i => outcome[j] = "success"
    /\ \/ batch' = batch
       \/ /\ batch' = "thrown" /\ strategy = "sequential"
          /\ step[i] \in Waits /\ step'[i] = "done"

-----------------------------------------------------------------------------
\* The bounds are numbers, and so are items and prices.
LEMMA Numbers ==
    /\ Items \in Nat /\ MaxFaults \in Nat /\ TotalBudget \in Nat /\ InitialBalance \in Nat
    /\ Item \subseteq Nat /\ Prices \subseteq Nat /\ 0 \notin Item
BY BatchAssumption DEF Item

\* The prices are numbers.
LEMMA Known ==
    ASSUME BatchStrong, NEW i \in Item
    PROVE  BatchTypeOK /\ ItemOK(i) /\ cost[i] \in Nat /\ balance \in Nat
<1>1. BatchTypeOK /\ ItemOK(i)
  BY DEF BatchStrong
<1>2. cost[i] \in Prices \cup {0} /\ balance \in Nat
  BY <1>1 DEF BatchTypeOK
<1>3. \A p \in Prices : p \in Nat
  BY Numbers
<1>4. cost[i] \in Nat
  BY <1>2, <1>3
<1> QED
  BY <1>1, <1>2, <1>4

\* The step of one item keeps the invariant.
LEMMA MoveKeeps ==
    ASSUME BatchStrong, BatchTypeOK', NEW i \in Item, ItemMove(i)
    PROVE  BatchStrong' /\ \A j \in Item : EscrowMove(j)
<1> USE Numbers
<1>1. \A j \in Item : ItemOK(j)'
  BY DEF ItemMove, BatchStrong, ItemOK, Begun
<1>2. \A j \in Item : outcome[j] = "success" => outcome'[j] = "success"
  BY DEF ItemMove
<1>3. SequenceOK'
  <2> SUFFICES ASSUME strategy = "sequential", NEW k \in Item, Begun(k)', NEW j \in Item, j < k
               PROVE  outcome'[j] = "success"
    BY DEF SequenceOK, ItemMove
  <2>1. CASE Begun(k)
    BY <1>2, <2>1 DEF BatchStrong, SequenceOK
  <2>2. CASE ~Begun(k)
    <3>1. k = i
      BY <2>2 DEF ItemMove, Begun
    <3> QED
      BY <1>2, <2>2, <3>1 DEF ItemMove
  <2> QED
    BY <2>1, <2>2
<1>4. BatchOK'
  <2>1. CASE batch' = batch
    BY <2>1 DEF BatchStrong, BatchOK, ItemMove, Waits
  <2>2. CASE /\ batch' = "thrown" /\ strategy = "sequential"
             /\ step[i] \in Waits /\ step'[i] = "done"
    <3>1. \A j \in Item \ {i} : step[j] \notin Waits
      <4> SUFFICES ASSUME NEW j \in Item, j # i, step[j] \in Waits PROVE FALSE
        OBVIOUS
      <4>1. Begun(i) /\ Begun(j) /\ outcome[i] = "none" /\ outcome[j] = "none"
        BY <2>2 DEF Begun, BatchStrong, ItemOK, Waits
      <4>2. i < j \/ j < i
        OBVIOUS
      <4> QED
        BY <2>2, <4>1, <4>2 DEF BatchStrong, SequenceOK
    <3> QED
      BY <2>2, <3>1 DEF BatchOK, ItemMove, Waits
  <2> QED
    BY <2>1, <2>2 DEF ItemMove
<1>5. \A j \in Item : EscrowMove(j)
  BY DEF ItemMove, EscrowMove
<1> QED
  BY <1>1, <1>3, <1>4, <1>5 DEF BatchStrong

-----------------------------------------------------------------------------
\* The end of an item that has its hold: success, failure or rejection.
LEMMA EndsKeep ==
    ASSUME BatchStrong, NEW i \in Item,
           step[i] \in Waits \ {"resolving"},
           Success(i) \/ Failure(i),
           UNCHANGED <<strategy, cap, cost, client>>,
           hubEscrow' \in [Item -> EscrowStatus]
    PROVE  BatchTypeOK' /\ ItemMove(i)
<1>0. BatchTypeOK /\ ItemOK(i) /\ cost[i] \in Nat /\ balance \in Nat
  BY Known
<1> USE Numbers DEF Success, Failure, Reject, Result, Disconnects
<1>1. /\ step' = [step EXCEPT ![i] = "done"]
      /\ \E status \in {"success", "failed"} : outcome' = [outcome EXCEPT ![i] = status]
      /\ \E paid \in {0, cost[i]} : spent' = [spent EXCEPT ![i] = paid]
      /\ \E back \in {0, cost[i]} : refunded' = [refunded EXCEPT ![i] = back]
  OBVIOUS
<1>2. \/ UNCHANGED escrow /\ escrow[i] # "held"
      \/ /\ escrow[i] = "held"
         /\ \E status \in {"settled", "released"} : escrow' = [escrow EXCEPT ![i] = status]
  OBVIOUS
<1>3. \/ UNCHANGED <<batch, link>>
      \/ /\ batch' = "thrown" /\ strategy = "sequential"
         /\ link' = [j \in Item |-> IF j = client THEN "closed" ELSE link[j]]
  OBVIOUS
<1>4. balance' \in Nat /\ faults' \in 0 .. MaxFaults
  BY <1>0 DEF BatchTypeOK
<1>5. BatchTypeOK'
  <2>1. strategy' \in {"sequential", "parallel"} /\ cap' \in [Item -> Caps]
        /\ cost' \in [Item -> Prices \cup {0}] /\ client' \in 0 .. Items
    BY <1>0 DEF BatchTypeOK
  <2>2. step' \in [Item -> Waits \cup {"waiting", "done"}]
        /\ outcome' \in [Item -> {"none", "success", "failed", "skipped"}]
    BY <1>0, <1>1 DEF BatchTypeOK
  <2>3. spent' \in [Item -> Nat] /\ refunded' \in [Item -> Nat]
    BY <1>0, <1>1 DEF BatchTypeOK
  <2>4. escrow' \in [Item -> EscrowStatus]
    BY <1>0, <1>2 DEF BatchTypeOK, EscrowStatus
  <2>5. batch' \in {"none", "running", "returned", "thrown"}
        /\ link' \in [Item -> {"none", "connecting", "open", "closed"}]
    BY <1>0, <1>3 DEF BatchTypeOK
  <2> QED
    BY <1>4, <2>1, <2>2, <2>3, <2>4, <2>5 DEF BatchTypeOK
<1>6. \A j \in Item \ {i} : /\ step'[j] = step[j] /\ outcome'[j] = outcome[j]
                            /\ escrow'[j] = escrow[j] /\ cost'[j] = cost[j]
  BY <1>0, <1>1, <1>2 DEF BatchTypeOK
<1>7. step'[i] = "done" /\ outcome'[i] \in {"success", "failed"} /\ cost'[i] = cost[i]
      /\ outcome[i] = "none" /\ Begun(i)
  BY <1>0, <1>1 DEF BatchTypeOK, ItemOK, Begun, Waits
<1>8. EscrowMove(i) /\ escrow'[i] # "held" /\ (escrow'[i] # "none" => escrow[i] # "none")
  BY <1>0, <1>2, <1>7 DEF BatchTypeOK, EscrowMove
<1>9. ItemOK(i)'
  BY <1>0, <1>7, <1>8 DEF ItemOK, Begun
<1> HIDE DEF Success, Failure, Reject, Result, Disconnects
<1> QED
  BY <1>3, <1>5, <1>6, <1>7, <1>8, <1>9 DEF ItemMove

-----------------------------------------------------------------------------
\* An item begins: those before it have succeeded, or the batch is parallel.
LEMMA BeginMoves ==
    ASSUME BatchStrong, NEW i \in Item, Begin(i)
    PROVE  BatchTypeOK' /\ ItemMove(i)
<1>0. BatchTypeOK /\ ItemOK(i)
  BY Known
<1> USE Numbers DEF Begin, Turn
<1>1. BatchTypeOK'
  BY <1>0 DEF BatchTypeOK, Waits, EscrowStatus
<1>2. \A j \in Item \ {i} : /\ step'[j] = step[j] /\ outcome'[j] = outcome[j]
                            /\ escrow'[j] = escrow[j] /\ cost'[j] = cost[j]
  BY <1>0 DEF BatchTypeOK
<1>3. ItemOK(i)' /\ EscrowMove(i)
  BY <1>0 DEF BatchTypeOK, ItemOK, EscrowMove, Begun, Waits
<1>4. Begun(i)' => \/ Begun(i)
                   \/ strategy = "sequential" =>
                        \A j \in Item : j < i => outcome[j] = "success"
  BY <1>0 DEF BatchTypeOK, ItemOK, Begun, Waits, Item
<1> QED
  BY <1>0, <1>1, <1>2, <1>3, <1>4 DEF ItemMove, BatchTypeOK, ItemOK, Waits

\* An item behind a failure is skipped.
LEMMA SkipMoves ==
    ASSUME BatchStrong, NEW i \in Item, Skip(i)
    PROVE  BatchTypeOK' /\ ItemMove(i)
<1>0. BatchTypeOK /\ ItemOK(i)
  BY Known
<1> USE Numbers DEF Skip
<1>1. BatchTypeOK'
  BY <1>0 DEF BatchTypeOK, Waits, EscrowStatus
<1>2. \A j \in Item \ {i} : /\ step'[j] = step[j] /\ outcome'[j] = outcome[j]
                            /\ escrow'[j] = escrow[j] /\ cost'[j] = cost[j]
  BY <1>0 DEF BatchTypeOK
<1>3. ItemOK(i)' /\ EscrowMove(i)
  BY <1>0 DEF BatchTypeOK, ItemOK, EscrowMove, Begun, Waits
<1>4. Begun(i)' => \/ Begun(i)
                   \/ strategy = "sequential" =>
                        \A j \in Item : j < i => outcome[j] = "success"
  BY <1>0 DEF BatchTypeOK, ItemOK, Begun, Waits, Item
<1> QED
  BY <1>0, <1>1, <1>2, <1>3, <1>4 DEF ItemMove, BatchTypeOK, ItemOK, Waits

\* An item without a target, or too dear, fails before its hold.
LEMMA DeclineMoves ==
    ASSUME BatchStrong, NEW i \in Item, Decline(i)
    PROVE  BatchTypeOK' /\ ItemMove(i)
<1>0. BatchTypeOK /\ ItemOK(i)
  BY Known
<1> USE Numbers DEF Decline, Result
<1>1. BatchTypeOK'
  BY <1>0 DEF BatchTypeOK, Waits, EscrowStatus
<1>2. \A j \in Item \ {i} : /\ step'[j] = step[j] /\ outcome'[j] = outcome[j]
                            /\ escrow'[j] = escrow[j] /\ cost'[j] = cost[j]
  BY <1>0 DEF BatchTypeOK
<1>3. ItemOK(i)' /\ EscrowMove(i)
  BY <1>0 DEF BatchTypeOK, ItemOK, EscrowMove, Begun, Waits
<1>4. Begun(i)' => \/ Begun(i)
                   \/ strategy = "sequential" =>
                        \A j \in Item : j < i => outcome[j] = "success"
  BY <1>0 DEF BatchTypeOK, ItemOK, Begun, Waits, Item
<1> QED
  BY <1>0, <1>1, <1>2, <1>3, <1>4 DEF ItemMove, BatchTypeOK, ItemOK, Waits

\* An item makes a relay client.
LEMMA ImportedMoves ==
    ASSUME BatchStrong, NEW i \in Item, Imported(i)
    PROVE  BatchTypeOK' /\ ItemMove(i)
<1>0. BatchTypeOK /\ ItemOK(i)
  BY Known
<1> USE Numbers DEF Imported, Item
<1>1. BatchTypeOK'
  BY <1>0 DEF BatchTypeOK, Waits, EscrowStatus
<1>2. \A j \in Item \ {i} : /\ step'[j] = step[j] /\ outcome'[j] = outcome[j]
                            /\ escrow'[j] = escrow[j] /\ cost'[j] = cost[j]
  BY <1>0 DEF BatchTypeOK
<1>3. ItemOK(i)' /\ EscrowMove(i)
  BY <1>0 DEF BatchTypeOK, ItemOK, EscrowMove, Begun, Waits
<1>4. Begun(i)' => \/ Begun(i)
                   \/ strategy = "sequential" =>
                        \A j \in Item : j < i => outcome[j] = "success"
  BY <1>0 DEF BatchTypeOK, ItemOK, Begun, Waits, Item
<1> QED
  BY <1>0, <1>1, <1>2, <1>3, <1>4 DEF ItemMove, BatchTypeOK, ItemOK, Waits

\* Its client is connected.
LEMMA ConnectedMoves ==
    ASSUME BatchStrong, NEW i \in Item, Connected(i)
    PROVE  BatchTypeOK' /\ ItemMove(i)
<1>0. BatchTypeOK /\ ItemOK(i)
  BY Known
<1> USE Numbers DEF Connected
<1>1. BatchTypeOK'
  BY <1>0 DEF BatchTypeOK, Waits, EscrowStatus
<1>2. \A j \in Item \ {i} : /\ step'[j] = step[j] /\ outcome'[j] = outcome[j]
                            /\ escrow'[j] = escrow[j] /\ cost'[j] = cost[j]
  BY <1>0 DEF BatchTypeOK
<1>3. ItemOK(i)' /\ EscrowMove(i)
  BY <1>0 DEF BatchTypeOK, ItemOK, EscrowMove, Begun, Waits
<1>4. Begun(i)' => \/ Begun(i)
                   \/ strategy = "sequential" =>
                        \A j \in Item : j < i => outcome[j] = "success"
  BY <1>0 DEF BatchTypeOK, ItemOK, Begun, Waits, Item
<1> QED
  BY <1>0, <1>1, <1>2, <1>3, <1>4 DEF ItemMove, BatchTypeOK, ItemOK, Waits

\* The price is compared and held in one tick.
LEMMA HoldMoves ==
    ASSUME BatchStrong, NEW i \in Item, Hold(i)
    PROVE  BatchTypeOK' /\ ItemMove(i)
<1>0. BatchTypeOK /\ ItemOK(i)
  BY Known
<1>1. PICK price \in Prices, next \in {"dispatching", "relay"} :
          /\ Affordable(i, price)
          /\ cost' = [cost EXCEPT ![i] = price]
          /\ balance' = balance - price
          /\ step' = [step EXCEPT ![i] =
                         IF next = "dispatching" THEN next
                         ELSE IF client = 0 THEN "importing" ELSE "sending"]
  BY DEF Hold
<1>2. /\ step[i] = "resolving" /\ escrow' = [escrow EXCEPT ![i] = "held"]
      /\ UNCHANGED <<strategy, cap, batch, hubEscrow, outcome, spent, refunded, client,
                     link, faults>>
  BY DEF Hold
<1>3. balance' \in Nat
  <2>1. \A p \in Prices : p \in Nat
    BY Numbers
  <2> QED
    BY <1>0, <1>1, <2>1 DEF Affordable, BatchTypeOK
<1>4. BatchTypeOK'
  BY <1>0, <1>1, <1>2, <1>3 DEF BatchTypeOK, Waits, EscrowStatus
<1>5. \A j \in Item \ {i} : /\ step'[j] = step[j] /\ outcome'[j] = outcome[j]
                            /\ escrow'[j] = escrow[j] /\ cost'[j] = cost[j]
  BY <1>0, <1>1, <1>2 DEF BatchTypeOK
<1>6. /\ step'[i] \in Waits \ {"resolving"} /\ cost'[i] = price /\ escrow'[i] = "held"
      /\ escrow[i] = "none" /\ step[i] \in Waits
  BY <1>0, <1>1, <1>2 DEF BatchTypeOK, ItemOK, Waits, EscrowStatus
<1>7. ItemOK(i)' /\ EscrowMove(i)
  BY <1>0, <1>1, <1>2, <1>6 DEF ItemOK, EscrowMove, Begun, Waits
<1> QED
  BY <1>2, <1>4, <1>5, <1>6, <1>7 DEF ItemMove, Begun

\* The relay holds the price again, or refuses for lack of credits.
LEMMA SendMoves ==
    ASSUME BatchStrong, NEW i \in Item, Send(i)
    PROVE  BatchTypeOK' /\ ItemMove(i)
<1>0. BatchTypeOK /\ ItemOK(i) /\ cost[i] \in Nat /\ balance \in Nat
  BY Known
<1>1. step[i] = "sending" /\ step[i] \in Waits \ {"resolving"} /\ UNCHANGED <<strategy, cap, cost, client>>
  BY DEF Send, Waits
<1>2. CASE balance < cost[i]
  <2>1. Failure(i) /\ hubEscrow' \in [Item -> EscrowStatus]
    BY <1>0, <1>2 DEF Send, BatchTypeOK
  <2> QED
    BY <1>1, <2>1, EndsKeep
<1>3. CASE balance >= cost[i]
  <2>1. /\ hubEscrow' = [hubEscrow EXCEPT ![i] = "held"]
        /\ balance' = balance - cost[i]
        /\ step' = [step EXCEPT ![i] = "remote"]
        /\ UNCHANGED <<batch, escrow, outcome, spent, refunded, link, faults>>
    BY <1>0, <1>3 DEF Send
  <2>2. BatchTypeOK'
    BY <1>0, <1>1, <1>3, <2>1 DEF BatchTypeOK, Waits, EscrowStatus
  <2>3. ItemOK(i)' /\ EscrowMove(i)
    BY <1>0, <1>1, <2>1 DEF BatchTypeOK, ItemOK, EscrowMove, Begun, Waits
  <2>4. \A j \in Item \ {i} : /\ step'[j] = step[j] /\ outcome'[j] = outcome[j]
                              /\ escrow'[j] = escrow[j] /\ cost'[j] = cost[j]
    BY <1>0, <1>1, <2>1 DEF BatchTypeOK
  <2> QED
    BY <1>1, <2>1, <2>2, <2>3, <2>4 DEF ItemMove, Begun
<1> QED
  BY <1>0, <1>2, <1>3

\* The answer, a failed connection and the time limit end an item.
LEMMA AnswersMove ==
    ASSUME BatchStrong, NEW i \in Item,
           Dispatched(i) \/ SendFails(i) \/ Answered(i) \/ TimedOut(i)
    PROVE  BatchTypeOK' /\ ItemMove(i)
<1>1. step[i] \in Waits \ {"resolving"} /\ UNCHANGED <<strategy, cap, cost, client>>
  BY DEF Dispatched, SendFails, Answered, TimedOut, Waits
<1>2. Success(i) \/ Failure(i)
  BY DEF Dispatched, SendFails, Answered, TimedOut
<1>3. hubEscrow' \in [Item -> EscrowStatus]
  BY DEF Dispatched, SendFails, Answered, TimedOut, BatchStrong, BatchTypeOK, EscrowStatus
<1> QED
  BY <1>1, <1>2, <1>3, EndsKeep

\* The relay ends a request nobody waits for, or a recovery takes the hold.
LEMMA OthersMove ==
    ASSUME BatchStrong, NEW i \in Item, HubEnds(i) \/ Recover(i)
    PROVE  BatchTypeOK' /\ ItemMove(i)
<1>0. BatchTypeOK /\ ItemOK(i) /\ cost[i] \in Nat /\ balance \in Nat
  BY Known
<1> USE Numbers
<1>1. /\ UNCHANGED <<strategy, cap, batch, step, cost, outcome, spent, refunded, client, link>>
      /\ \/ UNCHANGED escrow
         \/ escrow[i] = "held" /\ escrow' = [escrow EXCEPT ![i] = "released"]
  BY DEF HubEnds, Recover
<1>2. /\ balance' \in Nat /\ faults' \in 0 .. MaxFaults
      /\ hubEscrow' \in [Item -> EscrowStatus]
  BY <1>0 DEF HubEnds, Recover, BatchTypeOK, EscrowStatus
<1>3. BatchTypeOK'
  BY <1>0, <1>1, <1>2 DEF BatchTypeOK, EscrowStatus
<1>4. ItemOK(i)' /\ EscrowMove(i)
  BY <1>0, <1>1 DEF BatchTypeOK, ItemOK, EscrowMove, Begun
<1>5. \A j \in Item \ {i} : escrow'[j] = escrow[j]
  BY <1>0, <1>1 DEF BatchTypeOK
<1> QED
  BY <1>1, <1>3, <1>4, <1>5 DEF ItemMove, Begun

-----------------------------------------------------------------------------
\* The batch is refused before anything is held, or it runs.
LEMMA SubmitKeeps ==
    ASSUME BatchStrong, Submit
    PROVE  BatchStrong' /\ UNCHANGED <<escrow, cost>>
<1>1. /\ batch = "none" /\ UNCHANGED <<strategy, cap, cost, escrow, hubEscrow, spent, refunded,
                                       client, link, balance, faults>>
      /\ \A i \in Item : step[i] = "waiting" /\ outcome[i] = "none"
  BY DEF Submit, BatchStrong, BatchOK, ItemOK
<1>2. \/ /\ batch' = "returned" /\ outcome' = [i \in Item |-> "skipped"]
         /\ step' = [i \in Item |-> "done"]
      \/ batch' = "running" /\ UNCHANGED <<outcome, step>>
  BY DEF Submit
<1>3. \A i \in Item : escrow[i] = "none"
  BY <1>1 DEF BatchStrong, ItemOK, Begun, Waits
<1>4. BatchTypeOK'
  BY <1>1, <1>2 DEF BatchStrong, BatchTypeOK
<1>5. \A i \in Item : ItemOK(i)' /\ ~Begun(i)'
  BY <1>1, <1>2, <1>3 DEF ItemOK, Begun, Waits
<1>6. SequenceOK' /\ BatchOK'
  BY <1>2, <1>5 DEF SequenceOK, BatchOK
<1> QED
  BY <1>1, <1>4, <1>5, <1>6 DEF BatchStrong

\* The batch answers when all its items are done.
LEMMA ReturnKeeps ==
    ASSUME BatchStrong, Return
    PROVE  BatchStrong' /\ UNCHANGED <<escrow, cost>>
<1>1. /\ \A i \in Item : step[i] = "done"
      /\ batch' = "returned"
      /\ UNCHANGED <<strategy, cap, step, cost, escrow, hubEscrow, outcome, spent, refunded,
                     client, balance, faults>>
      /\ link' = [i \in Item |-> IF i = client THEN "closed" ELSE link[i]]
  BY DEF Return, Disconnects, itemVars
<1>2. BatchTypeOK'
  BY <1>1 DEF BatchStrong, BatchTypeOK
<1> QED
  BY <1>1, <1>2 DEF BatchStrong, ItemOK, Begun, SequenceOK, BatchOK

\* At the start every item waits.
LEMMA InitStrong == BatchInit => BatchStrong
<1> SUFFICES ASSUME BatchInit PROVE BatchStrong
  OBVIOUS
<1>1. BatchTypeOK
  BY Numbers DEF BatchInit, BatchTypeOK, EscrowStatus
<1>2. \A i \in Item : ItemOK(i) /\ ~Begun(i)
  BY DEF BatchInit, ItemOK, Begun, Waits
<1> QED
  BY <1>1, <1>2 DEF BatchInit, BatchStrong, SequenceOK, BatchOK

\* Every step keeps the invariant and moves escrows as the promise allows.
LEMMA StepKeeps ==
    ASSUME BatchStrong, BatchNext
    PROVE  BatchStrong' /\ \A j \in Item : EscrowMove(j)
<1>1. ASSUME NEW i \in Item, ItemStep(i) \/ HubEnds(i) \/ Recover(i)
      PROVE  BatchTypeOK' /\ ItemMove(i)
  BY <1>1, BeginMoves, SkipMoves, DeclineMoves, HoldMoves, ImportedMoves, ConnectedMoves,
     SendMoves, AnswersMove, OthersMove DEF ItemStep
<1>2. CASE Submit \/ Return
  BY <1>2, SubmitKeeps, ReturnKeeps DEF EscrowMove
<1>3. CASE \E i \in Item : ItemStep(i) \/ HubEnds(i) \/ Recover(i)
  BY <1>1, <1>3, MoveKeeps
<1> QED
  BY <1>2, <1>3 DEF BatchNext

\* So does a stutter.
LEMMA StutterKeeps == BatchStrong /\ UNCHANGED batchVars => BatchStrong'
BY DEF batchVars, itemVars, BatchStrong, BatchTypeOK, ItemOK, Begun, SequenceOK, BatchOK

-----------------------------------------------------------------------------
\* The inductive invariant holds throughout.
THEOREM BatchStrongHolds == BatchSpec => []BatchStrong
<1>1. BatchStrong /\ [BatchNext]_batchVars => BatchStrong'
  BY StepKeeps, StutterKeeps
<1> QED
  BY <1>1, InitStrong, PTL DEF BatchSpec

\* However the items interleave and whatever fails, a batch that has answered
\* has left no hold, and a sequential one has stopped at its first failure
\* (execute.ts:676, :697-719).
THEOREM BatchKeepsOn == BatchSpec => []BatchInv
<1>1. ASSUME BatchStrong PROVE BatchInv
  <2> USE <1>1, Numbers DEF BatchStrong
  <2>1. NoHoldLeft
    BY DEF NoHoldLeft, BatchOK, ItemOK, Begun
  <2>2. SequentialStops
    <3> SUFFICES ASSUME strategy = "sequential", NEW i \in Item, NEW j \in Item
                 PROVE  /\ step[i] \in Waits /\ step[j] \in Waits => i = j
                        /\ j < i /\ outcome[j] = "failed" => escrow[i] = "none"
      BY DEF SequentialStops
    <3>1. \A k, l \in Item : Begun(k) /\ l < k => outcome[l] = "success"
      BY DEF SequenceOK
    <3>2. ASSUME step[i] \in Waits, step[j] \in Waits PROVE i = j
      <4>1. Begun(i) /\ Begun(j) /\ outcome[i] = "none" /\ outcome[j] = "none"
        BY <3>2 DEF Begun, ItemOK, Waits
      <4>2. ~(i < j) /\ ~(j < i)
        BY <3>1, <4>1
      <4> QED
        BY <4>2
    <3>3. ASSUME j < i, outcome[j] = "failed" PROVE escrow[i] = "none"
      BY <3>1, <3>3 DEF ItemOK
    <3> QED
      BY <3>2, <3>3
  <2> QED
    BY <2>1, <2>2 DEF BatchInv
<1> QED
  BY <1>1, BatchStrongHolds, PTL

\* What the refinement mapping makes of such moves.
LEMMA MovesArePromised ==
    ASSUME BatchTypeOK, BatchTypeOK', \A i \in Item : EscrowMove(i)
    PROVE  Promise!PromiseNext
<1> DEFINE open == [i \in Item |->
               CASE escrow[i] = "none" -> "none"
                 [] escrow[i] = "held" -> "open"
                 [] escrow[i] = "settled" -> "paid"
                 [] escrow[i] = "released" -> "refunded"]
           amount == [i \in Item |-> IF escrow[i] = "none" THEN 0 ELSE cost[i]]
           out == [i \in Item |-> IF escrow[i] \in {"settled", "released"} THEN cost[i] ELSE 0]
<1> SUFFICES ASSUME NEW i \in Item
             PROVE  \/ /\ open'[i] = open[i] /\ amount'[i] = amount[i] /\ out'[i] = out[i]
                    \/ /\ open[i] = "none" /\ open'[i] = "open"
                       /\ amount'[i] \in Prices /\ out'[i] = out[i]
                    \/ /\ open[i] = "open"
                       /\ \/ open'[i] \in {"paid", "refunded"} /\ out'[i] = amount[i]
                          \/ open'[i] = "confirmed" /\ out'[i] = 0
                       /\ amount'[i] = amount[i]
  BY DEF Promise!PromiseNext, Promise!Stays, Promise!Opens, Promise!Closes
<1>1. /\ open[i] = CASE escrow[i] = "none" -> "none"
                     [] escrow[i] = "held" -> "open"
                     [] escrow[i] = "settled" -> "paid"
                     [] escrow[i] = "released" -> "refunded"
      /\ open'[i] = CASE escrow'[i] = "none" -> "none"
                      [] escrow'[i] = "held" -> "open"
                      [] escrow'[i] = "settled" -> "paid"
                      [] escrow'[i] = "released" -> "refunded"
      /\ amount[i] = IF escrow[i] = "none" THEN 0 ELSE cost[i]
      /\ amount'[i] = IF escrow'[i] = "none" THEN 0 ELSE cost'[i]
      /\ out[i] = IF escrow[i] \in {"settled", "released"} THEN cost[i] ELSE 0
      /\ out'[i] = IF escrow'[i] \in {"settled", "released"} THEN cost'[i] ELSE 0
  OBVIOUS
<1> HIDE DEF open, amount, out
<1>2. EscrowMove(i) /\ escrow[i] \in {"none", "held", "settled", "released"}
  BY DEF BatchTypeOK, EscrowStatus
<1> QED
  BY <1>1, <1>2 DEF EscrowMove

\* The batch keeps the promise of the escrow for each of its items, whatever
\* throws and whoever recovers (execute.ts:649, agent-runtime.ts:299).
THEOREM BatchEscrowPromise == BatchSpec => BatchKeepsPromise
<1>1. BatchInit => Promise!PromiseInit
  BY DEF BatchInit, Promise!PromiseInit
<1>2. BatchStrong /\ BatchStrong' /\ [BatchNext]_batchVars
         => [Promise!PromiseNext]_Promise!promiseVars
  <2>1. ASSUME BatchStrong, BatchStrong', BatchNext PROVE Promise!PromiseNext
    BY <2>1, StepKeeps, MovesArePromised DEF BatchStrong
  <2>2. ASSUME UNCHANGED batchVars PROVE UNCHANGED Promise!promiseVars
    BY <2>2 DEF batchVars, itemVars, Promise!promiseVars
  <2> QED
    BY <2>1, <2>2
<1> QED
  BY <1>1, <1>2, BatchStrongHolds, PTL
  DEF BatchSpec, BatchKeepsPromise, Promise!PromiseSpec

-----------------------------------------------------------------------------
(* The books of a batch                                                    *)

\* An item that got past the check of the budget holds no more than its cap;
\* what its result reports is what its escrow did, and exactly so as long as
\* nothing has failed.
ItemBooks(i) ==
    /\ step[i] \in Waits \/ escrow[i] # "none" => Total(cap) <= TotalBudget
    /\ escrow[i] # "none" => cost[i] <= cap[i]
    /\ spent[i] > 0 => escrow[i] = "settled" /\ spent[i] = cost[i]
    /\ refunded[i] > 0 => escrow[i] = "released"
    /\ escrow[i] = "settled" => step[i] = "done"
    /\ escrow[i] = "settled" /\ faults = 0 => spent[i] = cost[i]

\* The inductive invariant of the books.
BatchBooks ==
    /\ batch = "running" => Total(cap) <= TotalBudget
    /\ \A i \in Item : ItemBooks(i)

\* The items can be counted, and the sum of their caps is a number.
LEMMA ItemsFinite == IsFiniteSet(Item)
BY FS_Interval, Numbers DEF Item

\* The sum of the caps is a number.
LEMMA TotalOfCaps ==
    ASSUME BatchTypeOK
    PROVE  Total(cap) \in Int
<1>1. \A i \in Item : cap[i] \in Int
  <2>1. \A c \in Caps : c \in Int
    BY BatchAssumption
  <2> QED
    BY <2>1 DEF BatchTypeOK
<1>2. SumOf(cap, Item) \in Int
  BY <1>1, ItemsFinite, SumInt
<1> QED
  BY <1>2 DEF Total, SumOf

\* A step that ends no item and opens no hold leaves the books as they are.
LEMMA QuietKeepsBooks ==
    ASSUME BatchStrong, BatchBooks, NEW i \in Item,
           Begin(i) \/ Skip(i) \/ Imported(i) \/ Connected(i) \/ HubEnds(i)
    PROVE  BatchBooks'
<1>0. BatchTypeOK /\ ItemOK(i) /\ ItemBooks(i)
  BY Known DEF BatchBooks
<1>1. /\ UNCHANGED <<cap, batch, cost, escrow, spent, refunded, faults>>
      /\ step'[i] # step[i] => /\ step[i] # "done"
                               /\ step[i] \in Waits \/ batch = "running"
      /\ \A j \in Item \ {i} : step'[j] = step[j]
  BY <1>0 DEF Begin, Skip, Imported, Connected, HubEnds, Waits, BatchTypeOK
<1>2. \A j \in Item : ItemBooks(j)'
  <2> SUFFICES ASSUME NEW j \in Item PROVE ItemBooks(j)'
    OBVIOUS
  <2>1. ItemBooks(j) /\ (batch = "running" => Total(cap) <= TotalBudget)
    BY DEF BatchBooks
  <2>2. /\ step'[j] \in Waits => step[j] \in Waits \/ batch = "running"
        /\ escrow[j] = "settled" => step'[j] = "done"
    BY <1>0, <1>1, <2>1 DEF ItemBooks
  <2> QED
    BY <1>1, <2>1, <2>2 DEF ItemBooks
<1> QED
  BY <1>1, <1>2 DEF BatchBooks

\* The hold of an item is within its cap, and the caps within the budget.
LEMMA HoldKeepsBooks ==
    ASSUME BatchStrong, BatchBooks, NEW i \in Item, Hold(i)
    PROVE  BatchBooks'
<1>0. BatchTypeOK /\ ItemOK(i) /\ ItemBooks(i)
  BY Known DEF BatchBooks
<1>1. PICK price \in Prices, s \in Waits :
          /\ price <= cap[i]
          /\ cost' = [cost EXCEPT ![i] = price]
          /\ step' = [step EXCEPT ![i] = s]
  BY DEF Hold, Affordable, Waits
<1>2. /\ step[i] = "resolving" /\ escrow' = [escrow EXCEPT ![i] = "held"]
      /\ UNCHANGED <<cap, batch, spent, refunded, faults>>
  BY DEF Hold
<1>3. escrow[i] = "none" /\ step[i] \in Waits
  BY <1>0, <1>2 DEF ItemOK, BatchTypeOK, EscrowStatus, Waits
<1>4. ItemBooks(i)'
  BY <1>0, <1>1, <1>2, <1>3 DEF ItemBooks, BatchTypeOK
<1>5. ASSUME NEW j \in Item, j # i PROVE ItemBooks(j)'
  <2>1. ItemBooks(j) /\ cost'[j] = cost[j] /\ step'[j] = step[j] /\ escrow'[j] = escrow[j]
    BY <1>0, <1>1, <1>2, <1>5 DEF BatchBooks, BatchTypeOK
  <2> QED
    BY <1>2, <2>1 DEF ItemBooks
<1> QED
  BY <1>2, <1>4, <1>5 DEF BatchBooks

\* An item without a hold ends and reports nothing.
LEMMA DeclineKeepsBooks ==
    ASSUME BatchStrong, BatchBooks, NEW i \in Item, Decline(i)
    PROVE  BatchBooks'
<1>0. BatchTypeOK /\ ItemOK(i) /\ ItemBooks(i)
  BY Known DEF BatchBooks
<1>1. /\ step[i] = "resolving" /\ step' = [step EXCEPT ![i] = "done"]
      /\ spent' = [spent EXCEPT ![i] = 0] /\ refunded' = [refunded EXCEPT ![i] = 0]
      /\ UNCHANGED <<cap, batch, cost, escrow, faults>>
  BY DEF Decline, Result
<1>2. ItemBooks(i)'
  BY <1>0, <1>1 DEF ItemBooks, BatchTypeOK, ItemOK
<1>3. ASSUME NEW j \in Item, j # i PROVE ItemBooks(j)'
  <2>1. /\ ItemBooks(j) /\ step'[j] = step[j] /\ spent'[j] = spent[j]
        /\ refunded'[j] = refunded[j]
    BY <1>0, <1>1, <1>3 DEF BatchBooks, BatchTypeOK
  <2> QED
    BY <1>1, <2>1 DEF ItemBooks
<1> QED
  BY <1>1, <1>2, <1>3 DEF BatchBooks

\* An item ends: it reports its price only if its hold was settled, and a
\* settlement goes unreported only if a write failed.
LEMMA EndKeepsBooks ==
    ASSUME BatchStrong, BatchBooks, NEW i \in Item, step[i] \in Waits,
           Success(i) \/ Failure(i), UNCHANGED <<cap, cost>>
    PROVE  BatchBooks'
<1>0. BatchTypeOK /\ ItemOK(i) /\ ItemBooks(i) /\ cost[i] \in Nat
  BY Known DEF BatchBooks
<1>1. /\ step'[i] = "done"
      /\ \/ /\ escrow[i] = "held" /\ escrow'[i] = "settled" /\ refunded'[i] = 0
            /\ spent'[i] = cost[i] \/ (spent'[i] = 0 /\ faults' = faults + 1)
         \/ escrow[i] = "held" /\ escrow'[i] = "released" /\ spent'[i] = 0
         \/ /\ escrow[i] # "held" /\ escrow'[i] = escrow[i]
            /\ spent'[i] = 0 /\ refunded'[i] = 0
  <2>1. CASE Failure(i)
    BY <1>0, <2>1 DEF Failure, Reject, Result, BatchTypeOK
  <2>2. CASE escrow[i] = "held" /\ Success(i)
    <3>1. Result(i, "success", cost[i], 0) \/ (faults' = faults + 1 /\ Reject(i))
      BY <2>2 DEF Success
    <3>2. escrow'[i] = "settled"
      BY <1>0, <2>2 DEF Success, BatchTypeOK
    <3> QED
      BY <1>0, <2>2, <3>1, <3>2 DEF Reject, Result, BatchTypeOK
  <2> QED
    BY <2>1, <2>2 DEF Success
<1>2. \A j \in Item \ {i} :
          /\ step'[j] = step[j] /\ spent'[j] = spent[j]
          /\ refunded'[j] = refunded[j] /\ escrow'[j] = escrow[j]
  BY <1>0 DEF Success, Failure, Reject, Result, BatchTypeOK
<1>3. /\ batch' = "running" => batch = "running"
      /\ faults' \in {faults, faults + 1} /\ faults \in Nat
  BY <1>0, Numbers DEF Success, Failure, Reject, BatchTypeOK
<1>4. escrow[i] # "settled"
  BY <1>0 DEF ItemBooks, Waits
<1>5. ItemBooks(i)'
  BY <1>0, <1>1, <1>3, <1>4 DEF ItemBooks, BatchTypeOK, Waits
<1>6. ASSUME NEW j \in Item, j # i PROVE ItemBooks(j)'
  <2>1. /\ ItemBooks(j) /\ step'[j] = step[j] /\ spent'[j] = spent[j]
        /\ refunded'[j] = refunded[j] /\ escrow'[j] = escrow[j]
    BY <1>2, <1>6 DEF BatchBooks
  <2> QED
    BY <1>3, <2>1 DEF ItemBooks
<1> QED
  BY <1>3, <1>5, <1>6 DEF BatchBooks

\* A recovery gives a hold back and is one of the faults.
LEMMA RecoverKeepsBooks ==
    ASSUME BatchStrong, BatchBooks, NEW i \in Item, Recover(i)
    PROVE  BatchBooks'
<1>0. BatchTypeOK /\ ItemOK(i) /\ ItemBooks(i) /\ faults \in Nat
  BY Known, Numbers DEF BatchBooks, BatchTypeOK
<1>1. /\ escrow[i] = "held" /\ escrow' = [escrow EXCEPT ![i] = "released"]
      /\ faults' = faults + 1
      /\ UNCHANGED <<cap, batch, step, cost, spent, refunded>>
  BY DEF Recover
<1>2. ItemBooks(i)'
  BY <1>0, <1>1 DEF ItemBooks, BatchTypeOK
<1>3. ASSUME NEW j \in Item, j # i PROVE ItemBooks(j)'
  <2>1. ItemBooks(j) /\ escrow'[j] = escrow[j]
    BY <1>0, <1>1, <1>3 DEF BatchBooks, BatchTypeOK
  <2> QED
    BY <1>0, <1>1, <2>1 DEF ItemBooks
<1> QED
  BY <1>1, <1>2, <1>3 DEF BatchBooks

\* The batch begins only if its caps fit the budget.
LEMMA SubmitKeepsBooks ==
    ASSUME BatchStrong, BatchBooks, Submit \/ Return
    PROVE  BatchBooks'
<1>1. CASE Submit
  <2>1. /\ UNCHANGED <<cap, cost, escrow, spent, refunded, faults>>
        /\ \A i \in Item : step[i] = "waiting"
    BY <1>1 DEF Submit, BatchStrong, BatchOK
  <2>2. \/ batch' = "returned" /\ step' = [i \in Item |-> "done"]
        \/ batch' = "running" /\ UNCHANGED step /\ ~(Total(cap) > TotalBudget)
    BY <1>1 DEF Submit
  <2>3. Total(cap) \in Int /\ TotalBudget \in Int
    BY TotalOfCaps, Numbers DEF BatchStrong
  <2>4. batch' = "running" => Total(cap) <= TotalBudget
    BY <2>2, <2>3
  <2>5. \A i \in Item : step'[i] \notin Waits
    BY <2>1, <2>2 DEF Waits
  <2>6. \A i \in Item : ItemBooks(i)'
    BY <2>1, <2>2, <2>5 DEF ItemBooks, BatchBooks
  <2> QED
    BY <2>1, <2>4, <2>6 DEF BatchBooks
<1>2. CASE Return
  <2>1. batch' # "running" /\ UNCHANGED <<cap, step, cost, escrow, spent, refunded, faults>>
    BY <1>2 DEF Return, itemVars
  <2> QED
    BY <2>1 DEF BatchBooks, ItemBooks
<1> QED
  BY <1>1, <1>2

\* Every step keeps the books.
LEMMA StepKeepsBooks ==
    ASSUME BatchStrong, BatchBooks, [BatchNext]_batchVars
    PROVE  BatchBooks'
<1>1. ASSUME NEW i \in Item, ItemStep(i) \/ HubEnds(i) \/ Recover(i)
      PROVE  BatchBooks'
  <2>1. CASE Begin(i) \/ Skip(i) \/ Imported(i) \/ Connected(i) \/ HubEnds(i)
    BY <2>1, QuietKeepsBooks
  <2>2. CASE Hold(i)
    BY <2>2, HoldKeepsBooks
  <2>3. CASE Decline(i)
    BY <2>3, DeclineKeepsBooks
  <2>4. CASE Recover(i)
    BY <2>4, RecoverKeepsBooks
  <2>5. CASE Dispatched(i) \/ SendFails(i) \/ Answered(i) \/ TimedOut(i)
    <3>1. step[i] \in Waits /\ UNCHANGED <<cap, cost>>
      BY <2>5 DEF Dispatched, SendFails, Answered, TimedOut, Waits
    <3>2. Success(i) \/ Failure(i)
      BY <2>5 DEF Dispatched, SendFails, Answered, TimedOut
    <3> QED
      BY <3>1, <3>2, EndKeepsBooks
  <2>6. CASE Send(i)
    <3>1. step[i] \in Waits /\ UNCHANGED <<cap, cost>>
      BY <2>6 DEF Send, Waits
    <3>2. CASE balance < cost[i]
      BY <2>6, <3>1, <3>2, EndKeepsBooks DEF Send
    <3>3. CASE ~(balance < cost[i])
      <4>1. /\ step' = [step EXCEPT ![i] = "remote"]
            /\ UNCHANGED <<cap, cost, batch, escrow, spent, refunded, faults>>
        BY <2>6, <3>3 DEF Send
      <4>2. \A j \in Item : /\ step'[j] \in Waits => step[j] \in Waits
                            /\ step[j] = "done" => step'[j] = "done"
        BY <3>1, <4>1, Known DEF BatchTypeOK, Waits
      <4> QED
        BY <4>1, <4>2 DEF BatchBooks, ItemBooks
    <3> QED
      BY <3>2, <3>3
  <2> QED
    BY <1>1, <2>1, <2>2, <2>3, <2>4, <2>5, <2>6 DEF ItemStep
<1>2. CASE UNCHANGED batchVars
  BY <1>2 DEF batchVars, itemVars, BatchBooks, ItemBooks
<1> QED
  BY <1>1, <1>2, SubmitKeepsBooks DEF BatchNext

\* The books hold throughout.
LEMMA BooksHold == BatchSpec => []BatchBooks
<1>1. BatchInit => BatchBooks
  BY DEF BatchInit, BatchBooks, ItemBooks, Waits
<1>2. BatchStrong /\ BatchBooks /\ [BatchNext]_batchVars => BatchBooks'
  BY StepKeepsBooks
<1> QED
  BY <1>1, <1>2, BatchStrongHolds, PTL DEF BatchSpec

\* The batch's own holds and payments stay within total_budget: each is within
\* the cap of its item, and a batch whose caps exceed the budget holds nothing
\* (execute.ts:577, :626).
THEOREM BatchInBudget == BatchSpec => []OwnHoldsInBudget
<1>1. ASSUME BatchStrong, BatchBooks PROVE OwnHoldsInBudget
  <2> DEFINE taken == [i \in Item |-> IF escrow[i] \in {"held", "settled"} THEN cost[i] ELSE 0]
  <2>1. \A i \in Item : cost[i] \in Nat /\ cap[i] \in Nat
    BY <1>1, Known, BatchAssumption DEF BatchTypeOK
  <2>2. \A i \in Item : taken[i] \in Int /\ cap[i] \in Int /\ taken[i] <= cap[i]
    BY <1>1, <2>1 DEF BatchBooks, ItemBooks
  <2>3. IsFiniteSet(Item)
    BY ItemsFinite
  <2>4. OwnHoldsInBudget <=> SumOf(taken, Item) <= TotalBudget
    BY DEF OwnHoldsInBudget, Total, SumOf
  <2>5. CASE \E i \in Item : escrow[i] # "none"
    <3>1. Total(cap) <= TotalBudget
      BY <1>1, <2>5 DEF BatchBooks, ItemBooks
    <3>2. SumOf(cap, Item) <= TotalBudget
      BY <3>1 DEF Total, SumOf
    <3> HIDE DEF taken
    <3>3. SumOf(taken, Item) <= SumOf(cap, Item)
      BY <2>2, <2>3, SumAtMost
    <3>4. SumOf(taken, Item) \in Int /\ SumOf(cap, Item) \in Int /\ TotalBudget \in Int
      <4>1. (\A i \in Item : taken[i] \in Int) /\ (\A i \in Item : cap[i] \in Int)
        BY <2>2
      <4>2. SumOf(taken, Item) \in Int
        BY <2>3, <4>1, SumInt
      <4>3. SumOf(cap, Item) \in Int
        BY <2>3, <4>1, SumInt
      <4> QED
        BY <4>2, <4>3, Numbers
    <3> QED
      BY <2>4, <3>2, <3>3, <3>4
  <2>6. CASE \A i \in Item : escrow[i] = "none"
    <3>1. \A i \in Item : taken[i] = 0
      BY <2>6
    <3> HIDE DEF taken
    <3>2. SumOf(taken, Item) = 0
      BY <2>3, <3>1, SumZero
    <3> QED
      BY <2>4, <3>2, Numbers
  <2> QED
    BY <2>5, <2>6
<1> QED
  BY <1>1, BatchStrongHolds, BooksHold, PTL

\* What a batch reports as spent was settled, what it reports as refunded was
\* released, and without a fault the reported total is the settled total
\* (execute.ts:700-707, :728-735, :754).
THEOREM BatchReportsTrue == BatchSpec => []ReportsWhatItPaid
<1>1. ASSUME BatchStrong, BatchBooks PROVE ReportsWhatItPaid
  <2> DEFINE paid == [i \in Item |-> IF escrow[i] = "settled" THEN cost[i] ELSE 0]
  <2>1. \A i \in Item : spent[i] \in Nat
    BY <1>1 DEF BatchStrong, BatchTypeOK
  <2>2. \A i \in Item : ItemBooks(i)
    BY <1>1 DEF BatchBooks
  <2>3. ASSUME faults = 0 PROVE Total(spent) = Paid(escrow)
    <3>1. \A i \in Item : spent[i] = paid[i]
      BY <2>1, <2>2, <2>3 DEF ItemBooks
    <3>2. Total(spent) = SumOf(spent, Item) /\ Paid(escrow) = SumOf(paid, Item)
      BY DEF Total, Paid, SumOf
    <3> HIDE DEF paid
    <3>3. SumOf(spent, Item) = SumOf(paid, Item)
      BY <3>1, ItemsFinite, SumEqual
    <3> QED
      BY <3>2, <3>3
  <2> QED
    BY <2>2, <2>3 DEF ReportsWhatItPaid, ItemBooks
<1> QED
  BY <1>1, BatchStrongHolds, BooksHold, PTL

-----------------------------------------------------------------------------
\* What an item has ahead of it is a number, and so is their sum.
LEMMA AheadIsNat ==
    ASSUME BatchTypeOK
    PROVE  /\ \A i \in Item : Ahead[i] \in Nat /\ ItemSteps[step[i]] \in 0 .. 6
           /\ SumOf(Ahead, Item) \in Nat
<1>1. ASSUME NEW i \in Item PROVE Ahead[i] \in Nat /\ ItemSteps[step[i]] \in 0 .. 6
  <2>1. step[i] \in Waits \cup {"waiting", "done"}
    BY DEF BatchTypeOK
  <2>2. ItemSteps[step[i]] \in 0 .. 6
    BY <2>1 DEF ItemSteps, Waits
  <2>3. Ahead[i] = 2 * ItemSteps[step[i]] + IF hubEscrow[i] = "held" THEN 1 ELSE 0
    BY DEF Ahead
  <2> QED
    BY <2>2, <2>3
<1>2. \A i \in Item : Ahead[i] \in Int /\ Ahead[i] >= 0
  BY <1>1
<1>3. SumOf(Ahead, Item) \in Nat
  BY <1>2, ItemsFinite, SumNat
<1> QED
  BY <1>1, <1>3

\* A step that moves items on, or spends a fault, and sets no item back.
LEMMA ItemsCount ==
    ASSUME BatchTypeOK, BatchTypeOK',
           \A i \in Item : Ahead'[i] \in Nat /\ Ahead'[i] <= Ahead[i],
           BatchSteps[batch'] <= BatchSteps[batch], faults <= faults',
           \/ \E i \in Item : Ahead'[i] < Ahead[i]
           \/ BatchSteps[batch'] < BatchSteps[batch]
           \/ faults < faults'
    PROVE  Left' < Left
<1>1. (\A i \in Item : Ahead[i] \in Nat) /\ SumOf(Ahead, Item) \in Nat
  BY AheadIsNat
<1>2. SumOf(Ahead', Item) \in Nat /\ SumOf(Ahead', Item) <= SumOf(Ahead, Item)
  <2>1. \A i \in Item : Ahead'[i] \in Int /\ Ahead'[i] >= 0
    OBVIOUS
  <2>2. \A i \in Item : Ahead'[i] \in Int /\ Ahead[i] \in Int /\ Ahead'[i] <= Ahead[i]
    BY <1>1
  <2>3. SumOf(Ahead', Item) \in Nat
    BY <2>1, ItemsFinite, SumNat
  <2>4. SumOf(Ahead', Item) <= SumOf(Ahead, Item)
    BY <2>2, ItemsFinite, SumAtMost
  <2> QED
    BY <2>3, <2>4
<1>3. ASSUME NEW i \in Item, Ahead'[i] < Ahead[i]
      PROVE  SumOf(Ahead', Item) < SumOf(Ahead, Item)
  <2>1. \A j \in Item : Ahead'[j] \in Int /\ Ahead[j] \in Int /\ Ahead'[j] <= Ahead[j]
    BY <1>1
  <2> QED
    BY <1>3, <2>1, ItemsFinite, SumLess
<1>4. /\ Left = SumOf(Ahead, Item) + BatchSteps[batch] + (MaxFaults - faults)
      /\ Left' = SumOf(Ahead', Item) + BatchSteps[batch'] + (MaxFaults - faults')
  <2>1. Total(Ahead) = SumOf(Ahead, Item)
    BY DEF Total, SumOf
  <2>2. Total(Ahead)' = SumOf(Ahead, Item)'
    BY DEF Total, SumOf
  <2>3. SumOf(Ahead, Item)' = SumOf(Ahead', Item)
    OBVIOUS
  <2> QED
    BY <2>1, <2>2, <2>3 DEF Left
<1>5. /\ BatchSteps[batch] \in Nat /\ BatchSteps[batch'] \in Nat
      /\ faults \in Int /\ faults' \in Int /\ MaxFaults \in Int
  BY Numbers DEF BatchSteps, BatchTypeOK
<1>6. \A a, b, m, n, f, g, k \in Int :
         b <= a /\ n <= m /\ f <= g /\ (b < a \/ n < m \/ f < g)
            => b + n + (k - g) < a + m + (k - f)
  OBVIOUS
<1> QED
  BY <1>1, <1>2, <1>3, <1>4, <1>5, <1>6

\* A step of one item: it moves on, or gives up the relay's hold, or a fault
\* happens to it.
LEMMA OneItemCounts ==
    ASSUME BatchTypeOK, BatchTypeOK', NEW i \in Item,
           \A j \in Item \ {i} : step'[j] = step[j] /\ hubEscrow'[j] = hubEscrow[j],
           batch' = batch \/ batch' = "thrown",
           faults <= faults',
           \/ ItemSteps[step'[i]] < ItemSteps[step[i]]
           \/ step'[i] = step[i] /\ hubEscrow[i] = "held" /\ hubEscrow'[i] # "held"
           \/ step'[i] = step[i] /\ hubEscrow'[i] = hubEscrow[i] /\ faults < faults'
    PROVE  Left' < Left
<1>1. \A j \in Item : /\ Ahead[j] \in Nat /\ ItemSteps[step[j]] \in 0 .. 6
                      /\ Ahead[j] = 2 * ItemSteps[step[j]]
                                       + IF hubEscrow[j] = "held" THEN 1 ELSE 0
  BY AheadIsNat DEF Ahead
<1>2. \A j \in Item : /\ Ahead'[j] = 2 * ItemSteps[step'[j]]
                                       + IF hubEscrow'[j] = "held" THEN 1 ELSE 0
  BY DEF Ahead
<1>3. step'[i] \in Waits \cup {"waiting", "done"}
  BY DEF BatchTypeOK
<1>4. ItemSteps[step'[i]] \in 0 .. 6
  BY <1>3 DEF ItemSteps, Waits
<1>5. \A j \in Item \ {i} : Ahead'[j] = Ahead[j]
  BY <1>1, <1>2
<1>6. /\ Ahead'[i] \in Nat /\ Ahead'[i] <= Ahead[i]
      /\ Ahead'[i] < Ahead[i] \/ faults < faults'
  BY <1>1, <1>2, <1>4
<1>7. BatchSteps[batch'] <= BatchSteps[batch]
  BY DEF BatchSteps, BatchTypeOK
<1> QED
  BY <1>1, <1>5, <1>6, <1>7, ItemsCount

\* The end of an item moves it on, and nothing else but faults.
LEMMA EndCounts ==
    ASSUME BatchTypeOK, NEW i \in Item, Success(i) \/ Failure(i), step[i] \in Waits
    PROVE  /\ \A j \in Item \ {i} : step'[j] = step[j]
           /\ ItemSteps[step'[i]] < ItemSteps[step[i]]
           /\ batch' = batch \/ batch' = "thrown"
           /\ faults <= faults'
<1>1. step' = [step EXCEPT ![i] = "done"]
  BY DEF Success, Failure, Reject, Result
<1>2. (\A j \in Item \ {i} : step'[j] = step[j]) /\ step'[i] = "done"
  BY <1>1 DEF BatchTypeOK
<1>3. ItemSteps[step'[i]] < ItemSteps[step[i]]
  BY <1>2 DEF ItemSteps, Waits
<1>4. faults \in Int
  BY Numbers DEF BatchTypeOK
<1>5. faults <= faults'
  BY <1>4 DEF Success, Failure, Reject
<1>6. batch' = batch \/ batch' = "thrown"
  BY DEF Success, Failure, Reject
<1> QED
  BY <1>2, <1>3, <1>5, <1>6

\* The steps of an item that are not its end.
LEMMA OnwardCounts ==
    ASSUME BatchTypeOK, NEW i \in Item,
           \/ Begin(i) \/ Skip(i) \/ Decline(i) \/ Hold(i) \/ Imported(i) \/ Connected(i)
    PROVE  /\ \A j \in Item \ {i} : step'[j] = step[j] /\ hubEscrow'[j] = hubEscrow[j]
           /\ ItemSteps[step'[i]] < ItemSteps[step[i]]
           /\ batch' = batch /\ faults' = faults
<1>1. /\ \E to \in Waits \cup {"done"} : step' = [step EXCEPT ![i] = to]
      /\ \/ step[i] = "waiting" /\ step'[i] \in {"resolving", "done"}
         \/ step[i] = "resolving" /\ step'[i] \in {"done", "dispatching", "importing", "sending"}
         \/ step[i] = "importing" /\ step'[i] = "connecting"
         \/ step[i] = "connecting" /\ step'[i] = "sending"
      /\ hubEscrow' = hubEscrow /\ batch' = batch /\ faults' = faults
  BY DEF BatchTypeOK, Begin, Skip, Decline, Result, Hold, Imported, Connected, Waits
<1>2. \A j \in Item \ {i} : step'[j] = step[j]
  BY <1>1 DEF BatchTypeOK
<1>3. ItemSteps[step'[i]] < ItemSteps[step[i]]
  BY <1>1 DEF ItemSteps
<1> QED
  BY <1>1, <1>2, <1>3

\* A batch takes finitely many steps, however many items it has, in whatever
\* order they take them and whatever fails, and so do the requests it leaves
\* with the relay (execute.ts:555-677, :697-735).
THEOREM EveryBatchIsFinite == BatchSpec => EveryStepCounts
<1>1. ASSUME BatchStrong, BatchNext PROVE Left' < Left
  <2>0. BatchTypeOK /\ BatchTypeOK'
    BY <1>1, StepKeeps DEF BatchStrong
  <2>1. CASE Submit
    <3>1. \A i \in Item : Ahead'[i] \in Nat /\ Ahead'[i] <= Ahead[i]
      <4>1. CASE UNCHANGED step
        BY <2>0, <2>1, <4>1, AheadIsNat DEF Submit, Ahead
      <4>2. CASE step' = [i \in Item |-> "done"]
        <5> SUFFICES ASSUME NEW i \in Item PROVE Ahead'[i] \in Nat /\ Ahead'[i] <= Ahead[i]
          OBVIOUS
        <5>1. /\ Ahead'[i] = 2 * ItemSteps[step'[i]] + IF hubEscrow'[i] = "held" THEN 1 ELSE 0
              /\ Ahead[i] = 2 * ItemSteps[step[i]] + IF hubEscrow[i] = "held" THEN 1 ELSE 0
          BY DEF Ahead
        <5>2. ItemSteps[step'[i]] = 0 /\ hubEscrow' = hubEscrow
          BY <2>1, <4>2 DEF ItemSteps, Submit
        <5>3. ItemSteps[step[i]] \in 0 .. 6
          BY <2>0, AheadIsNat
        <5> QED
          BY <5>1, <5>2, <5>3
      <4> QED
        BY <2>1, <4>1, <4>2 DEF Submit
    <3>2. batch = "none" /\ batch' \in {"running", "returned"} /\ faults' = faults
      BY <2>1 DEF Submit
    <3>3. BatchSteps[batch'] < BatchSteps[batch] /\ BatchSteps[batch'] <= BatchSteps[batch]
      BY <3>2 DEF BatchSteps
    <3>4. faults <= faults'
      BY <2>0, <3>2, Numbers DEF BatchTypeOK
    <3> QED
      BY <2>0, <3>1, <3>3, <3>4, ItemsCount
  <2>2. CASE Return
    <3>1. \A i \in Item : Ahead'[i] \in Nat /\ Ahead'[i] <= Ahead[i]
      BY <2>0, <2>2, AheadIsNat DEF Return, itemVars, Ahead
    <3>2. BatchSteps[batch'] < BatchSteps[batch] /\ BatchSteps[batch'] <= BatchSteps[batch]
      BY <2>2 DEF BatchSteps, Return
    <3>3. faults <= faults'
      BY <2>0, <2>2, Numbers DEF BatchTypeOK, Return
    <3> QED
      BY <2>0, <3>1, <3>2, <3>3, ItemsCount
  <2>3. ASSUME NEW i \in Item, ItemStep(i) PROVE Left' < Left
    <3>1. faults \in Int
      BY <2>0, Numbers DEF BatchTypeOK
    <3>2. CASE \/ Begin(i) \/ Skip(i) \/ Decline(i) \/ Hold(i) \/ Imported(i) \/ Connected(i)
      BY <2>0, <3>1, <3>2, OnwardCounts, OneItemCounts
    <3>3. CASE Dispatched(i) \/ SendFails(i) \/ TimedOut(i) \/ Answered(i)
      <4>1. step[i] \in Waits /\ (Success(i) \/ Failure(i))
        BY <3>3 DEF Dispatched, SendFails, TimedOut, Answered, Waits
      <4>2. \A j \in Item \ {i} : hubEscrow'[j] = hubEscrow[j]
        BY <2>0, <3>3 DEF BatchTypeOK, Dispatched, SendFails, TimedOut, Answered
      <4> QED
        BY <2>0, <4>1, <4>2, EndCounts, OneItemCounts
    <3>4. CASE Send(i)
      <4>1. CASE balance < cost[i]
        <5>1. step[i] \in Waits /\ Failure(i) /\ hubEscrow' = hubEscrow
          BY <3>4, <4>1 DEF Send, Waits
        <5> QED
          BY <2>0, <5>1, EndCounts, OneItemCounts
      <4>2. CASE ~(balance < cost[i])
        <5>1. /\ step[i] = "sending" /\ step' = [step EXCEPT ![i] = "remote"]
              /\ hubEscrow' = [hubEscrow EXCEPT ![i] = "held"]
              /\ batch' = batch /\ faults' = faults
          BY <3>4, <4>2 DEF Send
        <5>2. \A j \in Item \ {i} : step'[j] = step[j] /\ hubEscrow'[j] = hubEscrow[j]
          BY <2>0, <5>1 DEF BatchTypeOK
        <5>3. ItemSteps[step'[i]] < ItemSteps[step[i]]
          BY <2>0, <5>1 DEF BatchTypeOK, ItemSteps
        <5> QED
          BY <2>0, <3>1, <5>1, <5>2, <5>3, OneItemCounts
      <4> QED
        BY <4>1, <4>2
    <3> QED
      BY <2>3, <3>2, <3>3, <3>4 DEF ItemStep
  <2>4. ASSUME NEW i \in Item, HubEnds(i) PROVE Left' < Left
    <3>1. /\ hubEscrow[i] = "held" /\ step' = step
          /\ \E paid \in {"settled", "released"} : hubEscrow' = [hubEscrow EXCEPT ![i] = paid]
          /\ batch' = batch /\ faults' = faults
      BY <2>4 DEF HubEnds
    <3>2. /\ \A j \in Item \ {i} : step'[j] = step[j] /\ hubEscrow'[j] = hubEscrow[j]
          /\ step'[i] = step[i] /\ hubEscrow'[i] # "held"
      BY <2>0, <3>1 DEF BatchTypeOK
    <3>3. faults <= faults'
      BY <2>0, <3>1, Numbers DEF BatchTypeOK
    <3> QED
      BY <2>0, <3>1, <3>2, <3>3, OneItemCounts
  <2>5. ASSUME NEW i \in Item, Recover(i) PROVE Left' < Left
    <3>1. /\ step' = step /\ hubEscrow' = hubEscrow /\ batch' = batch
          /\ faults' = faults + 1
      BY <2>5 DEF Recover
    <3>2. faults <= faults' /\ faults < faults'
      BY <2>0, <3>1, Numbers DEF BatchTypeOK
    <3> QED
      BY <2>0, <3>1, <3>2, OneItemCounts
  <2> QED
    BY <1>1, <2>1, <2>2, <2>3, <2>4, <2>5 DEF BatchNext
<1>2. BatchStrong /\ [BatchNext]_batchVars => [Left' < Left]_batchVars
  BY <1>1
<1> QED
  BY <1>2, BatchStrongHolds, PTL DEF BatchSpec, EveryStepCounts

=============================================================================
