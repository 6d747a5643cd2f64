---------------------------- MODULE SpendingProofs ----------------------------
(***************************************************************************)
(* Theorems about the two components that spend against a budget of their  *)
(* own: the consumer's autonomous calls (Autonomy) and the conductor's run *)
(* (Pipeline), for any number of calls and sub-tasks, any prices and any   *)
(* settings.  The modules share no state; the two halves of this one share *)
(* the theorems about sums.                                                *)
(*                                                                         *)
(* Calls.  CallOK says what is known of one call, and every action moves   *)
(* one call (CallStep).  The reserve needs to know what a request on its   *)
(* way to the relay may still rely on: the balance covers it and the       *)
(* reserve until another payment overtakes it (FloorStrong).  A step moves *)
(* at most one term of the session's spend (SpendStrong).                  *)
(*                                                                         *)
(* Run.  The rounds of Kahn's algorithm are a recursive function, so that  *)
(* its unfolding is proved first (KahnUnfolds), then that it processes all *)
(* tasks exactly when the graph has no cycle (KahnIsExact).  TaskOK says   *)
(* what is known of one sub-task; the total is the sum over the answered.  *)
(***************************************************************************)
EXTENDS Autonomy, Pipeline, SumTheorems, TLAPS

-----------------------------------------------------------------------------
(* Calls: the invariants                                                   *)

Floor == IF InitialBalance < Reserve THEN InitialBalance ELSE Reserve
Ceiling == IF Tier1 < Tier2 THEN Tier2 ELSE Tier1

\* Where a call is, and what that says of its escrows and its rows.
CallOK(c) ==
    /\ escrow[c] # "none" => /\ phase[c] \in {"calling", "ended"}
                             /\ relay[c] = "none" /\ mode[c] = "query" /\ cost[c] < Ceiling
    /\ escrow[c] = "held" => phase[c] = "calling"
    /\ phase[c] = "calling" => mode[c] = "query"
    /\ phase[c] # "ended" => outcome[c] = "none" /\ pending[c] = "none"
    /\ phase[c] \in {"relaying", "calling"} /\ mode[c] = "query" => cost[c] < Ceiling
    /\ phase[c] \in {"searching", "resolving"} => mode[c] = "query"
    /\ phase[c] = "fetching" => mode[c] = "direct"
    /\ phase[c] = "relaying" /\ relay[c] = "none" => cost[c] = 0
    /\ relay[c] # "none" => phase[c] \in {"relaying", "ended"} /\ pending[c] = "none"
    /\ relay[c] # "none" /\ mode[c] = "query" => cost[c] < Ceiling
    /\ mode[c] = "query" =>
          /\ outcome[c] = "success" => "auto" \in rows[c] \/ "notify" \in rows[c]
          /\ outcome[c] = "tier_blocked" => "pending" \in rows[c] /\ pending[c] # "none"
          /\ outcome[c] \in {"no_peer", "budget_blocked", "failed"} => "failed" \in rows[c]
    /\ pending[c] # "none" => escrow[c] = "none"

\* The inductive invariant.
AutonomyStrong ==
    /\ AutonomyTypeOK
    /\ \A c \in Call : CallOK(c)

\* A step of one call.
CallStep(c) ==
    /\ \A d \in Call \ {c} :
          /\ phase'[d] = phase[d] /\ mode'[d] = mode[d] /\ cost'[d] = cost[d]
          /\ escrow'[d] = escrow[d] /\ relay'[d] = relay[d] /\ rows'[d] = rows[d]
          /\ outcome'[d] = outcome[d] /\ pending'[d] = pending[d]
    /\ CallOK(c)'

-----------------------------------------------------------------------------
\* The settings are numbers, and so are the floor and the ceiling.
LEMMA Numbers ==
    /\ Floor \in Nat /\ Ceiling \in Nat /\ Reserve \in Nat /\ Floor <= Reserve
    /\ Tier1 \in Nat /\ Tier2 \in Nat /\ Tier1 <= Ceiling /\ Tier2 <= Ceiling
    /\ MaxFaults \in Nat /\ Floor <= InitialBalance /\ InitialBalance \in Nat
    /\ Cost \subseteq Nat
BY AutonomyAssumption DEF Floor, Ceiling

\* What the invariant says of one call.
LEMMA Known ==
    ASSUME AutonomyStrong, NEW c \in Call
    PROVE  /\ AutonomyTypeOK /\ CallOK(c) /\ balance \in Nat
           /\ cost[c] \in Nat
<1>1. cost[c] \in Cost \cup {0}
  BY DEF AutonomyStrong, AutonomyTypeOK
<1>2. \A p \in Cost : p \in Nat
  BY AutonomyAssumption
<1>3. balance \in Nat
  BY DEF AutonomyStrong, AutonomyTypeOK
<1>4. cost[c] \in Nat
  BY <1>1, <1>2
<1> QED
  BY <1>3, <1>4 DEF AutonomyStrong

\* A price below the third tier is below the ceiling, and the balance covers
\* what may be spent.
LEMMA Gates ==
    ASSUME AutonomyStrong, NEW p \in Cost, GetAutonomyTier(p) < 3
    PROVE  p < Ceiling /\ (CanSpend(p) => balance - p \in Nat)
<1>1. p \in Nat /\ balance \in Nat
  BY Numbers DEF AutonomyStrong, AutonomyTypeOK
<1>2. p < Ceiling
  BY <1>1, Numbers DEF GetAutonomyTier
<1>3. CanSpend(p) => balance - p \in Nat
  BY <1>1, Numbers DEF CanSpend
<1> QED
  BY <1>2, <1>3

\* A step of one call keeps what is known of all.
LEMMA CallStepKeeps ==
    ASSUME AutonomyStrong, AutonomyTypeOK', NEW c \in Call, CallStep(c)
    PROVE  AutonomyStrong'
<1>1. ASSUME NEW d \in Call, d # c PROVE CallOK(d)'
  BY <1>1 DEF AutonomyStrong, CallStep, CallOK
<1> QED
  BY <1>1 DEF AutonomyStrong, CallStep

-----------------------------------------------------------------------------
\* A query enters, or is refused by the session's budget.
LEMMA QueryKeeps ==
    ASSUME AutonomyStrong, NEW c \in Call, NEW m \in MaxCost, Query(c, m)
    PROVE  AutonomyStrong'
<1>0. /\ AutonomyTypeOK /\ CallOK(c) /\ balance \in Nat
      /\ cost[c] \in Nat
  BY Known
<1> USE Numbers DEF Query, Becomes, End, Logs
<1>1. AutonomyTypeOK'
  <2>1. /\ phase' \in [Call -> Waiting \cup {"none", "ended"}]
        /\ mode' \in [Call -> {"query", "direct"}]
        /\ max' \in [Call -> MaxCost \cup {0}] /\ cost' \in [Call -> Cost \cup {0}]
    BY <1>0 DEF AutonomyTypeOK, Waiting
  <2>2. /\ escrow' \in [Call -> {"none", "held", "settled", "released"}]
        /\ relay' \in [Call -> {"none", "asked", "held", "settled", "released"}]
        /\ outcome' \in [Call -> Outcome]
        /\ pending' \in [Call -> {"none", "pending", "approved", "rejected"}]
    BY <1>0 DEF AutonomyTypeOK, Outcome
  <2>3. rows' \in [Call -> SUBSET {"auto", "notify", "pending", "failed"}]
    BY <1>0 DEF AutonomyTypeOK, SuccessRow
  <2>4. /\ session' \in [totalSpent : Nat, paidCallCount : Nat] /\ overlapped' \subseteq Call
        /\ stale' \subseteq Call
    BY <1>0 DEF AutonomyTypeOK, Spent, PassesBudget, UnderWay
  <2>5. balance' \in Nat /\ faults' \in 0 .. MaxFaults
    BY <1>0 DEF AutonomyTypeOK, WriteFails
  <2>6. scored' \in [Call -> BOOLEAN]
    BY <1>0 DEF AutonomyTypeOK
  <2> QED
    BY <2>1, <2>2, <2>3, <2>4, <2>5, <2>6 DEF AutonomyTypeOK
<1>2. /\ \A d \in Call \ {c} :
            /\ phase'[d] = phase[d] /\ mode'[d] = mode[d] /\ cost'[d] = cost[d]
            /\ escrow'[d] = escrow[d] /\ relay'[d] = relay[d] /\ rows'[d] = rows[d]
            /\ outcome'[d] = outcome[d] /\ pending'[d] = pending[d]
  BY <1>0 DEF AutonomyTypeOK
<1>3. CallOK(c)'
  BY <1>0 DEF AutonomyTypeOK, CallOK, SuccessRow
<1> QED
  BY <1>1, <1>2, <1>3, CallStepKeeps DEF CallStep

\* A direct call enters.
LEMMA DirectKeeps ==
    ASSUME AutonomyStrong, NEW c \in Call, Direct(c)
    PROVE  AutonomyStrong'
<1>0. /\ AutonomyTypeOK /\ CallOK(c) /\ balance \in Nat
      /\ cost[c] \in Nat
  BY Known
<1> USE Numbers DEF Direct, Becomes, End, Logs
<1>1. AutonomyTypeOK'
  <2>1. /\ phase' \in [Call -> Waiting \cup {"none", "ended"}]
        /\ mode' \in [Call -> {"query", "direct"}]
        /\ max' \in [Call -> MaxCost \cup {0}] /\ cost' \in [Call -> Cost \cup {0}]
    BY <1>0 DEF AutonomyTypeOK, Waiting
  <2>2. /\ escrow' \in [Call -> {"none", "held", "settled", "released"}]
        /\ relay' \in [Call -> {"none", "asked", "held", "settled", "released"}]
        /\ outcome' \in [Call -> Outcome]
        /\ pending' \in [Call -> {"none", "pending", "approved", "rejected"}]
    BY <1>0 DEF AutonomyTypeOK, Outcome
  <2>3. rows' \in [Call -> SUBSET {"auto", "notify", "pending", "failed"}]
    BY <1>0 DEF AutonomyTypeOK, SuccessRow
  <2>4. /\ session' \in [totalSpent : Nat, paidCallCount : Nat] /\ overlapped' \subseteq Call
        /\ stale' \subseteq Call
    BY <1>0 DEF AutonomyTypeOK, Spent, PassesBudget, UnderWay
  <2>5. balance' \in Nat /\ faults' \in 0 .. MaxFaults
    BY <1>0 DEF AutonomyTypeOK, WriteFails
  <2>6. scored' \in [Call -> BOOLEAN]
    BY <1>0 DEF AutonomyTypeOK
  <2> QED
    BY <2>1, <2>2, <2>3, <2>4, <2>5, <2>6 DEF AutonomyTypeOK
<1>2. /\ \A d \in Call \ {c} :
            /\ phase'[d] = phase[d] /\ mode'[d] = mode[d] /\ cost'[d] = cost[d]
            /\ escrow'[d] = escrow[d] /\ relay'[d] = relay[d] /\ rows'[d] = rows[d]
            /\ outcome'[d] = outcome[d] /\ pending'[d] = pending[d]
  BY <1>0 DEF AutonomyTypeOK
<1>3. CallOK(c)'
  BY <1>0 DEF AutonomyTypeOK, CallOK, SuccessRow
<1> QED
  BY <1>1, <1>2, <1>3, CallStepKeeps DEF CallStep

\* The card of a direct call is read.
LEMMA FetchKeeps ==
    ASSUME AutonomyStrong, NEW c \in Call, Fetch(c)
    PROVE  AutonomyStrong'
<1>0. /\ AutonomyTypeOK /\ CallOK(c) /\ balance \in Nat
      /\ cost[c] \in Nat
  BY Known
<1> USE Numbers DEF Fetch, Asks, Becomes, End, Logs
<1>1. AutonomyTypeOK'
  <2>1. /\ phase' \in [Call -> Waiting \cup {"none", "ended"}]
        /\ mode' \in [Call -> {"query", "direct"}]
        /\ max' \in [Call -> MaxCost \cup {0}] /\ cost' \in [Call -> Cost \cup {0}]
    BY <1>0 DEF AutonomyTypeOK, Waiting
  <2>2. /\ escrow' \in [Call -> {"none", "held", "settled", "released"}]
        /\ relay' \in [Call -> {"none", "asked", "held", "settled", "released"}]
        /\ outcome' \in [Call -> Outcome]
        /\ pending' \in [Call -> {"none", "pending", "approved", "rejected"}]
    BY <1>0 DEF AutonomyTypeOK, Outcome
  <2>3. rows' \in [Call -> SUBSET {"auto", "notify", "pending", "failed"}]
    BY <1>0 DEF AutonomyTypeOK, SuccessRow
  <2>4. /\ session' \in [totalSpent : Nat, paidCallCount : Nat] /\ overlapped' \subseteq Call
        /\ stale' \subseteq Call
    BY <1>0 DEF AutonomyTypeOK, Spent, PassesBudget, UnderWay
  <2>5. balance' \in Nat /\ faults' \in 0 .. MaxFaults
    BY <1>0 DEF AutonomyTypeOK, WriteFails
  <2>6. scored' \in [Call -> BOOLEAN]
    BY <1>0 DEF AutonomyTypeOK
  <2> QED
    BY <2>1, <2>2, <2>3, <2>4, <2>5, <2>6 DEF AutonomyTypeOK
<1>2. /\ \A d \in Call \ {c} :
            /\ phase'[d] = phase[d] /\ mode'[d] = mode[d] /\ cost'[d] = cost[d]
            /\ escrow'[d] = escrow[d] /\ relay'[d] = relay[d] /\ rows'[d] = rows[d]
            /\ outcome'[d] = outcome[d] /\ pending'[d] = pending[d]
  BY <1>0 DEF AutonomyTypeOK
<1>3. CallOK(c)'
  BY <1>0 DEF AutonomyTypeOK, CallOK, SuccessRow
<1> QED
  BY <1>1, <1>2, <1>3, CallStepKeeps DEF CallStep

\* The search ends.
LEMMA SearchKeeps ==
    ASSUME AutonomyStrong, NEW c \in Call, Search(c)
    PROVE  AutonomyStrong'
<1>0. /\ AutonomyTypeOK /\ CallOK(c) /\ balance \in Nat
      /\ cost[c] \in Nat
  BY Known
<1> USE Numbers DEF Search, Becomes, End, Logs
<1>1. AutonomyTypeOK'
  <2>1. /\ phase' \in [Call -> Waiting \cup {"none", "ended"}]
        /\ mode' \in [Call -> {"query", "direct"}]
        /\ max' \in [Call -> MaxCost \cup {0}] /\ cost' \in [Call -> Cost \cup {0}]
    BY <1>0 DEF AutonomyTypeOK, Waiting
  <2>2. /\ escrow' \in [Call -> {"none", "held", "settled", "released"}]
        /\ relay' \in [Call -> {"none", "asked", "held", "settled", "released"}]
        /\ outcome' \in [Call -> Outcome]
        /\ pending' \in [Call -> {"none", "pending", "approved", "rejected"}]
    BY <1>0 DEF AutonomyTypeOK, Outcome
  <2>3. rows' \in [Call -> SUBSET {"auto", "notify", "pending", "failed"}]
    BY <1>0 DEF AutonomyTypeOK, SuccessRow
  <2>4. /\ session' \in [totalSpent : Nat, paidCallCount : Nat] /\ overlapped' \subseteq Call
        /\ stale' \subseteq Call
    BY <1>0 DEF AutonomyTypeOK, Spent, PassesBudget, UnderWay
  <2>5. balance' \in Nat /\ faults' \in 0 .. MaxFaults
    BY <1>0 DEF AutonomyTypeOK, WriteFails
  <2>6. scored' \in [Call -> BOOLEAN]
    BY <1>0 DEF AutonomyTypeOK
  <2> QED
    BY <2>1, <2>2, <2>3, <2>4, <2>5, <2>6 DEF AutonomyTypeOK
<1>2. /\ \A d \in Call \ {c} :
            /\ phase'[d] = phase[d] /\ mode'[d] = mode[d] /\ cost'[d] = cost[d]
            /\ escrow'[d] = escrow[d] /\ relay'[d] = relay[d] /\ rows'[d] = rows[d]
            /\ outcome'[d] = outcome[d] /\ pending'[d] = pending[d]
  BY <1>0 DEF AutonomyTypeOK
<1>3. CallOK(c)'
  BY <1>0 DEF AutonomyTypeOK, CallOK, SuccessRow
<1> QED
  BY <1>1, <1>2, <1>3, CallStepKeeps DEF CallStep

\* Nobody is found.
LEMMA NoPeerKeeps ==
    ASSUME AutonomyStrong, NEW c \in Call, NoPeer(c)
    PROVE  AutonomyStrong'
<1>0. /\ AutonomyTypeOK /\ CallOK(c) /\ balance \in Nat
      /\ cost[c] \in Nat
  BY Known
<1> USE Numbers DEF NoPeer, FailsEarly, Becomes, End, Logs
<1>1. AutonomyTypeOK'
  <2>1. /\ phase' \in [Call -> Waiting \cup {"none", "ended"}]
        /\ mode' \in [Call -> {"query", "direct"}]
        /\ max' \in [Call -> MaxCost \cup {0}] /\ cost' \in [Call -> Cost \cup {0}]
    BY <1>0 DEF AutonomyTypeOK, Waiting
  <2>2. /\ escrow' \in [Call -> {"none", "held", "settled", "released"}]
        /\ relay' \in [Call -> {"none", "asked", "held", "settled", "released"}]
        /\ outcome' \in [Call -> Outcome]
        /\ pending' \in [Call -> {"none", "pending", "approved", "rejected"}]
    BY <1>0 DEF AutonomyTypeOK, Outcome
  <2>3. rows' \in [Call -> SUBSET {"auto", "notify", "pending", "failed"}]
    BY <1>0 DEF AutonomyTypeOK, SuccessRow
  <2>4. /\ session' \in [totalSpent : Nat, paidCallCount : Nat] /\ overlapped' \subseteq Call
        /\ stale' \subseteq Call
    BY <1>0 DEF AutonomyTypeOK, Spent, PassesBudget, UnderWay
  <2>5. balance' \in Nat /\ faults' \in 0 .. MaxFaults
    BY <1>0 DEF AutonomyTypeOK, WriteFails
  <2>6. scored' \in [Call -> BOOLEAN]
    BY <1>0 DEF AutonomyTypeOK
  <2> QED
    BY <2>1, <2>2, <2>3, <2>4, <2>5, <2>6 DEF AutonomyTypeOK
<1>2. /\ \A d \in Call \ {c} :
            /\ phase'[d] = phase[d] /\ mode'[d] = mode[d] /\ cost'[d] = cost[d]
            /\ escrow'[d] = escrow[d] /\ relay'[d] = relay[d] /\ rows'[d] = rows[d]
            /\ outcome'[d] = outcome[d] /\ pending'[d] = pending[d]
  BY <1>0 DEF AutonomyTypeOK
<1>3. CallOK(c)'
  BY <1>0 DEF AutonomyTypeOK, CallOK, SuccessRow
<1> QED
  BY <1>1, <1>2, <1>3, CallStepKeeps DEF CallStep

\* A target that needs approval is not paid.
LEMMA TierThreeKeeps ==
    ASSUME AutonomyStrong, NEW c \in Call, NEW p \in Cost,
           phase[c] = "resolving", cost' = [cost EXCEPT ![c] = p],
           UNCHANGED <<mode, max, scored, session, overlapped, faults>>,
           TierThree(c, p)
    PROVE  AutonomyStrong'
<1>0. /\ AutonomyTypeOK /\ CallOK(c) /\ balance \in Nat
      /\ cost[c] \in Nat
  BY Known
<1> USE Numbers DEF TierThree, Becomes, End, Logs
<1>1. AutonomyTypeOK'
  <2>1. /\ phase' \in [Call -> Waiting \cup {"none", "ended"}]
        /\ mode' \in [Call -> {"query", "direct"}]
        /\ max' \in [Call -> MaxCost \cup {0}] /\ cost' \in [Call -> Cost \cup {0}]
    BY <1>0 DEF AutonomyTypeOK, Waiting
  <2>2. /\ escrow' \in [Call -> {"none", "held", "settled", "released"}]
        /\ relay' \in [Call -> {"none", "asked", "held", "settled", "released"}]
        /\ outcome' \in [Call -> Outcome]
        /\ pending' \in [Call -> {"none", "pending", "approved", "rejected"}]
    BY <1>0 DEF AutonomyTypeOK, Outcome
  <2>3. rows' \in [Call -> SUBSET {"auto", "notify", "pending", "failed"}]
    BY <1>0 DEF AutonomyTypeOK, SuccessRow
  <2>4. /\ session' \in [totalSpent : Nat, paidCallCount : Nat] /\ overlapped' \subseteq Call
        /\ stale' \subseteq Call
    BY <1>0 DEF AutonomyTypeOK, Spent, PassesBudget, UnderWay
  <2>5. balance' \in Nat /\ faults' \in 0 .. MaxFaults
    BY <1>0 DEF AutonomyTypeOK, WriteFails
  <2>6. scored' \in [Call -> BOOLEAN]
    BY <1>0 DEF AutonomyTypeOK
  <2> QED
    BY <2>1, <2>2, <2>3, <2>4, <2>5, <2>6 DEF AutonomyTypeOK
<1>2. /\ \A d \in Call \ {c} :
            /\ phase'[d] = phase[d] /\ mode'[d] = mode[d] /\ cost'[d] = cost[d]
            /\ escrow'[d] = escrow[d] /\ relay'[d] = relay[d] /\ rows'[d] = rows[d]
            /\ outcome'[d] = outcome[d] /\ pending'[d] = pending[d]
  BY <1>0 DEF AutonomyTypeOK
<1>3. CallOK(c)'
  BY <1>0 DEF AutonomyTypeOK, CallOK, SuccessRow
<1> QED
  BY <1>1, <1>2, <1>3, CallStepKeeps DEF CallStep

\* A target the floor forbids is not paid.
LEMMA OverFloorKeeps ==
    ASSUME AutonomyStrong, NEW c \in Call, NEW p \in Cost,
           phase[c] = "resolving", cost' = [cost EXCEPT ![c] = p],
           UNCHANGED <<mode, max, scored, session, overlapped, faults>>,
           OverFloor(c, p)
    PROVE  AutonomyStrong'
<1>0. /\ AutonomyTypeOK /\ CallOK(c) /\ balance \in Nat
      /\ cost[c] \in Nat
  BY Known
<1> USE Numbers DEF OverFloor, FailsEarly, Becomes, End, Logs
<1>1. AutonomyTypeOK'
  <2>1. /\ phase' \in [Call -> Waiting \cup {"none", "ended"}]
        /\ mode' \in [Call -> {"query", "direct"}]
        /\ max' \in [Call -> MaxCost \cup {0}] /\ cost' \in [Call -> Cost \cup {0}]
    BY <1>0 DEF AutonomyTypeOK, Waiting
  <2>2. /\ escrow' \in [Call -> {"none", "held", "settled", "released"}]
        /\ relay' \in [Call -> {"none", "asked", "held", "settled", "released"}]
        /\ outcome' \in [Call -> Outcome]
        /\ pending' \in [Call -> {"none", "pending", "approved", "rejected"}]
    BY <1>0 DEF AutonomyTypeOK, Outcome
  <2>3. rows' \in [Call -> SUBSET {"auto", "notify", "pending", "failed"}]
    BY <1>0 DEF AutonomyTypeOK, SuccessRow
  <2>4. /\ session' \in [totalSpent : Nat, paidCallCount : Nat] /\ overlapped' \subseteq Call
        /\ stale' \subseteq Call
    BY <1>0 DEF AutonomyTypeOK, Spent, PassesBudget, UnderWay
  <2>5. balance' \in Nat /\ faults' \in 0 .. MaxFaults
    BY <1>0 DEF AutonomyTypeOK, WriteFails
  <2>6. scored' \in [Call -> BOOLEAN]
    BY <1>0 DEF AutonomyTypeOK
  <2> QED
    BY <2>1, <2>2, <2>3, <2>4, <2>5, <2>6 DEF AutonomyTypeOK
<1>2. /\ \A d \in Call \ {c} :
            /\ phase'[d] = phase[d] /\ mode'[d] = mode[d] /\ cost'[d] = cost[d]
            /\ escrow'[d] = escrow[d] /\ relay'[d] = relay[d] /\ rows'[d] = rows[d]
            /\ outcome'[d] = outcome[d] /\ pending'[d] = pending[d]
  BY <1>0 DEF AutonomyTypeOK
<1>3. CallOK(c)'
  BY <1>0 DEF AutonomyTypeOK, CallOK, SuccessRow
<1> QED
  BY <1>1, <1>2, <1>3, CallStepKeeps DEF CallStep

\* A target behind the relay is left to the relay.
LEMMA PaidRelayKeeps ==
    ASSUME AutonomyStrong, NEW c \in Call, NEW p \in Cost,
           phase[c] = "resolving", cost' = [cost EXCEPT ![c] = p],
           UNCHANGED <<mode, max, scored, session, overlapped, faults>>,
           PaidRelay(c, p)
    PROVE  AutonomyStrong'
<1>0. /\ AutonomyTypeOK /\ CallOK(c) /\ balance \in Nat
      /\ cost[c] \in Nat
  BY Known
<1>g. p < Ceiling /\ (CanSpend(p) => balance - p \in Nat)
  BY Gates DEF PaidRelay
<1> USE Numbers DEF PaidRelay, Asks, FailsEarly, Becomes, End, Logs
<1>1. AutonomyTypeOK'
  <2>1. /\ phase' \in [Call -> Waiting \cup {"none", "ended"}]
        /\ mode' \in [Call -> {"query", "direct"}]
        /\ max' \in [Call -> MaxCost \cup {0}] /\ cost' \in [Call -> Cost \cup {0}]
    BY <1>0, <1>g DEF AutonomyTypeOK, Waiting
  <2>2. /\ escrow' \in [Call -> {"none", "held", "settled", "released"}]
        /\ relay' \in [Call -> {"none", "asked", "held", "settled", "released"}]
        /\ outcome' \in [Call -> Outcome]
        /\ pending' \in [Call -> {"none", "pending", "approved", "rejected"}]
    BY <1>0, <1>g DEF AutonomyTypeOK, Outcome
  <2>3. rows' \in [Call -> SUBSET {"auto", "notify", "pending", "failed"}]
    BY <1>0, <1>g DEF AutonomyTypeOK, SuccessRow
  <2>4. /\ session' \in [totalSpent : Nat, paidCallCount : Nat] /\ overlapped' \subseteq Call
        /\ stale' \subseteq Call
    BY <1>0, <1>g DEF AutonomyTypeOK, Spent, PassesBudget, UnderWay
  <2>5. balance' \in Nat /\ faults' \in 0 .. MaxFaults
    BY <1>0, <1>g DEF AutonomyTypeOK, WriteFails
  <2>6. scored' \in [Call -> BOOLEAN]
    BY <1>0, <1>g DEF AutonomyTypeOK
  <2> QED
    BY <2>1, <2>2, <2>3, <2>4, <2>5, <2>6 DEF AutonomyTypeOK
<1>2. /\ \A d \in Call \ {c} :
            /\ phase'[d] = phase[d] /\ mode'[d] = mode[d] /\ cost'[d] = cost[d]
            /\ escrow'[d] = escrow[d] /\ relay'[d] = relay[d] /\ rows'[d] = rows[d]
            /\ outcome'[d] = outcome[d] /\ pending'[d] = pending[d]
  BY <1>0, <1>g DEF AutonomyTypeOK
<1>3. CallOK(c)'
  BY <1>0, <1>g DEF AutonomyTypeOK, CallOK, SuccessRow
<1> QED
  BY <1>1, <1>2, <1>3, CallStepKeeps DEF CallStep

\* A target with a gateway is paid for here.
LEMMA LocalStepKeeps ==
    ASSUME AutonomyStrong, NEW c \in Call, NEW p \in Cost,
           phase[c] = "resolving", cost' = [cost EXCEPT ![c] = p],
           UNCHANGED <<mode, max, scored, session, overlapped, faults>>,
           LocalTarget(c, p)
    PROVE  AutonomyStrong'
<1>0. /\ AutonomyTypeOK /\ CallOK(c) /\ balance \in Nat
      /\ cost[c] \in Nat
  BY Known
<1>g. p < Ceiling /\ (CanSpend(p) => balance - p \in Nat)
  BY Gates DEF LocalTarget
<1> USE Numbers DEF LocalTarget, Takes, FailsEarly, Becomes, End, Logs
<1>1. AutonomyTypeOK'
  <2>1. /\ phase' \in [Call -> Waiting \cup {"none", "ended"}]
        /\ mode' \in [Call -> {"query", "direct"}]
        /\ max' \in [Call -> MaxCost \cup {0}] /\ cost' \in [Call -> Cost \cup {0}]
    BY <1>0, <1>g DEF AutonomyTypeOK, Waiting
  <2>2. /\ escrow' \in [Call -> {"none", "held", "settled", "released"}]
        /\ relay' \in [Call -> {"none", "asked", "held", "settled", "released"}]
        /\ outcome' \in [Call -> Outcome]
        /\ pending' \in [Call -> {"none", "pending", "approved", "rejected"}]
    BY <1>0, <1>g DEF AutonomyTypeOK, Outcome
  <2>3. rows' \in [Call -> SUBSET {"auto", "notify", "pending", "failed"}]
    BY <1>0, <1>g DEF AutonomyTypeOK, SuccessRow
  <2>4. /\ session' \in [totalSpent : Nat, paidCallCount : Nat] /\ overlapped' \subseteq Call
        /\ stale' \subseteq Call
    BY <1>0, <1>g DEF AutonomyTypeOK, Spent, PassesBudget, UnderWay
  <2>5. balance' \in Nat /\ faults' \in 0 .. MaxFaults
    BY <1>0, <1>g DEF AutonomyTypeOK, WriteFails
  <2>6. scored' \in [Call -> BOOLEAN]
    BY <1>0, <1>g DEF AutonomyTypeOK
  <2> QED
    BY <2>1, <2>2, <2>3, <2>4, <2>5, <2>6 DEF AutonomyTypeOK
<1>2. /\ \A d \in Call \ {c} :
            /\ phase'[d] = phase[d] /\ mode'[d] = mode[d] /\ cost'[d] = cost[d]
            /\ escrow'[d] = escrow[d] /\ relay'[d] = relay[d] /\ rows'[d] = rows[d]
            /\ outcome'[d] = outcome[d] /\ pending'[d] = pending[d]
  BY <1>0, <1>g DEF AutonomyTypeOK
<1>3. CallOK(c)'
  BY <1>0, <1>g DEF AutonomyTypeOK, CallOK, SuccessRow
<1> QED
  BY <1>1, <1>2, <1>3, CallStepKeeps DEF CallStep

\* A request through the relay fails.
LEMMA RelayFailsKeeps ==
    ASSUME AutonomyStrong, NEW c \in Call, RelayFails(c)
    PROVE  AutonomyStrong'
<1>0. /\ AutonomyTypeOK /\ CallOK(c) /\ balance \in Nat
      /\ cost[c] \in Nat
  BY Known
<1> USE Numbers DEF RelayFails, Becomes, End, Logs
<1>1. AutonomyTypeOK'
  <2>1. /\ phase' \in [Call -> Waiting \cup {"none", "ended"}]
        /\ mode' \in [Call -> {"query", "direct"}]
        /\ max' \in [Call -> MaxCost \cup {0}] /\ cost' \in [Call -> Cost \cup {0}]
    BY <1>0 DEF AutonomyTypeOK, Waiting
  <2>2. /\ escrow' \in [Call -> {"none", "held", "settled", "released"}]
        /\ relay' \in [Call -> {"none", "asked", "held", "settled", "released"}]
        /\ outcome' \in [Call -> Outcome]
        /\ pending' \in [Call -> {"none", "pending", "approved", "rejected"}]
    BY <1>0 DEF AutonomyTypeOK, Outcome
  <2>3. rows' \in [Call -> SUBSET {"auto", "notify", "pending", "failed"}]
    BY <1>0 DEF AutonomyTypeOK, SuccessRow
  <2>4. /\ session' \in [totalSpent : Nat, paidCallCount : Nat] /\ overlapped' \subseteq Call
        /\ stale' \subseteq Call
    BY <1>0 DEF AutonomyTypeOK, Spent, PassesBudget, UnderWay
  <2>5. balance' \in Nat /\ faults' \in 0 .. MaxFaults
    BY <1>0 DEF AutonomyTypeOK, WriteFails
  <2>6. scored' \in [Call -> BOOLEAN]
    BY <1>0 DEF AutonomyTypeOK
  <2> QED
    BY <2>1, <2>2, <2>3, <2>4, <2>5, <2>6 DEF AutonomyTypeOK
<1>2. /\ \A d \in Call \ {c} :
            /\ phase'[d] = phase[d] /\ mode'[d] = mode[d] /\ cost'[d] = cost[d]
            /\ escrow'[d] = escrow[d] /\ relay'[d] = relay[d] /\ rows'[d] = rows[d]
            /\ outcome'[d] = outcome[d] /\ pending'[d] = pending[d]
  BY <1>0 DEF AutonomyTypeOK
<1>3. CallOK(c)'
  BY <1>0 DEF AutonomyTypeOK, CallOK, SuccessRow
<1> QED
  BY <1>1, <1>2, <1>3, CallStepKeeps DEF CallStep

\* A request through the relay is answered.
LEMMA RelayAnswersKeeps ==
    ASSUME AutonomyStrong, NEW c \in Call, RelayAnswers(c)
    PROVE  AutonomyStrong'
<1>0. /\ AutonomyTypeOK /\ CallOK(c) /\ balance \in Nat
      /\ cost[c] \in Nat
  BY Known
<1> USE Numbers DEF RelayAnswers, WriteFails, Becomes, End, Logs
<1>1. AutonomyTypeOK'
  <2>1. /\ phase' \in [Call -> Waiting \cup {"none", "ended"}]
        /\ mode' \in [Call -> {"query", "direct"}]
        /\ max' \in [Call -> MaxCost \cup {0}] /\ cost' \in [Call -> Cost \cup {0}]
    BY <1>0 DEF AutonomyTypeOK, Waiting
  <2>2. /\ escrow' \in [Call -> {"none", "held", "settled", "released"}]
        /\ relay' \in [Call -> {"none", "asked", "held", "settled", "released"}]
        /\ outcome' \in [Call -> Outcome]
        /\ pending' \in [Call -> {"none", "pending", "approved", "rejected"}]
    BY <1>0 DEF AutonomyTypeOK, Outcome
  <2>3. rows' \in [Call -> SUBSET {"auto", "notify", "pending", "failed"}]
    BY <1>0 DEF AutonomyTypeOK, SuccessRow
  <2>4. /\ session' \in [totalSpent : Nat, paidCallCount : Nat] /\ overlapped' \subseteq Call
        /\ stale' \subseteq Call
    BY <1>0 DEF AutonomyTypeOK, Spent, PassesBudget, UnderWay
  <2>5. balance' \in Nat /\ faults' \in 0 .. MaxFaults
    BY <1>0 DEF AutonomyTypeOK, WriteFails
  <2>6. scored' \in [Call -> BOOLEAN]
    BY <1>0 DEF AutonomyTypeOK
  <2> QED
    BY <2>1, <2>2, <2>3, <2>4, <2>5, <2>6 DEF AutonomyTypeOK
<1>2. /\ \A d \in Call \ {c} :
            /\ phase'[d] = phase[d] /\ mode'[d] = mode[d] /\ cost'[d] = cost[d]
            /\ escrow'[d] = escrow[d] /\ relay'[d] = relay[d] /\ rows'[d] = rows[d]
            /\ outcome'[d] = outcome[d] /\ pending'[d] = pending[d]
  BY <1>0 DEF AutonomyTypeOK
<1>3. CallOK(c)'
  BY <1>0 DEF AutonomyTypeOK, CallOK, SuccessRow
<1> QED
  BY <1>1, <1>2, <1>3, CallStepKeeps DEF CallStep

\* A peer answers and is paid.
LEMMA PeerAnswersKeeps ==
    ASSUME AutonomyStrong, NEW c \in Call, PeerAnswers(c)
    PROVE  AutonomyStrong'
<1>0. /\ AutonomyTypeOK /\ CallOK(c) /\ balance \in Nat
      /\ cost[c] \in Nat
  BY Known
<1> USE Numbers DEF PeerAnswers, WriteFails, Becomes, End, Logs
<1>1. AutonomyTypeOK'
  <2>1. /\ phase' \in [Call -> Waiting \cup {"none", "ended"}]
        /\ mode' \in [Call -> {"query", "direct"}]
        /\ max' \in [Call -> MaxCost \cup {0}] /\ cost' \in [Call -> Cost \cup {0}]
    BY <1>0 DEF AutonomyTypeOK, Waiting
  <2>2. /\ escrow' \in [Call -> {"none", "held", "settled", "released"}]
        /\ relay' \in [Call -> {"none", "asked", "held", "settled", "released"}]
        /\ outcome' \in [Call -> Outcome]
        /\ pending' \in [Call -> {"none", "pending", "approved", "rejected"}]
    BY <1>0 DEF AutonomyTypeOK, Outcome
  <2>3. rows' \in [Call -> SUBSET {"auto", "notify", "pending", "failed"}]
    BY <1>0 DEF AutonomyTypeOK, SuccessRow
  <2>4. /\ session' \in [totalSpent : Nat, paidCallCount : Nat] /\ overlapped' \subseteq Call
        /\ stale' \subseteq Call
    BY <1>0 DEF AutonomyTypeOK, Spent, PassesBudget, UnderWay
  <2>5. balance' \in Nat /\ faults' \in 0 .. MaxFaults
    BY <1>0 DEF AutonomyTypeOK, WriteFails
  <2>6. scored' \in [Call -> BOOLEAN]
    BY <1>0 DEF AutonomyTypeOK
  <2> QED
    BY <2>1, <2>2, <2>3, <2>4, <2>5, <2>6 DEF AutonomyTypeOK
<1>2. /\ \A d \in Call \ {c} :
            /\ phase'[d] = phase[d] /\ mode'[d] = mode[d] /\ cost'[d] = cost[d]
            /\ escrow'[d] = escrow[d] /\ relay'[d] = relay[d] /\ rows'[d] = rows[d]
            /\ outcome'[d] = outcome[d] /\ pending'[d] = pending[d]
  BY <1>0 DEF AutonomyTypeOK
<1>3. CallOK(c)'
  BY <1>0 DEF AutonomyTypeOK, CallOK, SuccessRow
<1> QED
  BY <1>1, <1>2, <1>3, CallStepKeeps DEF CallStep

\* A peer fails and the hold returns.
LEMMA PeerFailsKeeps ==
    ASSUME AutonomyStrong, NEW c \in Call, PeerFails(c)
    PROVE  AutonomyStrong'
<1>0. /\ AutonomyTypeOK /\ CallOK(c) /\ balance \in Nat
      /\ cost[c] \in Nat
  BY Known
<1> USE Numbers DEF PeerFails, WriteFails, Becomes, End, Logs
<1>1. AutonomyTypeOK'
  <2>1. /\ phase' \in [Call -> Waiting \cup {"none", "ended"}]
        /\ mode' \in [Call -> {"query", "direct"}]
        /\ max' \in [Call -> MaxCost \cup {0}] /\ cost' \in [Call -> Cost \cup {0}]
    BY <1>0 DEF AutonomyTypeOK, Waiting
  <2>2. /\ escrow' \in [Call -> {"none", "held", "settled", "released"}]
        /\ relay' \in [Call -> {"none", "asked", "held", "settled", "released"}]
        /\ outcome' \in [Call -> Outcome]
        /\ pending' \in [Call -> {"none", "pending", "approved", "rejected"}]
    BY <1>0 DEF AutonomyTypeOK, Outcome
  <2>3. rows' \in [Call -> SUBSET {"auto", "notify", "pending", "failed"}]
    BY <1>0 DEF AutonomyTypeOK, SuccessRow
  <2>4. /\ session' \in [totalSpent : Nat, paidCallCount : Nat] /\ overlapped' \subseteq Call
        /\ stale' \subseteq Call
    BY <1>0 DEF AutonomyTypeOK, Spent, PassesBudget, UnderWay
  <2>5. balance' \in Nat /\ faults' \in 0 .. MaxFaults
    BY <1>0 DEF AutonomyTypeOK, WriteFails
  <2>6. scored' \in [Call -> BOOLEAN]
    BY <1>0 DEF AutonomyTypeOK
  <2> QED
    BY <2>1, <2>2, <2>3, <2>4, <2>5, <2>6 DEF AutonomyTypeOK
<1>2. /\ \A d \in Call \ {c} :
            /\ phase'[d] = phase[d] /\ mode'[d] = mode[d] /\ cost'[d] = cost[d]
            /\ escrow'[d] = escrow[d] /\ relay'[d] = relay[d] /\ rows'[d] = rows[d]
            /\ outcome'[d] = outcome[d] /\ pending'[d] = pending[d]
  BY <1>0 DEF AutonomyTypeOK
<1>3. CallOK(c)'
  BY <1>0 DEF AutonomyTypeOK, CallOK, SuccessRow
<1> QED
  BY <1>1, <1>2, <1>3, CallStepKeeps DEF CallStep

\* A call finds its hold recovered.
LEMMA FindsReleasedKeeps ==
    ASSUME AutonomyStrong, NEW c \in Call, FindsReleased(c)
    PROVE  AutonomyStrong'
<1>0. /\ AutonomyTypeOK /\ CallOK(c) /\ balance \in Nat
      /\ cost[c] \in Nat
  BY Known
<1> USE Numbers DEF FindsReleased, Becomes, End, Logs
<1>1. AutonomyTypeOK'
  <2>1. /\ phase' \in [Call -> Waiting \cup {"none", "ended"}]
        /\ mode' \in [Call -> {"query", "direct"}]
        /\ max' \in [Call -> MaxCost \cup {0}] /\ cost' \in [Call -> Cost \cup {0}]
    BY <1>0 DEF AutonomyTypeOK, Waiting
  <2>2. /\ escrow' \in [Call -> {"none", "held", "settled", "released"}]
        /\ relay' \in [Call -> {"none", "asked", "held", "settled", "released"}]
        /\ outcome' \in [Call -> Outcome]
        /\ pending' \in [Call -> {"none", "pending", "approved", "rejected"}]
    BY <1>0 DEF AutonomyTypeOK, Outcome
  <2>3. rows' \in [Call -> SUBSET {"auto", "notify", "pending", "failed"}]
    BY <1>0 DEF AutonomyTypeOK, SuccessRow
  <2>4. /\ session' \in [totalSpent : Nat, paidCallCount : Nat] /\ overlapped' \subseteq Call
        /\ stale' \subseteq Call
    BY <1>0 DEF AutonomyTypeOK, Spent, PassesBudget, UnderWay
  <2>5. balance' \in Nat /\ faults' \in 0 .. MaxFaults
    BY <1>0 DEF AutonomyTypeOK, WriteFails
  <2>6. scored' \in [Call -> BOOLEAN]
    BY <1>0 DEF AutonomyTypeOK
  <2> QED
    BY <2>1, <2>2, <2>3, <2>4, <2>5, <2>6 DEF AutonomyTypeOK
<1>2. /\ \A d \in Call \ {c} :
            /\ phase'[d] = phase[d] /\ mode'[d] = mode[d] /\ cost'[d] = cost[d]
            /\ escrow'[d] = escrow[d] /\ relay'[d] = relay[d] /\ rows'[d] = rows[d]
            /\ outcome'[d] = outcome[d] /\ pending'[d] = pending[d]
  BY <1>0 DEF AutonomyTypeOK
<1>3. CallOK(c)'
  BY <1>0 DEF AutonomyTypeOK, CallOK, SuccessRow
<1> QED
  BY <1>1, <1>2, <1>3, CallStepKeeps DEF CallStep

\* The owner answers a pending request.
LEMMA OwnerKeeps ==
    ASSUME AutonomyStrong, NEW c \in Call, NEW r \in {"approved", "rejected"}, OwnerResolves(c, r)
    PROVE  AutonomyStrong'
<1>0. /\ AutonomyTypeOK /\ CallOK(c) /\ balance \in Nat
      /\ cost[c] \in Nat
  BY Known
<1> USE Numbers DEF OwnerResolves
<1>1. AutonomyTypeOK'
  <2>1. /\ phase' \in [Call -> Waiting \cup {"none", "ended"}]
        /\ mode' \in [Call -> {"query", "direct"}]
        /\ max' \in [Call -> MaxCost \cup {0}] /\ cost' \in [Call -> Cost \cup {0}]
    BY <1>0 DEF AutonomyTypeOK, Waiting
  <2>2. /\ escrow' \in [Call -> {"none", "held", "settled", "released"}]
        /\ relay' \in [Call -> {"none", "asked", "held", "settled", "released"}]
        /\ outcome' \in [Call -> Outcome]
        /\ pending' \in [Call -> {"none", "pending", "approved", "rejected"}]
    BY <1>0 DEF AutonomyTypeOK, Outcome
  <2>3. rows' \in [Call -> SUBSET {"auto", "notify", "pending", "failed"}]
    BY <1>0 DEF AutonomyTypeOK, SuccessRow
  <2>4. /\ session' \in [totalSpent : Nat, paidCallCount : Nat] /\ overlapped' \subseteq Call
        /\ stale' \subseteq Call
    BY <1>0 DEF AutonomyTypeOK, Spent, PassesBudget, UnderWay
  <2>5. balance' \in Nat /\ faults' \in 0 .. MaxFaults
    BY <1>0 DEF AutonomyTypeOK, WriteFails
  <2>6. scored' \in [Call -> BOOLEAN]
    BY <1>0 DEF AutonomyTypeOK
  <2> QED
    BY <2>1, <2>2, <2>3, <2>4, <2>5, <2>6 DEF AutonomyTypeOK
<1>2. /\ \A d \in Call \ {c} :
            /\ phase'[d] = phase[d] /\ mode'[d] = mode[d] /\ cost'[d] = cost[d]
            /\ escrow'[d] = escrow[d] /\ relay'[d] = relay[d] /\ rows'[d] = rows[d]
            /\ outcome'[d] = outcome[d] /\ pending'[d] = pending[d]
  BY <1>0 DEF AutonomyTypeOK
<1>3. CallOK(c)'
  BY <1>0 DEF AutonomyTypeOK, CallOK, SuccessRow
<1> QED
  BY <1>1, <1>2, <1>3, CallStepKeeps DEF CallStep

\* A recovery releases a hold.
LEMMA RecoverKeeps ==
    ASSUME AutonomyStrong, NEW c \in Call, Recover(c)
    PROVE  AutonomyStrong'
<1>0. /\ AutonomyTypeOK /\ CallOK(c) /\ balance \in Nat
      /\ cost[c] \in Nat
  BY Known
<1> USE Numbers DEF Recover
<1>1. AutonomyTypeOK'
  <2>1. /\ phase' \in [Call -> Waiting \cup {"none", "ended"}]
        /\ mode' \in [Call -> {"query", "direct"}]
        /\ max' \in [Call -> MaxCost \cup {0}] /\ cost' \in [Call -> Cost \cup {0}]
    BY <1>0 DEF AutonomyTypeOK, Waiting
  <2>2. /\ escrow' \in [Call -> {"none", "held", "settled", "released"}]
        /\ relay' \in [Call -> {"none", "asked", "held", "settled", "released"}]
        /\ outcome' \in [Call -> Outcome]
        /\ pending' \in [Call -> {"none", "pending", "approved", "rejected"}]
    BY <1>0 DEF AutonomyTypeOK, Outcome
  <2>3. rows' \in [Call -> SUBSET {"auto", "notify", "pending", "failed"}]
    BY <1>0 DEF AutonomyTypeOK, SuccessRow
  <2>4. /\ session' \in [totalSpent : Nat, paidCallCount : Nat] /\ overlapped' \subseteq Call
        /\ stale' \subseteq Call
    BY <1>0 DEF AutonomyTypeOK, Spent, PassesBudget, UnderWay
  <2>5. balance' \in Nat /\ faults' \in 0 .. MaxFaults
    BY <1>0 DEF AutonomyTypeOK, WriteFails
  <2>6. scored' \in [Call -> BOOLEAN]
    BY <1>0 DEF AutonomyTypeOK
  <2> QED
    BY <2>1, <2>2, <2>3, <2>4, <2>5, <2>6 DEF AutonomyTypeOK
<1>2. /\ \A d \in Call \ {c} :
            /\ phase'[d] = phase[d] /\ mode'[d] = mode[d] /\ cost'[d] = cost[d]
            /\ escrow'[d] = escrow[d] /\ relay'[d] = relay[d] /\ rows'[d] = rows[d]
            /\ outcome'[d] = outcome[d] /\ pending'[d] = pending[d]
  BY <1>0 DEF AutonomyTypeOK
<1>3. CallOK(c)'
  BY <1>0 DEF AutonomyTypeOK, CallOK, SuccessRow
<1> QED
  BY <1>1, <1>2, <1>3, CallStepKeeps DEF CallStep

\* The relay holds.
LEMMA RelayHoldsKeeps ==
    ASSUME AutonomyStrong, NEW c \in Call, RelayHolds(c)
    PROVE  AutonomyStrong'
<1>0. /\ AutonomyTypeOK /\ CallOK(c) /\ balance \in Nat
      /\ cost[c] \in Nat
  BY Known
<1> USE Numbers DEF RelayHolds, Takes
<1>1. AutonomyTypeOK'
  <2>1. /\ phase' \in [Call -> Waiting \cup {"none", "ended"}]
        /\ mode' \in [Call -> {"query", "direct"}]
        /\ max' \in [Call -> MaxCost \cup {0}] /\ cost' \in [Call -> Cost \cup {0}]
    BY <1>0 DEF AutonomyTypeOK, Waiting
  <2>2. /\ escrow' \in [Call -> {"none", "held", "settled", "released"}]
        /\ relay' \in [Call -> {"none", "asked", "held", "settled", "released"}]
        /\ outcome' \in [Call -> Outcome]
        /\ pending' \in [Call -> {"none", "pending", "approved", "rejected"}]
    BY <1>0 DEF AutonomyTypeOK, Outcome
  <2>3. rows' \in [Call -> SUBSET {"auto", "notify", "pending", "failed"}]
    BY <1>0 DEF AutonomyTypeOK, SuccessRow
  <2>4. /\ session' \in [totalSpent : Nat, paidCallCount : Nat] /\ overlapped' \subseteq Call
        /\ stale' \subseteq Call
    BY <1>0 DEF AutonomyTypeOK, Spent, PassesBudget, UnderWay
  <2>5. balance' \in Nat /\ faults' \in 0 .. MaxFaults
    BY <1>0 DEF AutonomyTypeOK, WriteFails
  <2>6. scored' \in [Call -> BOOLEAN]
    BY <1>0 DEF AutonomyTypeOK
  <2> QED
    BY <2>1, <2>2, <2>3, <2>4, <2>5, <2>6 DEF AutonomyTypeOK
<1>2. /\ \A d \in Call \ {c} :
            /\ phase'[d] = phase[d] /\ mode'[d] = mode[d] /\ cost'[d] = cost[d]
            /\ escrow'[d] = escrow[d] /\ relay'[d] = relay[d] /\ rows'[d] = rows[d]
            /\ outcome'[d] = outcome[d] /\ pending'[d] = pending[d]
  BY <1>0 DEF AutonomyTypeOK
<1>3. CallOK(c)'
  BY <1>0 DEF AutonomyTypeOK, CallOK, SuccessRow
<1> QED
  BY <1>1, <1>2, <1>3, CallStepKeeps DEF CallStep

\* The relay settles.
LEMMA RelaySettlesKeeps ==
    ASSUME AutonomyStrong, NEW c \in Call, RelaySettles(c)
    PROVE  AutonomyStrong'
<1>0. /\ AutonomyTypeOK /\ CallOK(c) /\ balance \in Nat
      /\ cost[c] \in Nat
  BY Known
<1> USE Numbers DEF RelaySettles
<1>1. AutonomyTypeOK'
  <2>1. /\ phase' \in [Call -> Waiting \cup {"none", "ended"}]
        /\ mode' \in [Call -> {"query", "direct"}]
        /\ max' \in [Call -> MaxCost \cup {0}] /\ cost' \in [Call -> Cost \cup {0}]
    BY <1>0 DEF AutonomyTypeOK, Waiting
  <2>2. /\ escrow' \in [Call -> {"none", "held", "settled", "released"}]
        /\ relay' \in [Call -> {"none", "asked", "held", "settled", "released"}]
        /\ outcome' \in [Call -> Outcome]
        /\ pending' \in [Call -> {"none", "pending", "approved", "rejected"}]
    BY <1>0 DEF AutonomyTypeOK, Outcome
  <2>3. rows' \in [Call -> SUBSET {"auto", "notify", "pending", "failed"}]
    BY <1>0 DEF AutonomyTypeOK, SuccessRow
  <2>4. /\ session' \in [totalSpent : Nat, paidCallCount : Nat] /\ overlapped' \subseteq Call
        /\ stale' \subseteq Call
    BY <1>0 DEF AutonomyTypeOK, Spent, PassesBudget, UnderWay
  <2>5. balance' \in Nat /\ faults' \in 0 .. MaxFaults
    BY <1>0 DEF AutonomyTypeOK, WriteFails
  <2>6. scored' \in [Call -> BOOLEAN]
    BY <1>0 DEF AutonomyTypeOK
  <2> QED
    BY <2>1, <2>2, <2>3, <2>4, <2>5, <2>6 DEF AutonomyTypeOK
<1>2. /\ \A d \in Call \ {c} :
            /\ phase'[d] = phase[d] /\ mode'[d] = mode[d] /\ cost'[d] = cost[d]
            /\ escrow'[d] = escrow[d] /\ relay'[d] = relay[d] /\ rows'[d] = rows[d]
            /\ outcome'[d] = outcome[d] /\ pending'[d] = pending[d]
  BY <1>0 DEF AutonomyTypeOK
<1>3. CallOK(c)'
  BY <1>0 DEF AutonomyTypeOK, CallOK, SuccessRow
<1> QED
  BY <1>1, <1>2, <1>3, CallStepKeeps DEF CallStep

\* The relay refunds.
LEMMA RelayRefundsKeeps ==
    ASSUME AutonomyStrong, NEW c \in Call, RelayRefunds(c)
    PROVE  AutonomyStrong'
<1>0. /\ AutonomyTypeOK /\ CallOK(c) /\ balance \in Nat
      /\ cost[c] \in Nat
  BY Known
<1> USE Numbers DEF RelayRefunds
<1>1. AutonomyTypeOK'
  <2>1. /\ phase' \in [Call -> Waiting \cup {"none", "ended"}]
        /\ mode' \in [Call -> {"query", "direct"}]
        /\ max' \in [Call -> MaxCost \cup {0}] /\ cost' \in [Call -> Cost \cup {0}]
    BY <1>0 DEF AutonomyTypeOK, Waiting
  <2>2. /\ escrow' \in [Call -> {"none", "held", "settled", "released"}]
        /\ relay' \in [Call -> {"none", "asked", "held", "settled", "released"}]
        /\ outcome' \in [Call -> Outcome]
        /\ pending' \in [Call -> {"none", "pending", "approved", "rejected"}]
    BY <1>0 DEF AutonomyTypeOK, Outcome
  <2>3. rows' \in [Call -> SUBSET {"auto", "notify", "pending", "failed"}]
    BY <1>0 DEF AutonomyTypeOK, SuccessRow
  <2>4. /\ session' \in [totalSpent : Nat, paidCallCount : Nat] /\ overlapped' \subseteq Call
        /\ stale' \subseteq Call
    BY <1>0 DEF AutonomyTypeOK, Spent, PassesBudget, UnderWay
  <2>5. balance' \in Nat /\ faults' \in 0 .. MaxFaults
    BY <1>0 DEF AutonomyTypeOK, WriteFails
  <2>6. scored' \in [Call -> BOOLEAN]
    BY <1>0 DEF AutonomyTypeOK
  <2> QED
    BY <2>1, <2>2, <2>3, <2>4, <2>5, <2>6 DEF AutonomyTypeOK
<1>2. /\ \A d \in Call \ {c} :
            /\ phase'[d] = phase[d] /\ mode'[d] = mode[d] /\ cost'[d] = cost[d]
            /\ escrow'[d] = escrow[d] /\ relay'[d] = relay[d] /\ rows'[d] = rows[d]
            /\ outcome'[d] = outcome[d] /\ pending'[d] = pending[d]
  BY <1>0 DEF AutonomyTypeOK
<1>3. CallOK(c)'
  BY <1>0 DEF AutonomyTypeOK, CallOK, SuccessRow
<1> QED
  BY <1>1, <1>2, <1>3, CallStepKeeps DEF CallStep

-----------------------------------------------------------------------------
\* At the start no call was made.
LEMMA InitStrong == AutonomyInit => AutonomyStrong
<1> SUFFICES ASSUME AutonomyInit PROVE AutonomyStrong
  OBVIOUS
<1> USE Numbers DEF AutonomyInit
<1>1. AutonomyTypeOK
  <2>1. /\ phase \in [Call -> Waiting \cup {"none", "ended"}] /\ mode \in [Call -> {"query", "direct"}]
        /\ max \in [Call -> MaxCost \cup {0}] /\ cost \in [Call -> Cost \cup {0}]
    OBVIOUS
  <2>2. /\ escrow \in [Call -> {"none", "held", "settled", "released"}]
        /\ relay \in [Call -> {"none", "asked", "held", "settled", "released"}]
        /\ outcome \in [Call -> Outcome]
        /\ pending \in [Call -> {"none", "pending", "approved", "rejected"}]
    BY DEF Outcome
  <2>3. /\ rows \in [Call -> SUBSET {"auto", "notify", "pending", "failed"}]
        /\ session \in [totalSpent : Nat, paidCallCount : Nat] /\ overlapped \subseteq Call /\ stale \subseteq Call
    OBVIOUS
  <2>4. balance \in Nat /\ faults \in 0 .. MaxFaults
    OBVIOUS
  <2>5. scored \in [Call -> BOOLEAN]
    OBVIOUS
  <2> QED
    BY <2>1, <2>2, <2>3, <2>4, <2>5 DEF AutonomyTypeOK
<1>2. \A c \in Call : CallOK(c)
  BY DEF CallOK
<1> QED
  BY <1>1, <1>2 DEF AutonomyStrong

\* Every step keeps the invariant.
LEMMA NextKeeps ==
    ASSUME AutonomyStrong, [AutonomyNext]_autonomyVars
    PROVE  AutonomyStrong'
<1>1. ASSUME NEW c \in Call, NEW p \in Cost, Resolve(c, p) PROVE AutonomyStrong'
  <2>1. /\ phase[c] = "resolving" /\ cost' = [cost EXCEPT ![c] = p]
        /\ TierThree(c, p) \/ OverFloor(c, p) \/ PaidRelay(c, p) \/ LocalTarget(c, p)
        /\ UNCHANGED <<mode, max, scored, session, overlapped, faults>>
    BY <1>1 DEF Resolve
  <2> QED
    BY <2>1, TierThreeKeeps, OverFloorKeeps, PaidRelayKeeps, LocalStepKeeps
<1>2. ASSUME NEW c \in Call, NEW m \in MaxCost, Query(c, m) PROVE AutonomyStrong'
  BY <1>2, QueryKeeps
<1>3. ASSUME NEW c \in Call, Direct(c) \/ Fetch(c) \/ Search(c) \/ NoPeer(c) PROVE AutonomyStrong'
  BY <1>3, DirectKeeps, FetchKeeps, SearchKeeps, NoPeerKeeps
<1>4. ASSUME NEW c \in Call, Answers(c) \/ Fails(c) PROVE AutonomyStrong'
  BY <1>4, RelayFailsKeeps, RelayAnswersKeeps, PeerAnswersKeeps, PeerFailsKeeps, FindsReleasedKeeps
  DEF Answers, Fails
<1>5. ASSUME NEW c \in Call, NEW r \in {"approved", "rejected"}, OwnerResolves(c, r) PROVE AutonomyStrong'
  BY <1>5, OwnerKeeps
<1>6. ASSUME NEW c \in Call, Recover(c) \/ RelayHolds(c) \/ RelaySettles(c) \/ RelayRefunds(c)
      PROVE  AutonomyStrong'
  BY <1>6, RecoverKeeps, RelayHoldsKeeps, RelaySettlesKeeps, RelayRefundsKeeps
<1>7. CASE UNCHANGED autonomyVars
  <2>1. UNCHANGED <<phase, mode, max, cost, scored, escrow, relay, rows, outcome, pending,
                    session, overlapped, balance, stale, faults>>
    BY <1>7 DEF autonomyVars, callVars
  <2>2. AutonomyTypeOK'
    BY <2>1 DEF AutonomyStrong, AutonomyTypeOK
  <2> QED
    BY <2>1, <2>2 DEF AutonomyStrong, CallOK
<1> QED
  BY <1>1, <1>2, <1>3, <1>4, <1>5, <1>6, <1>7 DEF AutonomyNext

-----------------------------------------------------------------------------
\* The inductive invariant holds throughout.
THEOREM AutonomyStrongHolds == AutonomySpec => []AutonomyStrong
<1>1. AutonomyInit => AutonomyStrong
  BY InitStrong
<1>2. AutonomyStrong /\ [AutonomyNext]_autonomyVars => AutonomyStrong'
  BY NextKeeps
<1> QED
  BY <1>1, <1>2, PTL DEF AutonomySpec

-----------------------------------------------------------------------------
(* The reserve                                                             *)

Taken == {"held", "settled"}

\* What canSpend told a request on its way to the relay, while nobody overtook it.
Stands(c) ==
    OwnRelay /\ relay[c] = "asked" /\ mode[c] = "query" /\ c \notin stale
       => balance - Reserve >= cost[c]

\* The inductive invariant of the reserve.
FloorStrong ==
    /\ IsFiniteSet(Unchecked)
    /\ balance + SumOf(cost, Unchecked) >= Floor
    /\ \A c \in Call : Stands(c)

\* The prices of the unchecked payments have a sum.
LEMMA UncheckedSum ==
    ASSUME AutonomyStrong, FloorStrong
    PROVE  /\ SumOf(cost, Unchecked) \in Nat
           /\ \A c \in Call : cost[c] \in Int /\ cost[c] >= 0
<1>1. \A c \in Call : cost[c] \in Int /\ cost[c] >= 0
  BY Known
<1>2. IsFiniteSet(Unchecked) /\ \A c \in Unchecked : cost[c] \in Int /\ cost[c] >= 0
  BY <1>1 DEF Unchecked, FloorStrong
<1>3. SumOf(cost, Unchecked) \in Nat
  BY <1>2, SumNat
<1> QED
  BY <1>1, <1>3

\* A step that leaves the unchecked payments alone, and either does not lower
\* the balance or keeps the reserve.
LEMMA FloorStays ==
    ASSUME AutonomyStrong, AutonomyStrong', FloorStrong,
           Unchecked' = Unchecked, \A d \in Unchecked : cost'[d] = cost[d],
           balance' >= balance \/ balance' >= Floor,
           \A d \in Call : Stands(d)'
    PROVE  FloorStrong'
<1>1. SumOf(cost', Unchecked) = SumOf(cost, Unchecked)
  BY SumEqual DEF FloorStrong
<1>2. SumOf(cost, Unchecked)' = SumOf(cost', Unchecked)
  OBVIOUS
<1>3. SumOf(cost, Unchecked) \in Nat
  BY UncheckedSum
<1>4. balance \in Nat /\ balance' \in Nat
  BY DEF AutonomyStrong, AutonomyTypeOK
<1>5. balance + SumOf(cost, Unchecked) >= Floor
  BY DEF FloorStrong
<1>6. balance' + SumOf(cost, Unchecked) >= Floor
  BY <1>3, <1>4, <1>5, Numbers
<1> QED
  BY <1>1, <1>2, <1>6 DEF FloorStrong

\* A step of call c that takes nothing: what leaves for the relay has been
\* checked, and what is paid there stays paid.
Steady(c) ==
    /\ \A d \in Call \ {c} : relay'[d] = relay[d] /\ mode'[d] = mode[d] /\ cost'[d] = cost[d]
    /\ relay[c] # "none" => mode'[c] = mode[c] /\ cost'[c] = cost[c]
    /\ relay'[c] \in Taken <=> relay[c] \in Taken
    /\ relay'[c] = "asked" /\ mode'[c] = "query" =>
          relay[c] = "asked" \/ balance - Reserve >= cost'[c]
    /\ stale' = stale /\ balance' >= balance

\* Such a step keeps the reserve.
LEMMA SteadyKeeps ==
    ASSUME AutonomyStrong, AutonomyStrong', FloorStrong, NEW c \in Call, Steady(c)
    PROVE  FloorStrong'
<1>1. \A d \in Call : (relay'[d] \in Taken <=> relay[d] \in Taken)
                      /\ (relay[d] \in Taken => mode'[d] = mode[d] /\ cost'[d] = cost[d])
  BY DEF Steady, Taken
<1>2. Unchecked' = Unchecked /\ \A d \in Unchecked : cost'[d] = cost[d]
  BY <1>1 DEF Unchecked, Steady, Taken
<1>3. /\ balance \in Nat /\ balance' \in Nat /\ balance' >= balance
      /\ Reserve \in Nat /\ \A d \in Call : cost'[d] \in Nat
  <2>1. cost' \in [Call -> Cost \cup {0}] /\ balance \in Nat /\ balance' \in Nat
    BY DEF AutonomyStrong, AutonomyTypeOK
  <2>2. \A d \in Call : cost'[d] \in Nat
    <3>1. \A q \in Cost \cup {0} : q \in Nat
      BY Numbers
    <3> QED
      BY <2>1, <3>1
  <2>3. Reserve \in Nat
    BY Numbers
  <2> QED
    BY <2>1, <2>2, <2>3 DEF Steady
<1>4. ASSUME NEW d \in Call PROVE Stands(d)'
  <2> SUFFICES ASSUME OwnRelay, relay'[d] = "asked", mode'[d] = "query", d \notin stale'
               PROVE  balance' - Reserve >= cost'[d]
    BY DEF Stands
  <2>1. balance - Reserve >= cost'[d]
    <3>1. CASE relay[d] = "asked"
      <4>1. mode[d] = "query" /\ cost'[d] = cost[d] /\ d \notin stale
        BY <3>1 DEF Steady
      <4> QED
        BY <3>1, <4>1 DEF FloorStrong, Stands
    <3>2. CASE relay[d] # "asked"
      BY <3>2 DEF Steady
    <3> QED
      BY <3>1, <3>2
  <2> QED
    BY <2>1, <1>3
<1> QED
  BY <1>2, <1>3, <1>4, FloorStays

\* A hold here is taken while the check stands; it overtakes the others.
LEMMA LocalKeepsFloor ==
    ASSUME AutonomyStrong, AutonomyStrong', FloorStrong, NEW c \in Call, NEW p \in Cost,
           relay[c] = "none", cost' = [cost EXCEPT ![c] = p],
           UNCHANGED <<mode, relay>>, CanSpend(p), Takes(c, p)
    PROVE  FloorStrong'
<1>0. /\ p \in Nat /\ balance \in Nat /\ Reserve \in Nat /\ Floor \in Nat /\ Floor <= Reserve
      /\ cost \in [Call -> Cost \cup {0}] /\ balance' = balance - p
  BY Numbers DEF AutonomyStrong, AutonomyTypeOK, Takes
<1>1. Unchecked' = Unchecked /\ \A d \in Unchecked : cost'[d] = cost[d]
  BY <1>0 DEF Unchecked, Takes
<1>2. balance' >= balance \/ balance' >= Floor
  BY <1>0 DEF CanSpend
<1>3. ASSUME NEW d \in Call PROVE Stands(d)'
  <2> SUFFICES ASSUME OwnRelay, relay'[d] = "asked", mode'[d] = "query", d \notin stale'
               PROVE  balance' - Reserve >= cost'[d]
    BY DEF Stands
  <2>1. d # c /\ cost'[d] = cost[d] /\ relay[d] = "asked" /\ mode[d] = "query"
    BY <1>0
  <2>2. p = 0 /\ d \notin stale
    BY <2>1 DEF Takes
  <2>3. balance - Reserve >= cost[d]
    BY <2>1, <2>2 DEF FloorStrong, Stands
  <2>4. balance' = balance
    BY <1>0, <2>2
  <2> QED
    BY <2>1, <2>3, <2>4
<1> QED
  BY <1>1, <1>2, <1>3, FloorStays

\* The relay takes a price: within the check, or the payment is unchecked.
LEMMA RelayHoldsKeepsFloor ==
    ASSUME AutonomyStrong, AutonomyStrong', FloorStrong, NEW c \in Call, RelayHolds(c)
    PROVE  FloorStrong'
<1>0. /\ balance \in Nat /\ Reserve \in Nat /\ Floor \in Nat /\ Floor <= Reserve
      /\ relay[c] = "asked" /\ relay' = [relay EXCEPT ![c] = "held"] /\ cost' = cost /\ mode' = mode
      /\ \A d \in Call : /\ relay'[d] = IF d = c THEN "held" ELSE relay[d]
                         /\ cost[d] \in Nat
  <2>1. relay \in [Call -> {"none", "asked", "held", "settled", "released"}] /\ balance \in Nat
    BY DEF AutonomyStrong, AutonomyTypeOK
  <2>2. \A d \in Call : cost[d] \in Nat
    BY Known
  <2> QED
    BY <2>1, <2>2, Numbers DEF RelayHolds
<1>1. CASE ~OwnRelay
  <2>1. UNCHANGED <<balance, stale>>
    BY <1>1 DEF RelayHolds
  <2>2. Unchecked' = Unchecked /\ \A d \in Unchecked : cost'[d] = cost[d]
    BY <1>0, <1>1 DEF Unchecked
  <2>3. \A d \in Call : Stands(d)'
    BY <1>1 DEF Stands
  <2>4. balance' >= balance
    BY <1>0, <2>1
  <2> QED
    BY <2>2, <2>3, <2>4, FloorStays
<1>2. CASE OwnRelay
  <2>1. /\ balance' = balance - cost[c]
        /\ stale' = IF cost[c] = 0 THEN stale
                    ELSE stale \cup {d \in Call \ {c} : relay[d] = "asked"}
    BY <1>2 DEF RelayHolds, Takes
  <2>2. ASSUME NEW d \in Call PROVE Stands(d)'
    <3> SUFFICES ASSUME relay'[d] = "asked", mode'[d] = "query", d \notin stale'
                 PROVE  balance' - Reserve >= cost'[d]
      BY DEF Stands
    <3>1. d # c /\ relay[d] = "asked" /\ mode[d] = "query" /\ cost'[d] = cost[d]
      BY <1>0
    <3>2. cost[c] = 0 /\ d \notin stale
      BY <2>1, <3>1
    <3>3. balance - Reserve >= cost[d]
      BY <1>2, <3>1, <3>2 DEF FloorStrong, Stands
    <3>4. balance' = balance
      BY <1>0, <2>1, <3>2
    <3> QED
      BY <3>1, <3>3, <3>4
  <2>3. CASE mode[c] = "query" /\ c \notin stale
    <3>1. balance - Reserve >= cost[c]
      BY <1>0, <1>2, <2>3 DEF FloorStrong, Stands
    <3>2. balance' >= Floor
      BY <1>0, <2>1, <3>1
    <3>3. Unchecked' = Unchecked
      <4>1. \A d \in Call : d \in Unchecked' <=> d \in Unchecked
        BY <1>0, <2>1, <2>3 DEF Unchecked
      <4> QED
        BY <4>1 DEF Unchecked
    <3>4. \A d \in Unchecked : cost'[d] = cost[d]
      BY <1>0
    <3> QED
      BY <2>2, <3>2, <3>3, <3>4, FloorStays
  <2>4. CASE mode[c] = "direct" \/ c \in stale
    <3>1. Unchecked' = Unchecked \cup {c} /\ c \notin Unchecked
      <4>1. \A d \in Call : d \in Unchecked' <=> d \in Unchecked \/ d = c
        BY <1>0, <1>2, <2>1, <2>4 DEF Unchecked
      <4> QED
        BY <1>0, <4>1 DEF Unchecked
    <3>2. SumOf(cost, Unchecked \cup {c}) = SumOf(cost, Unchecked) + cost[c]
      <4> DEFINE U == Unchecked
      <4>1. IsFiniteSet(U) /\ c \notin U /\ \A d \in U \cup {c} : cost[d] \in Int
        BY <3>1, UncheckedSum DEF FloorStrong, Unchecked
      <4>2. SumOf(cost, U \cup {c}) = SumOf(cost, U) + cost[c]
        <5> HIDE DEF U
        <5> QED BY <4>1, SumAdd
      <4> QED
        BY <4>2
    <3>3. SumOf(cost, Unchecked)' = SumOf(cost, Unchecked \cup {c})
      BY <1>0, <3>1
    <3>4. IsFiniteSet(Unchecked \cup {c})
      BY FS_AddElement DEF FloorStrong
    <3>5. SumOf(cost, Unchecked) \in Nat /\ cost[c] \in Nat
      BY <1>0, UncheckedSum
    <3>6. balance + SumOf(cost, Unchecked) >= Floor
      BY DEF FloorStrong
    <3>7. balance' + SumOf(cost, Unchecked)' >= Floor
      BY <1>0, <2>1, <3>2, <3>3, <3>5, <3>6
    <3> QED
      BY <2>2, <3>1, <3>4, <3>7 DEF FloorStrong
  <2>5. mode[c] \in {"query", "direct"}
    BY DEF AutonomyStrong, AutonomyTypeOK
  <2> QED
    BY <2>3, <2>4, <2>5
<1> QED
  BY <1>1, <1>2

\* The relay gives back what it took.
LEMMA RefundKeepsFloor ==
    ASSUME AutonomyStrong, AutonomyStrong', FloorStrong, NEW c \in Call, RelayRefunds(c)
    PROVE  FloorStrong'
<1>0. /\ balance \in Nat /\ Floor \in Nat /\ Reserve \in Nat
      /\ relay[c] = "held" /\ cost' = cost /\ mode' = mode /\ stale' = stale
      /\ balance' = IF OwnRelay THEN balance + cost[c] ELSE balance
      /\ \A d \in Call : /\ relay'[d] = IF d = c THEN "released" ELSE relay[d]
                         /\ cost[d] \in Nat
  <2>1. relay \in [Call -> {"none", "asked", "held", "settled", "released"}] /\ balance \in Nat
    BY DEF AutonomyStrong, AutonomyTypeOK
  <2>2. \A d \in Call : cost[d] \in Nat
    BY Known
  <2> QED
    BY <2>1, <2>2, Numbers DEF RelayRefunds
<1>1. balance' >= balance /\ balance' \in Nat
  BY <1>0
<1>2. ASSUME NEW d \in Call PROVE Stands(d)'
  <2> SUFFICES ASSUME OwnRelay, relay'[d] = "asked", mode'[d] = "query", d \notin stale'
               PROVE  balance' - Reserve >= cost'[d]
    BY DEF Stands
  <2>1. relay[d] = "asked" /\ mode[d] = "query" /\ d \notin stale
    BY <1>0
  <2>2. balance - Reserve >= cost[d]
    BY <2>1 DEF FloorStrong, Stands
  <2> QED
    BY <1>0, <1>1, <2>2
<1>3. CASE c \notin Unchecked
  <2>1. Unchecked' = Unchecked
    <3>1. \A d \in Call : d \in Unchecked' <=> d \in Unchecked
      BY <1>0, <1>3 DEF Unchecked
    <3> QED
      BY <3>1 DEF Unchecked
  <2>2. \A d \in Unchecked : cost'[d] = cost[d]
    BY <1>0
  <2> QED
    BY <1>1, <1>2, <2>1, <2>2, FloorStays
<1>4. CASE c \in Unchecked
  <2>1. Unchecked' = Unchecked \ {c} /\ OwnRelay
    <3>1. \A d \in Call : d \in Unchecked' <=> d \in Unchecked /\ d # c
      BY <1>0 DEF Unchecked
    <3> QED
      BY <3>1, <1>4 DEF Unchecked
  <2>2. SumOf(cost, Unchecked) = cost[c] + SumOf(cost, Unchecked \ {c})
    <3> DEFINE U == Unchecked
    <3>1. IsFiniteSet(U) /\ c \in U /\ \A d \in U : cost[d] \in Int
      BY <1>4, UncheckedSum DEF FloorStrong, Unchecked
    <3>2. SumOf(cost, U) = cost[c] + SumOf(cost, U \ {c})
      <4> HIDE DEF U
      <4> QED BY <3>1, SumRemove
    <3> QED
      BY <3>2
  <2>3. IsFiniteSet(Unchecked \ {c})
    BY FS_Subset DEF FloorStrong
  <2>4. SumOf(cost, Unchecked)' = SumOf(cost, Unchecked \ {c})
    BY <1>0, <2>1
  <2>5. SumOf(cost, Unchecked \ {c}) \in Nat
    <3>1. \A d \in Unchecked \ {c} : cost[d] \in Int /\ cost[d] >= 0
      BY <1>0 DEF Unchecked
    <3> QED
      BY <2>3, <3>1, SumNat
  <2>6. balance + SumOf(cost, Unchecked) >= Floor
    BY DEF FloorStrong
  <2>7. balance' + SumOf(cost, Unchecked)' >= Floor
    <3>1. balance' = balance + cost[c] /\ cost[c] \in Nat
      BY <1>0, <2>1
    <3> QED
      BY <1>0, <2>2, <2>4, <2>5, <2>6, <3>1
  <2> QED
    BY <1>2, <2>1, <2>3, <2>7 DEF FloorStrong
<1> QED
  BY <1>3, <1>4

\* The resolution of a target holds here or sends what was checked.
LEMMA ResolveKeepsFloor ==
    ASSUME AutonomyStrong, AutonomyStrong', FloorStrong,
           NEW c \in Call, NEW p \in Cost, Resolve(c, p)
    PROVE  FloorStrong'
<1>0. /\ AutonomyTypeOK /\ p \in Nat /\ balance \in Nat /\ Reserve \in Nat
      /\ relay[c] = "none" /\ cost' = [cost EXCEPT ![c] = p] /\ mode' = mode
  <2>1. AutonomyTypeOK /\ CallOK(c) /\ balance \in Nat
    BY Known
  <2> QED
    BY <2>1, Numbers DEF Resolve, CallOK
<1>1. CASE LocalTarget(c, p) /\ ~FailsEarly(c, "no_peer")
  BY <1>0, <1>1, LocalKeepsFloor DEF LocalTarget
<1>2. CASE TierThree(c, p) \/ OverFloor(c, p) \/ FailsEarly(c, "no_peer")
  <2>1. UNCHANGED <<relay, balance, stale>>
    BY <1>2 DEF TierThree, OverFloor, FailsEarly
  <2>2. Steady(c)
    BY <1>0, <2>1 DEF Steady, AutonomyTypeOK
  <2> QED
    BY <2>2, SteadyKeeps
<1>3. CASE PaidRelay(c, p) /\ ~FailsEarly(c, "no_peer")
  <2>1. UNCHANGED <<balance, stale>> /\ relay' = [relay EXCEPT ![c] = "asked"] /\ CanSpend(p) /\ p > 0
    BY <1>3 DEF PaidRelay, Asks
  <2>2. balance - Reserve >= p
    BY <1>0, <2>1 DEF CanSpend
  <2>3. Steady(c)
    BY <1>0, <2>1, <2>2 DEF Steady, AutonomyTypeOK, Taken
  <2> QED
    BY <2>3, SteadyKeeps
<1>4. TierThree(c, p) \/ OverFloor(c, p) \/ PaidRelay(c, p) \/ LocalTarget(c, p)
  BY DEF Resolve
<1> QED
  BY <1>1, <1>2, <1>3, <1>4

\* The other steps take nothing.
LEMMA OthersSteady ==
    ASSUME AutonomyStrong, NEW c \in Call,
           \/ \E m \in MaxCost : Query(c, m)
           \/ Direct(c) \/ Fetch(c) \/ Search(c) \/ NoPeer(c) \/ Answers(c) \/ Fails(c)
           \/ \E r \in {"approved", "rejected"} : OwnerResolves(c, r)
           \/ Recover(c) \/ RelaySettles(c)
    PROVE  Steady(c)
<1>0. AutonomyTypeOK /\ CallOK(c) /\ balance \in Nat /\ cost[c] \in Nat
  BY Known
<1> USE DEF AutonomyTypeOK, Steady, Taken
<1>1. CASE (\E m \in MaxCost : Query(c, m)) \/ Direct(c)
  <2>1. relay[c] = "none"
    BY <1>0, <1>1 DEF CallOK, Query, Direct
  <2> QED
    BY <1>0, <1>1, <2>1 DEF Query, Direct
<1>2. CASE Fetch(c)
  <2>1. mode[c] = "direct" /\ relay[c] = "none"
    BY <1>0, <1>2 DEF CallOK, Fetch
  <2> QED
    BY <1>0, <1>2, <2>1 DEF Fetch, Asks
<1>3. CASE Search(c) \/ NoPeer(c) \/ (\E r \in {"approved", "rejected"} : OwnerResolves(c, r))
  BY <1>0, <1>3 DEF Search, NoPeer, FailsEarly, OwnerResolves
<1>4. CASE Answers(c)
  BY <1>0, <1>4 DEF Answers, RelayAnswers, PeerAnswers
<1>5. CASE Fails(c)
  BY <1>0, <1>5 DEF Fails, RelayFails, PeerFails, FindsReleased
<1>6. CASE Recover(c) \/ RelaySettles(c)
  BY <1>0, <1>6 DEF Recover, RelaySettles
<1> QED
  BY <1>1, <1>2, <1>3, <1>4, <1>5, <1>6

\* Every step keeps the reserve.
LEMMA FloorKeeps ==
    ASSUME AutonomyStrong, AutonomyStrong', FloorStrong, [AutonomyNext]_autonomyVars
    PROVE  FloorStrong'
<1>1. CASE UNCHANGED autonomyVars
  <2>1. UNCHANGED <<cost, relay, mode, stale, balance>>
    BY <1>1 DEF autonomyVars, callVars
  <2>2. Unchecked' = Unchecked
    BY <2>1 DEF Unchecked
  <2>3. SumOf(cost, Unchecked)' = SumOf(cost, Unchecked)
    BY <2>1, <2>2
  <2> QED
    BY <2>1, <2>2, <2>3 DEF FloorStrong, Stands
<1>2. CASE AutonomyNext
  BY <1>2, OthersSteady, SteadyKeeps, ResolveKeepsFloor, RelayHoldsKeepsFloor, RefundKeepsFloor
  DEF AutonomyNext
<1> QED
  BY <1>1, <1>2

\* The reserve's invariant holds throughout.
LEMMA FloorStrongHolds == AutonomySpec => []FloorStrong
<1>1. AutonomyInit => FloorStrong
  <2> SUFFICES ASSUME AutonomyInit PROVE FloorStrong
    OBVIOUS
  <2>1. Unchecked = {}
    BY DEF AutonomyInit, Unchecked
  <2>2. IsFiniteSet(Unchecked) /\ SumOf(cost, Unchecked) = 0
    BY <2>1, FS_EmptySet, SumEmpty
  <2>3. balance = InitialBalance /\ \A c \in Call : Stands(c)
    BY DEF AutonomyInit, Stands
  <2> QED
    BY <2>2, <2>3, Numbers DEF FloorStrong
<1>2. AutonomyStrong /\ AutonomyStrong' /\ FloorStrong /\ [AutonomyNext]_autonomyVars => FloorStrong'
  BY FloorKeeps
<1> QED
  BY <1>1, <1>2, AutonomyStrongHolds, PTL DEF AutonomySpec

\* Whatever the calls, their prices and their order: what is missing from the
\* reserve is no more than what the relay took for direct calls and for queries
\* that another payment overtook between canSpend and the relay's hold; what
\* needs approval spends nothing, a payment has one escrow, none outlives its
\* call, and every query that returns is in the log (budget.ts:28,
\* auto-request.ts:458, :490, :508, :593).
THEOREM AutonomyKept == AutonomySpec => []AutonomyInv
<1>1. ASSUME AutonomyStrong, FloorStrong PROVE AutonomyInv
  <2>1. FloorHolds
    BY <1>1 DEF FloorStrong, FloorHolds, Floor, SumOf
  <2>2. TierThreeNeverSpends
    BY <1>1 DEF AutonomyStrong, CallOK, TierThreeNeverSpends, Ceiling
  <2>3. OneEscrow /\ NoHoldAfterCall
    BY <1>1 DEF AutonomyStrong, CallOK, OneEscrow, NoHoldAfterCall
  <2>4. OutcomeIsLogged
    BY <1>1 DEF AutonomyStrong, CallOK, OutcomeIsLogged
  <2> QED
    BY <1>1, <2>1, <2>2, <2>3, <2>4 DEF AutonomyStrong, AutonomyInv
<1> QED
  BY <1>1, AutonomyStrongHolds, FloorStrongHolds, PTL

-----------------------------------------------------------------------------
\* What a step may do to the escrow of a call and to the price it was held for.
EscrowMove(c) ==
    \/ escrow'[c] = escrow[c] /\ (escrow[c] # "none" => cost'[c] = cost[c])
    \/ escrow[c] = "none" /\ escrow'[c] = "held" /\ cost'[c] \in Cost
    \/ escrow[c] = "held" /\ escrow'[c] \in {"settled", "released"} /\ cost'[c] = cost[c]

\* A target is resolved before its call has an escrow.
LEMMA ResolveMoves ==
    ASSUME AutonomyTypeOK, NEW c \in Call, CallOK(c), NEW p \in Cost, Resolve(c, p)
    PROVE  \A d \in Call : EscrowMove(d)
<1>1. /\ phase[c] = "resolving" /\ escrow[c] = "none" /\ cost' = [cost EXCEPT ![c] = p]
  BY DEF Resolve, CallOK
<1>2. UNCHANGED escrow \/ escrow' = [escrow EXCEPT ![c] = "held"]
  BY DEF Resolve, TierThree, OverFloor, PaidRelay, LocalTarget, FailsEarly
<1> QED
  BY <1>1, <1>2 DEF EscrowMove, AutonomyTypeOK

\* A step writes one escrow, or none, and a price only while there is none.
LEMMA EscrowsMove ==
    ASSUME AutonomyTypeOK, \A c \in Call : CallOK(c), AutonomyNext
    PROVE  \A d \in Call : EscrowMove(d)
<1> USE DEF EscrowMove, AutonomyTypeOK
<1>1. ASSUME NEW c \in Call, NEW m \in MaxCost, Query(c, m) PROVE \A d \in Call : EscrowMove(d)
  BY <1>1 DEF Query
<1>2. ASSUME NEW c \in Call, Direct(c) \/ Search(c) \/ NoPeer(c)
      PROVE  \A d \in Call : EscrowMove(d)
  BY <1>2 DEF Direct, Search, NoPeer, FailsEarly
<1>3. ASSUME NEW c \in Call, Fetch(c) PROVE \A d \in Call : EscrowMove(d)
  <2>1. escrow[c] = "none"
    BY <1>3 DEF Fetch, CallOK
  <2> QED
    BY <1>3, <2>1 DEF Fetch
<1>4. ASSUME NEW c \in Call, NEW p \in Cost, Resolve(c, p) PROVE \A d \in Call : EscrowMove(d)
  BY <1>4, ResolveMoves
<1>5. ASSUME NEW c \in Call, Answers(c) PROVE \A d \in Call : EscrowMove(d)
  BY <1>5 DEF Answers, RelayAnswers, PeerAnswers
<1>6. ASSUME NEW c \in Call, Fails(c) PROVE \A d \in Call : EscrowMove(d)
  BY <1>6 DEF Fails, RelayFails, PeerFails, FindsReleased
<1>7. ASSUME NEW c \in Call, NEW r \in {"approved", "rejected"}, OwnerResolves(c, r)
      PROVE  \A d \in Call : EscrowMove(d)
  BY <1>7 DEF OwnerResolves
<1>8. ASSUME NEW c \in Call, Recover(c) \/ RelayHolds(c) \/ RelaySettles(c) \/ RelayRefunds(c)
      PROVE  \A d \in Call : EscrowMove(d)
  BY <1>8 DEF Recover, RelayHolds, RelaySettles, RelayRefunds
<1> QED
  BY <1>1, <1>2, <1>3, <1>4, <1>5, <1>6, <1>7, <1>8 DEF AutonomyNext

\* What the refinement mapping makes of such moves.
LEMMA MovesArePromised ==
    ASSUME AutonomyTypeOK, AutonomyTypeOK', \A c \in Call : EscrowMove(c)
    PROVE  Promise!PromiseNext
<1> DEFINE open == [c \in Call |->
               CASE escrow[c] = "none" -> "none"
                 [] escrow[c] = "held" -> "open"
                 [] escrow[c] = "settled" -> "paid"
                 [] escrow[c] = "released" -> "refunded"]
           amount == [c \in Call |-> IF escrow[c] = "none" THEN 0 ELSE cost[c]]
           out == [c \in Call |-> IF escrow[c] \in {"settled", "released"} THEN cost[c] ELSE 0]
<1> SUFFICES ASSUME NEW c \in Call
             PROVE  \/ /\ open'[c] = open[c] /\ amount'[c] = amount[c] /\ out'[c] = out[c]
                    \/ /\ open[c] = "none" /\ open'[c] = "open"
                       /\ amount'[c] \in Cost /\ out'[c] = out[c]
                    \/ /\ open[c] = "open"
                       /\ \/ open'[c] \in {"paid", "refunded"} /\ out'[c] = amount[c]
                          \/ open'[c] = "confirmed" /\ out'[c] = 0
                       /\ amount'[c] = amount[c]
  BY DEF Promise!PromiseNext, Promise!Stays, Promise!Opens, Promise!Closes
<1>1. /\ open[c] = CASE escrow[c] = "none" -> "none"
                     [] escrow[c] = "held" -> "open"
                     [] escrow[c] = "settled" -> "paid"
                     [] escrow[c] = "released" -> "refunded"
      /\ open'[c] = CASE escrow'[c] = "none" -> "none"
                      [] escrow'[c] = "held" -> "open"
                      [] escrow'[c] = "settled" -> "paid"
                      [] escrow'[c] = "released" -> "refunded"
      /\ amount[c] = IF escrow[c] = "none" THEN 0 ELSE cost[c]
      /\ amount'[c] = IF escrow'[c] = "none" THEN 0 ELSE cost'[c]
      /\ out[c] = IF escrow[c] \in {"settled", "released"} THEN cost[c] ELSE 0
      /\ out'[c] = IF escrow'[c] \in {"settled", "released"} THEN cost'[c] ELSE 0
  OBVIOUS
<1> HIDE DEF open, amount, out
<1>2. EscrowMove(c) /\ escrow[c] \in {"none", "held", "settled", "released"}
  BY DEF AutonomyTypeOK
<1> QED
  BY <1>1, <1>2 DEF EscrowMove

\* The calls keep the promise of the escrow, whatever throws and whoever
\* recovers (auto-request.ts:593-703, agent-runtime.ts:299).
THEOREM AutonomyEscrowPromise == AutonomySpec => AutonomyKeepsPromise
<1>1. AutonomyInit => Promise!PromiseInit
  BY DEF AutonomyInit, Promise!PromiseInit
<1>2. AutonomyStrong /\ AutonomyStrong' /\ [AutonomyNext]_autonomyVars
         => [Promise!PromiseNext]_Promise!promiseVars
  <2>1. ASSUME AutonomyStrong, AutonomyStrong', AutonomyNext PROVE Promise!PromiseNext
    BY <2>1, EscrowsMove, MovesArePromised DEF AutonomyStrong
  <2>2. ASSUME UNCHANGED autonomyVars PROVE UNCHANGED Promise!promiseVars
    BY <2>2 DEF autonomyVars, callVars, Promise!promiseVars
  <2> QED
    BY <2>1, <2>2
<1> QED
  BY <1>1, <1>2, AutonomyStrongHolds, PTL
  DEF AutonomySpec, AutonomyKeepsPromise, Promise!PromiseSpec

-----------------------------------------------------------------------------
(* The session's budget                                                    *)

\* The phases of a call that the budget has let through.
Passed == {"searching", "resolving", "relaying", "calling"}

\* What the budget was asked for: the limit of a query, the price of a card.
Limit(c) == IF mode[c] = "query" THEN max[c] ELSE cost[c]

Won == {c \in Call : outcome[c] = "success"}

\* A call that passed the budget alone is alone with it: nobody has passed
\* since, so what it asked for still fits.
AloneOK(c) ==
    phase[c] \in Passed /\ c \notin overlapped =>
       /\ \A d \in Call \ {c} : phase[d] \notin Passed
       /\ Limit(c) = 0 \/ session.totalSpent + Limit(c) <= SessionBudget

\* A success was charged.
ChargedOK(c) ==
    outcome[c] = "success" => "settled" \in {escrow[c], relay[c]} \/ cost[c] = 0

\* The record exceeds the budget by no more than its races took.
Overrun == session.totalSpent <= SessionBudget + SumOf(Beyond, Won)

\* The inductive invariant of the session's record.
SpendStrong ==
    /\ \A c \in Call : AloneOK(c) /\ ChargedOK(c)
    /\ IsFiniteSet(Won)
    /\ session.totalSpent = SumOf(cost, Won)
    /\ Overrun

\* What a call may take beyond the budget is a part of its price.
LEMMA BeyondIsNat ==
    ASSUME AutonomyTypeOK, NEW c \in Call
    PROVE  /\ cost[c] \in Nat /\ max[c] \in Nat
           /\ Beyond[c] \in Nat /\ Beyond[c] <= cost[c]
<1>1. cost[c] \in Cost \cup {0} /\ \A p \in Cost : p \in Nat
  BY AutonomyAssumption DEF AutonomyTypeOK
<1>2. max[c] \in MaxCost \cup {0} /\ \A m \in MaxCost : m \in Nat
  BY AutonomyAssumption DEF AutonomyTypeOK
<1>3. cost[c] \in Nat /\ max[c] \in Nat
  BY <1>1, <1>2
<1> QED
  BY <1>3 DEF Beyond

\* A step that wins nothing may only mark more races.
LEMMA OverrunKeeps ==
    ASSUME AutonomyTypeOK, AutonomyTypeOK', SpendStrong,
           Won' = Won, session' = session,
           \A c \in Won : Beyond[c] <= Beyond'[c]
    PROVE  Overrun'
<1>1. \A c \in Call : Beyond[c] \in Int
  BY BeyondIsNat
<1>2. \A c \in Call : Beyond'[c] \in Int
  <2> SUFFICES ASSUME NEW c \in Call PROVE Beyond'[c] \in Int
    OBVIOUS
  <2>1. cost'[c] \in Cost \cup {0} /\ \A p \in Cost : p \in Nat
    BY AutonomyAssumption DEF AutonomyTypeOK
  <2>2. max'[c] \in MaxCost \cup {0} /\ \A m \in MaxCost : m \in Nat
    BY AutonomyAssumption DEF AutonomyTypeOK
  <2>3. cost'[c] \in Nat /\ max'[c] \in Nat
    BY <2>1, <2>2
  <2> QED
    BY <2>3 DEF Beyond
<1>3. Won \subseteq Call /\ IsFiniteSet(Won)
  BY DEF Won, SpendStrong
<1>4. SumOf(Beyond, Won) <= SumOf(Beyond', Won)
  <2>1. \A c \in Won : Beyond[c] \in Int /\ Beyond'[c] \in Int /\ Beyond[c] <= Beyond'[c]
    BY <1>1, <1>2, <1>3
  <2> QED
    BY <1>3, <2>1, SumAtMost
<1>5. SumOf(Beyond, Won) \in Int
  <2>1. \A c \in Won : Beyond[c] \in Int
    BY <1>1, <1>3
  <2> QED
    BY <1>3, <2>1, SumInt
<1>6. SumOf(Beyond', Won) \in Int
  <2>1. \A c \in Won : Beyond'[c] \in Int
    BY <1>2, <1>3
  <2> QED
    BY <1>3, <2>1, SumInt
<1>7. Overrun' <=> session.totalSpent <= SessionBudget + SumOf(Beyond', Won)
  BY DEF Overrun
<1>8. session.totalSpent \in Int /\ SessionBudget \in Int
  BY AutonomyAssumption DEF AutonomyTypeOK
<1>9. session.totalSpent <= SessionBudget + SumOf(Beyond, Won)
  BY DEF SpendStrong, Overrun
<1> QED
  BY <1>4, <1>5, <1>6, <1>7, <1>8, <1>9

\* A step of call c that wins nothing and passes no budget check.
Idle(c) ==
    /\ \A d \in Call \ {c} :
          /\ phase'[d] = phase[d] /\ mode'[d] = mode[d] /\ max'[d] = max[d]
          /\ cost'[d] = cost[d] /\ outcome'[d] = outcome[d]
          /\ escrow'[d] = escrow[d] /\ relay'[d] = relay[d]
    /\ phase'[c] \in Passed =>
          /\ phase[c] \in Passed /\ mode'[c] = mode[c] /\ max'[c] = max[c]
          /\ (mode[c] = "query" \/ cost'[c] = cost[c])
    /\ outcome[c] = "success" =>
          /\ mode'[c] = mode[c] /\ max'[c] = max[c] /\ cost'[c] = cost[c]
          /\ escrow'[c] = escrow[c] /\ (relay[c] = "settled" => relay'[c] = relay[c])
    /\ outcome'[c] = "success" <=> outcome[c] = "success"
    /\ session' = session /\ overlapped' = overlapped

\* A call that neither wins nor passes a check leaves the record as it is.
LEMMA IdleKeeps ==
    ASSUME AutonomyTypeOK, AutonomyTypeOK', SpendStrong, NEW c \in Call, Idle(c)
    PROVE  SpendStrong'
<1>1. ASSUME NEW d \in Call PROVE AloneOK(d)'
  <2>1. AloneOK(d) /\ \A e \in Call : phase'[e] \in Passed => phase[e] \in Passed
    BY DEF SpendStrong, Idle
  <2>2. phase'[d] \in Passed => phase[d] \in Passed /\ Limit(d)' = Limit(d)
    BY DEF Idle, Limit
  <2> QED
    BY <2>1, <2>2 DEF AloneOK, Idle
<1>2. \A d \in Call : ChargedOK(d)'
  BY DEF SpendStrong, Idle, ChargedOK
<1>3. Won' = Won /\ \A d \in Won : cost'[d] = cost[d]
  BY DEF Won, Idle
<1>4. SumOf(cost', Won) = SumOf(cost, Won)
  BY <1>3, SumEqual DEF SpendStrong
<1>5. Overrun'
  <2>1. \A d \in Won : Beyond'[d] = Beyond[d]
    BY DEF Won, Idle, Beyond
  <2>2. \A d \in Won : Beyond[d] <= Beyond'[d]
    BY <2>1, BeyondIsNat DEF Won
  <2>3. session' = session
    BY DEF Idle
  <2> QED
    BY <1>3, <2>2, <2>3, OverrunKeeps
<1>6. SumOf(cost, Won)' = SumOf(cost', Won)
  BY <1>3
<1> QED
  BY <1>1, <1>2, <1>3, <1>4, <1>5, <1>6 DEF SpendStrong, Idle

\* A step of call c that may pass the budget check: what it asks for fits what
\* is spent so far.
Passes(c) ==
    /\ \A d \in Call \ {c} :
          /\ phase'[d] = phase[d] /\ mode'[d] = mode[d] /\ max'[d] = max[d]
          /\ cost'[d] = cost[d] /\ outcome'[d] = outcome[d]
    /\ UNCHANGED <<escrow, session>> /\ \A d \in Call \ {c} : relay'[d] = relay[d]
    /\ outcome[c] # "success" /\ outcome'[c] # "success"
    /\ phase[c] \notin Passed
    /\ overlapped \subseteq overlapped'
    /\ phase'[c] \in Passed =>
          /\ Limit(c)' = 0 \/ session.totalSpent + Limit(c)' <= SessionBudget
          /\ PassesBudget(c)

\* A call that passes while another is under way marks both.
LEMMA PassesKeeps ==
    ASSUME AutonomyTypeOK, AutonomyTypeOK', SpendStrong, NEW c \in Call, Passes(c)
    PROVE  SpendStrong'
<1>1. ASSUME NEW d \in Call, phase'[d] \in Passed, d \notin overlapped'
      PROVE  AloneOK(d)'
  <2>1. CASE phase'[c] \notin Passed
    BY <1>1, <2>1 DEF Passes, SpendStrong, AloneOK, Limit
  <2>2. CASE phase'[c] \in Passed
    <3>1. overlapped' = IF UnderWay(c) = {} THEN overlapped
                        ELSE overlapped \cup UnderWay(c) \cup {c}
      BY <2>2 DEF Passes, PassesBudget
    <3>2. Passed \subseteq Waiting
      BY DEF Passed, Waiting
    <3>3. CASE d = c
      <4>1. UnderWay(c) = {}
        BY <1>1, <3>1, <3>3
      <4>2. \A e \in Call \ {c} : phase'[e] \notin Passed
        BY <3>2, <4>1 DEF UnderWay, Passes
      <4> QED
        BY <2>2, <3>3, <4>2 DEF AloneOK, Passes
    <3>4. CASE d # c
      <4>1. d \in UnderWay(c)
        BY <1>1, <3>2, <3>4 DEF UnderWay, Passes
      <4> QED
        BY <1>1, <3>1, <4>1
    <3> QED
      BY <3>3, <3>4
  <2> QED
    BY <2>1, <2>2
<1>2. \A d \in Call : AloneOK(d)'
  BY <1>1 DEF AloneOK
<1>3. \A d \in Call : ChargedOK(d)'
  BY DEF SpendStrong, Passes, ChargedOK
<1>4. Won' = Won /\ \A d \in Won : cost'[d] = cost[d]
  BY DEF Won, Passes
<1>5. SumOf(cost', Won) = SumOf(cost, Won)
  BY <1>4, SumEqual DEF SpendStrong
<1>6. Overrun'
  <2>1. ASSUME NEW d \in Won PROVE Beyond[d] <= Beyond'[d]
    <3>1. d \in Call /\ mode'[d] = mode[d] /\ max'[d] = max[d] /\ cost'[d] = cost[d]
      BY DEF Won, Passes
    <3>2. d \in overlapped => d \in overlapped'
      BY DEF Passes
    <3> QED
      BY <3>1, <3>2, BeyondIsNat DEF Beyond
  <2>2. session' = session
    BY DEF Passes
  <2> QED
    BY <1>4, <2>1, <2>2, OverrunKeeps
<1>7. SumOf(cost, Won)' = SumOf(cost', Won)
  BY <1>4
<1> QED
  BY <1>2, <1>3, <1>4, <1>5, <1>6, <1>7 DEF SpendStrong, Passes

\* Call c succeeds and its price goes into the record.
Wins(c) ==
    /\ phase[c] \in Passed /\ phase' = [phase EXCEPT ![c] = "ended"]
    /\ outcome[c] # "success" /\ outcome' = [outcome EXCEPT ![c] = "success"]
    /\ \A d \in Call \ {c} : escrow'[d] = escrow[d] /\ relay'[d] = relay[d]
    /\ "settled" \in {escrow'[c], relay'[c]} \/ cost[c] = 0
    /\ session' = Spent(cost[c])
    /\ UNCHANGED <<mode, max, cost, overlapped>>

\* A success adds its price to the sum; one that nobody raced fits the budget.
LEMMA WinsKeeps ==
    ASSUME AutonomyStrong, SpendStrong, NEW c \in Call, Wins(c)
    PROVE  SpendStrong'
<1>0. AutonomyTypeOK /\ cost[c] \in Nat
  BY Known
<1>1. session.totalSpent \in Nat /\ session'.totalSpent = session.totalSpent + cost[c]
  BY <1>0 DEF AutonomyTypeOK, Wins, Spent
<1>2. \A d \in Call : /\ phase'[d] = IF d = c THEN "ended" ELSE phase[d]
                      /\ outcome'[d] = IF d = c THEN "success" ELSE outcome[d]
  BY <1>0 DEF Wins, AutonomyTypeOK
<1>3. ASSUME NEW d \in Call PROVE AloneOK(d)'
  <2> SUFFICES ASSUME phase'[d] \in Passed, d \notin overlapped' PROVE FALSE
    BY DEF AloneOK
  <2>1. d # c /\ phase[d] \in Passed /\ phase[c] \in Passed /\ d \notin overlapped
    BY <1>2 DEF Wins, Passed
  <2> QED
    BY <2>1 DEF SpendStrong, AloneOK
<1>4. \A d \in Call : ChargedOK(d)'
  BY <1>2 DEF SpendStrong, ChargedOK, Wins
<1>5. Won' = Won \cup {c} /\ c \notin Won
  BY <1>2 DEF Won, Wins
<1>6. \A d \in Won \cup {c} : cost[d] \in Int
  BY Known DEF Won
<1>7. SumOf(cost, Won \cup {c}) = SumOf(cost, Won) + cost[c] /\ IsFiniteSet(Won \cup {c})
  <2>1. IsFiniteSet(Won)
    BY DEF SpendStrong
  <2>2. SumOf(cost, Won \cup {c}) = SumOf(cost, Won) + cost[c]
    <3> DEFINE W == Won
    <3>1. IsFiniteSet(W) /\ c \notin W /\ \A d \in W \cup {c} : cost[d] \in Int
      BY <1>5, <1>6, <2>1
    <3>2. SumOf(cost, W \cup {c}) = SumOf(cost, W) + cost[c]
      <4> HIDE DEF W
      <4> QED BY <3>1, SumAdd
    <3> QED
      BY <3>2
  <2> QED
    BY <2>1, <2>2, FS_AddElement
<1>8. SumOf(cost, Won)' = SumOf(cost, Won \cup {c})
  BY <1>5 DEF Wins
<1>9. Overrun'
  <2>1. /\ mode' = mode /\ max' = max /\ cost' = cost /\ overlapped' = overlapped
        /\ Beyond' = Beyond
    BY DEF Wins, Beyond
  <2>2. SumOf(Beyond, Won)' = SumOf(Beyond, Won \cup {c})
    BY <1>5, <2>1
  <2>3. \A d \in Call : Beyond[d] \in Int
    BY <1>0, BeyondIsNat
  <2>4. IsFiniteSet(Won) /\ Won \subseteq Call
    BY DEF SpendStrong, Won
  <2>5. SumOf(Beyond, Won) \in Int
    <3>1. \A d \in Won : Beyond[d] \in Int
      BY <2>3, <2>4
    <3> QED
      BY <2>4, <3>1, SumInt
  <2>6. SumOf(Beyond, Won \cup {c}) = SumOf(Beyond, Won) + Beyond[c]
    <3> DEFINE W == Won
    <3>1. IsFiniteSet(W) /\ c \notin W /\ \A d \in W \cup {c} : Beyond[d] \in Int
      BY <1>5, <2>3, <2>4
    <3>2. SumOf(Beyond, W \cup {c}) = SumOf(Beyond, W) + Beyond[c]
      <4> HIDE DEF W
      <4> QED BY <3>1, SumAdd
    <3> QED
      BY <3>2
  <2>7. session.totalSpent <= SessionBudget + SumOf(Beyond, Won)
    BY DEF SpendStrong, Overrun
  <2>8. SumOf(Beyond, Won) \in Nat
    <3>1. \A d \in Won : Beyond[d] \in Int /\ Beyond[d] >= 0
      BY <1>0, <2>4, BeyondIsNat
    <3> QED
      BY <2>4, <3>1, SumNat
  <2>9. /\ SessionBudget \in Nat /\ cost[c] \in Nat /\ max[c] \in Nat
        /\ Beyond[c] \in Nat
    BY <1>0, BeyondIsNat, AutonomyAssumption
  <2>10. CASE c \in overlapped
    <3>1. Beyond[c] = cost[c]
      BY <2>10 DEF Beyond
    <3> QED
      BY <1>1, <2>2, <2>5, <2>6, <2>7, <2>9, <3>1 DEF Overrun
  <2>11. CASE c \notin overlapped
    <3>1. Limit(c) = 0 \/ session.totalSpent + Limit(c) <= SessionBudget
      BY <2>11 DEF SpendStrong, AloneOK, Wins
    <3>2. cost[c] <= Limit(c) + Beyond[c] /\ Limit(c) \in Nat
      BY <2>9, <2>11 DEF Limit, Beyond
    <3>3. CASE Limit(c) = 0
      BY <1>1, <2>2, <2>5, <2>6, <2>7, <2>9, <3>2, <3>3 DEF Overrun
    <3>4. CASE session.totalSpent + Limit(c) <= SessionBudget
      BY <1>1, <2>2, <2>5, <2>6, <2>8, <2>9, <3>2, <3>4 DEF Overrun
    <3> QED
      BY <3>1, <3>3, <3>4
  <2> QED
    BY <2>10, <2>11
<1> QED
  BY <1>1, <1>3, <1>4, <1>5, <1>7, <1>8, <1>9 DEF SpendStrong

\* A query or a card passes the budget, or not.
LEMMA ChecksPass ==
    ASSUME AutonomyStrong, NEW c \in Call, (\E m \in MaxCost : Query(c, m)) \/ Fetch(c)
    PROVE  Passes(c)
<1>0. AutonomyTypeOK /\ CallOK(c)
  BY Known
<1>1. \A d \in Call \ {c} :
         /\ phase'[d] = phase[d] /\ mode'[d] = mode[d] /\ max'[d] = max[d]
         /\ cost'[d] = cost[d] /\ outcome'[d] = outcome[d]
  BY <1>0 DEF Query, Fetch, Becomes, End, AutonomyTypeOK
<1>2. /\ UNCHANGED <<escrow, session>> /\ overlapped \subseteq overlapped'
      /\ \A d \in Call \ {c} : relay'[d] = relay[d]
  BY <1>0 DEF Query, Fetch, Asks, PassesBudget, AutonomyTypeOK
<1>3. /\ outcome[c] # "success" /\ outcome'[c] # "success" /\ phase[c] \notin Passed
  BY <1>0 DEF Query, Fetch, Becomes, End, AutonomyTypeOK, CallOK, Passed
<1>4. ASSUME phase'[c] \in Passed
      PROVE  /\ Limit(c)' = 0 \/ session.totalSpent + Limit(c)' <= SessionBudget
             /\ PassesBudget(c)
  <2>1. ASSUME NEW m \in MaxCost, Query(c, m)
        PROVE  CheckConsumerBudget(m) /\ PassesBudget(c) /\ Limit(c)' = m
    BY <1>0, <1>4, <2>1 DEF Query, End, Becomes, Passed, Limit, AutonomyTypeOK
  <2>2. ASSUME NEW p \in Cost, cost' = [cost EXCEPT ![c] = p], Fetch(c),
               CheckConsumerBudget(p), PassesBudget(c)
        PROVE  Limit(c)' = p
    BY <1>0, <2>2 DEF Fetch, Limit, AutonomyTypeOK, CallOK
  <2>3. CASE \E m \in MaxCost : Query(c, m)
    BY <2>1, <2>3 DEF CheckConsumerBudget
  <2>4. CASE Fetch(c)
    <3>1. PICK p \in Cost : /\ cost' = [cost EXCEPT ![c] = p]
                            /\ CheckConsumerBudget(p) /\ PassesBudget(c)
      BY <1>0, <1>4, <2>4 DEF Fetch, End, Becomes, Passed, AutonomyTypeOK
    <3> QED
      BY <2>2, <2>4, <3>1 DEF CheckConsumerBudget
  <2> QED
    BY <2>3, <2>4
<1> QED
  BY <1>1, <1>2, <1>3, <1>4 DEF Passes

\* The AutoRequestor's steps, the failures, the owner, the relay and the recovery.
LEMMA OthersIdle ==
    ASSUME AutonomyStrong, NEW c \in Call,
           \/ Direct(c) \/ Search(c) \/ NoPeer(c) \/ Fails(c) \/ Recover(c)
           \/ RelayHolds(c) \/ RelaySettles(c) \/ RelayRefunds(c)
           \/ \E r \in {"approved", "rejected"} : OwnerResolves(c, r)
    PROVE  Idle(c)
<1>0. AutonomyTypeOK /\ CallOK(c)
  BY Known
<1> USE DEF AutonomyTypeOK, CallOK, Idle, Passed, Becomes, End, Logs
<1>1. CASE Direct(c)
  BY <1>0, <1>1 DEF Direct
<1>2. CASE Search(c)
  BY <1>0, <1>2 DEF Search
<1>3. CASE NoPeer(c)
  BY <1>0, <1>3 DEF NoPeer, FailsEarly
<1>4. CASE RelayFails(c)
  BY <1>0, <1>4 DEF RelayFails
<1>5. CASE PeerFails(c)
  BY <1>0, <1>5 DEF PeerFails
<1>6. CASE FindsReleased(c)
  BY <1>0, <1>6 DEF FindsReleased
<1>7. CASE Recover(c)
  BY <1>0, <1>7 DEF Recover
<1>8. CASE \E r \in {"approved", "rejected"} : OwnerResolves(c, r)
  BY <1>0, <1>8 DEF OwnerResolves
<1>9. CASE RelayHolds(c)
  BY <1>0, <1>9 DEF RelayHolds
<1>10. CASE RelaySettles(c) \/ RelayRefunds(c)
  BY <1>0, <1>10 DEF RelaySettles, RelayRefunds
<1> QED
  BY <1>1, <1>2, <1>3, <1>4, <1>5, <1>6, <1>7, <1>8, <1>9, <1>10 DEF Fails

\* The resolution of a target spends nothing yet.
LEMMA ResolveIdle ==
    ASSUME AutonomyStrong, NEW c \in Call, NEW p \in Cost, Resolve(c, p)
    PROVE  Idle(c)
<1>0. AutonomyTypeOK /\ CallOK(c)
  BY Known
<1>1. /\ phase[c] = "resolving" /\ cost' = [cost EXCEPT ![c] = p]
      /\ UNCHANGED <<mode, max, session, overlapped>>
  BY DEF Resolve
<1>2. /\ \E q \in Passed \cup {"ended"} : phase' = [phase EXCEPT ![c] = q]
      /\ UNCHANGED relay \/ relay' = [relay EXCEPT ![c] = "asked"]
      /\ UNCHANGED outcome \/ \E r \in Outcome \ {"success"} : outcome' = [outcome EXCEPT ![c] = r]
      /\ UNCHANGED escrow \/ escrow' = [escrow EXCEPT ![c] = "held"]
  BY DEF Resolve, TierThree, OverFloor, PaidRelay, LocalTarget, FailsEarly, Asks, Becomes, End,
         Passed, Outcome
<1> QED
  BY <1>0, <1>1, <1>2 DEF Idle, AutonomyTypeOK, CallOK, Passed

\* An answer is recorded as spent, or its row cannot be written.
LEMMA AnswersWin ==
    ASSUME AutonomyStrong, NEW c \in Call, Answers(c)
    PROVE  Wins(c) \/ Idle(c)
<1>0. AutonomyTypeOK /\ CallOK(c)
  BY Known
<1>1. CASE RelayAnswers(c) /\ End(c, "success")
  <2>1. /\ outcome[c] # "success" /\ phase[c] \in Passed /\ session' = Spent(cost[c])
        /\ relay[c] = "settled" \/ cost[c] = 0
    BY <1>0, <1>1 DEF RelayAnswers, CallOK, Passed, End, AutonomyTypeOK
  <2> QED
    BY <1>0, <1>1, <2>1 DEF RelayAnswers, Wins, End, Becomes, AutonomyTypeOK
<1>2. CASE PeerAnswers(c) /\ End(c, "success")
  <2>1. outcome[c] # "success" /\ phase[c] \in Passed /\ session' = Spent(cost[c])
    BY <1>0, <1>2 DEF PeerAnswers, CallOK, Passed, End, AutonomyTypeOK
  <2> QED
    BY <1>0, <1>2, <2>1 DEF PeerAnswers, Wins, End, Becomes, AutonomyTypeOK
<1>3. CASE RelayAnswers(c) /\ ~End(c, "success")
  BY <1>0, <1>3 DEF RelayAnswers, Idle, End, Becomes, AutonomyTypeOK, CallOK, Passed
<1>4. CASE PeerAnswers(c) /\ ~End(c, "success")
  BY <1>0, <1>4 DEF PeerAnswers, Idle, End, Becomes, AutonomyTypeOK, CallOK, Passed
<1> QED
  BY <1>1, <1>2, <1>3, <1>4 DEF Answers

\* Every step keeps the session's record.
LEMMA SpendKeeps ==
    ASSUME AutonomyStrong, AutonomyStrong', SpendStrong, [AutonomyNext]_autonomyVars
    PROVE  SpendStrong'
<1>0. AutonomyTypeOK /\ AutonomyTypeOK'
  BY DEF AutonomyStrong
<1>1. CASE UNCHANGED autonomyVars
  <2>1. UNCHANGED <<phase, mode, max, cost, escrow, relay, outcome, session, overlapped>>
    BY <1>1 DEF autonomyVars, callVars
  <2>2. SumOf(cost, Won)' = SumOf(cost, Won) /\ Won' = Won
    BY <2>1 DEF Won
  <2>3. SumOf(Beyond, Won)' = SumOf(Beyond, Won)
    <3>1. Beyond' = Beyond
      BY <2>1 DEF Beyond
    <3> QED
      BY <2>2, <3>1
  <2> QED
    BY <2>1, <2>2, <2>3 DEF SpendStrong, AloneOK, ChargedOK, Limit, Overrun
<1>2. ASSUME NEW c \in Call,
             Idle(c) \/ Passes(c) \/ Wins(c)
      PROVE  SpendStrong'
  BY <1>0, <1>2, IdleKeeps, PassesKeeps, WinsKeeps
<1>3. CASE AutonomyNext
  <2>1. PICK c \in Call :
           \/ \E m \in MaxCost : Query(c, m)
           \/ Direct(c) \/ Fetch(c) \/ Search(c) \/ NoPeer(c)
           \/ \E p \in Cost : Resolve(c, p)
           \/ Answers(c) \/ Fails(c)
           \/ \E r \in {"approved", "rejected"} : OwnerResolves(c, r)
           \/ Recover(c)
           \/ RelayHolds(c) \/ RelaySettles(c) \/ RelayRefunds(c)
    BY <1>3 DEF AutonomyNext
  <2> QED
    BY <1>2, <2>1, ChecksPass, OthersIdle, ResolveIdle, AnswersWin
<1> QED
  BY <1>1, <1>3

\* The session's record holds throughout.
LEMMA SpendHolds == AutonomySpec => []SpendStrong
<1>1. AutonomyInit => SpendStrong
  <2> SUFFICES ASSUME AutonomyInit PROVE SpendStrong
    OBVIOUS
  <2>1. Won = {}
    BY DEF Won, AutonomyInit
  <2>2. IsFiniteSet(Won) /\ SumOf(cost, Won) = 0 /\ SumOf(Beyond, Won) = 0
    BY <2>1, FS_EmptySet, SumEmpty
  <2>3. session.totalSpent = 0 /\ SessionBudget \in Nat
    BY AutonomyAssumption DEF AutonomyInit
  <2>4. \A c \in Call : AloneOK(c) /\ ChargedOK(c)
    BY DEF AutonomyInit, AloneOK, ChargedOK, Passed
  <2> QED
    BY <2>2, <2>3, <2>4 DEF SpendStrong, Overrun
<1>2. AutonomyStrong /\ AutonomyStrong' /\ SpendStrong /\ [AutonomyNext]_autonomyVars
         => SpendStrong'
  BY SpendKeeps
<1> QED
  BY <1>1, <1>2, AutonomyStrongHolds, PTL DEF AutonomySpec

\* The session's record is the sum of the prices of the calls that reported
\* success, and each of them was really charged (request.ts:143, :276, :324).
THEOREM SessionSpendIsReal == AutonomySpec => []SpendIsReal
<1>1. SpendStrong => SpendIsReal
  BY DEF SpendStrong, SpendIsReal, ChargedOK, SumOf, Won
<1> QED
  BY <1>1, SpendHolds, PTL

\* The session budget is overrun only by calls that passed its check while
\* others were unpaid and by queries whose target cost more than their limit,
\* and by no more than these took (consumer-autonomy.ts:121, request.ts:93).
THEOREM SessionOverrunNeedsARace == AutonomySpec => []OverrunNeedsARace
<1>1. SpendStrong => OverrunNeedsARace
  BY DEF SpendStrong, Overrun, OverrunNeedsARace, SumOf, Won
<1> QED
  BY <1>1, SpendHolds, PTL

-----------------------------------------------------------------------------
(* The validator: Kahn's algorithm                                         *)

\* The first n rounds of the algorithm.
Iterates(h, g, n) ==
    h[0] = Begin(g) /\ \A i \in Nat : i < n => h[i + 1] = Round(g, h[i])

\* The rounds can be played one after the other.
LEMMA IteratesExist ==
    ASSUME NEW g, NEW n \in Nat
    PROVE  \E h : Iterates(h, g, n)
<1> DEFINE Bad == {m \in Nat : ~ \E h : Iterates(h, g, m)}
<1> SUFFICES ASSUME Bad # {} PROVE FALSE
  OBVIOUS
<1>1. PICK m \in Bad : \A k \in Bad : m <= k
  <2>1. Bad \in SUBSET Nat
    OBVIOUS
  <2> HIDE DEF Bad
  <2> QED
    BY <2>1, LeastNumber
<1>2. m \in Nat /\ ~ \E h : Iterates(h, g, m)
  OBVIOUS
<1>3. CASE m = 0
  <2>1. Iterates([i \in Nat |-> Begin(g)], g, 0)
    BY DEF Iterates
  <2> QED
    BY <1>2, <1>3, <2>1
<1>4. CASE m # 0
  <2>1. m - 1 \in Nat /\ ~ (m <= m - 1)
    BY <1>2, <1>4
  <2>2. PICK h : Iterates(h, g, m - 1)
    BY <1>1, <2>1
  <2> DEFINE j == [i \in Nat |-> IF i = m THEN Round(g, h[m - 1]) ELSE h[i]]
  <2>3. j[0] = Begin(g)
    BY <1>2, <1>4, <2>2 DEF Iterates
  <2>4. ASSUME NEW i \in Nat, i < m
        PROVE  j[i + 1] = Round(g, j[i])
    <3>1. j[i] = h[i]
      BY <2>4
    <3>2. CASE i = m - 1
      BY <1>2, <3>1, <3>2
    <3>3. CASE i # m - 1
      <4>1. i < m - 1 /\ i + 1 # m /\ i + 1 \in Nat
        BY <1>2, <2>4, <3>3
      <4>2. j[i + 1] = h[i + 1]
        BY <4>1
      <4>3. h[i + 1] = Round(g, h[i])
        BY <2>2, <4>1 DEF Iterates
      <4> QED
        BY <3>1, <4>2, <4>3
    <3> QED
      BY <3>2, <3>3
  <2> HIDE DEF j
  <2>5. Iterates(j, g, m)
    BY <2>3, <2>4 DEF Iterates
  <2> QED
    BY <1>2, <2>5
<1> QED
  BY <1>3, <1>4

\* However they are played, they come out the same.
LEMMA IteratesAgree ==
    \A g, h, j : \A n, m \in Nat :
       Iterates(h, g, n) /\ Iterates(j, g, m) =>
          \A i \in Nat : i <= n /\ i <= m => h[i] = j[i]
<1> SUFFICES ASSUME NEW g, NEW h, NEW j, NEW n \in Nat, NEW m \in Nat,
                    Iterates(h, g, n), Iterates(j, g, m)
             PROVE  \A i \in Nat : i <= n /\ i <= m => h[i] = j[i]
  OBVIOUS
<1> DEFINE Bad == {i \in Nat : i <= n /\ i <= m /\ h[i] # j[i]}
<1> SUFFICES ASSUME Bad # {} PROVE FALSE
  OBVIOUS
<1>1. PICK i \in Bad : \A k \in Bad : i <= k
  <2>1. Bad \in SUBSET Nat
    OBVIOUS
  <2> HIDE DEF Bad
  <2> QED
    BY <2>1, LeastNumber
<1>2. i \in Nat /\ i <= n /\ i <= m /\ h[i] # j[i]
  OBVIOUS
<1>3. i # 0
  BY <1>2 DEF Iterates
<1>4. i - 1 \in Nat /\ i - 1 < n /\ i - 1 < m /\ ~ (i <= i - 1) /\ (i - 1) + 1 = i
  BY <1>2, <1>3
<1>5. h[i - 1] = j[i - 1]
  BY <1>1, <1>4
<1>6. h[(i - 1) + 1] = Round(g, h[i - 1]) /\ j[(i - 1) + 1] = Round(g, j[i - 1])
  BY <1>4 DEF Iterates
<1> QED
  BY <1>2, <1>4, <1>5, <1>6

\* The recursive definition of the algorithm is one: it starts as it should
\* and every round follows from the one before.
LEMMA KahnUnfolds ==
    ASSUME NEW g
    PROVE  /\ Kahn(g)[0] = Begin(g)
           /\ \A n \in Nat : Kahn(g)[n + 1] = Round(g, Kahn(g)[n])
<1> DEFINE it(n) == CHOOSE h : Iterates(h, g, n)
           K == [n \in Nat |-> it(n)[n]]
           next(f) == [n \in Nat |-> IF n = 0 THEN Begin(g) ELSE Round(g, f[n - 1])]
<1>1. \A n \in Nat : Iterates(it(n), g, n)
  BY IteratesExist
<1>2. K[0] = Begin(g)
  BY <1>1 DEF Iterates
<1>3. ASSUME NEW n \in Nat
      PROVE  K[n + 1] = Round(g, K[n])
  <2>1. Iterates(it(n + 1), g, n + 1) /\ Iterates(it(n), g, n) /\ n + 1 \in Nat
    BY <1>1
  <2>2. it(n + 1)[n] = it(n)[n]
    <3> HIDE DEF it
    <3>1. n <= n + 1 /\ n <= n
      OBVIOUS
    <3> QED
      BY <2>1, <3>1, IteratesAgree
  <2>3. it(n + 1)[n + 1] = Round(g, it(n + 1)[n])
    <3> HIDE DEF it
    <3>1. n < n + 1
      OBVIOUS
    <3> QED
      BY <2>1, <3>1 DEF Iterates
  <2> HIDE DEF it
  <2> QED
    BY <2>1, <2>2, <2>3
<1> HIDE DEF it
<1>4. K = next(K)
  <2>1. ASSUME NEW n \in Nat
        PROVE  K[n] = IF n = 0 THEN Begin(g) ELSE Round(g, K[n - 1])
    <3>1. CASE n = 0
      BY <1>2, <3>1
    <3>2. CASE n # 0
      <4>1. n - 1 \in Nat /\ (n - 1) + 1 = n
        BY <3>2
      <4>2. K[(n - 1) + 1] = Round(g, K[n - 1])
        BY <1>3, <4>1
      <4> HIDE DEF K
      <4> QED
        BY <3>2, <4>1, <4>2
    <3> HIDE DEF K
    <3> QED
      BY <3>1, <3>2
  <2>2. K = [n \in Nat |-> K[n]]
    OBVIOUS
  <2> HIDE DEF K
  <2>3. next(K) = [n \in Nat |-> K[n]]
    BY <2>1
  <2> QED
    BY <2>2, <2>3
<1> HIDE DEF K
<1>5. Kahn(g) = next(Kahn(g))
  <2>1. Kahn(g) = CHOOSE f : f = next(f)
    BY DEF Kahn
  <2> HIDE DEF next
  <2> QED
    BY <1>4, <2>1
<1>6. Kahn(g)[0] = next(Kahn(g))[0]
  BY <1>5
<1>7. \A n \in Nat : Kahn(g)[n + 1] = next(Kahn(g))[n + 1]
  BY <1>5
<1>8. \A n \in Nat : n + 1 \in Nat /\ n + 1 # 0 /\ (n + 1) - 1 = n
  OBVIOUS
<1> QED
  BY <1>6, <1>7, <1>8

\* The tasks that have been through the queue.
Through(k) == k.seen \ k.queue

\* Some task of every set waits for no other of the set.
NoCycle(g) ==
    \A S \in (SUBSET Task) \ {{}} : \E t \in S : g[t] \cap S = {}

\* After n rounds: the degrees count the dependencies that have not been
\* through, the tasks with none left have been queued, and a set of tasks that
\* wait for one another has not been entered.
KahnOK(g, k, n) ==
    /\ k.queue \subseteq k.seen /\ k.seen \subseteq Task
    /\ \A t \in Task :
          /\ k.degree[t] = Cardinality((g[t] \cap Task) \ Through(k))
          /\ t \in k.seen <=> g[t] \cap Task \subseteq Through(k)
    /\ k.processed = Cardinality(Through(k))
    /\ k.queue = {} \/ k.processed = n
    /\ \A S \in SUBSET Task :
          S \cap Through(k) # {} => \E t \in S : g[t] \cap S = {}

\* Sets of tasks are finite, and only the empty one has no task.
LEMMA TaskSets ==
    ASSUME NEW S, S \subseteq Task
    PROVE  /\ IsFiniteSet(S) /\ Cardinality(S) \in Nat
           /\ Cardinality(S) = 0 <=> S = {}
           /\ \A x : x \in S => Cardinality(S \ {x}) = Cardinality(S) - 1
<1>1. IsFiniteSet(S)
  BY PipelineAssumption, FS_Subset
<1> QED
  BY <1>1, FS_CardinalityType, FS_EmptySet, FS_RemoveElement

\* The algorithm begins as it should.
LEMMA KahnBegins ==
    ASSUME NEW g \in Graph
    PROVE  KahnOK(g, Begin(g), 0)
<1> DEFINE k == Begin(g)
<1>1. /\ k.queue = {t \in Task : g[t] \cap Task = {}} /\ k.seen = k.queue
      /\ k.degree = [t \in Task |-> Cardinality(g[t] \cap Task)]
      /\ k.processed = 0
  BY DEF Begin
<1> HIDE DEF k
<1>2. Through(k) = {}
  BY <1>1 DEF Through
<1>3. Cardinality({}) = 0
  BY FS_EmptySet
<1>4. \A t \in Task : (g[t] \cap Task) \ Through(k) = g[t] \cap Task
  BY <1>2
<1>5. \A t \in Task : /\ k.degree[t] = Cardinality((g[t] \cap Task) \ Through(k))
                      /\ t \in k.seen <=> g[t] \cap Task \subseteq Through(k)
  BY <1>1, <1>2, <1>4
<1>6. KahnOK(g, k, 0)
  BY <1>1, <1>2, <1>3, <1>5 DEF KahnOK
<1> QED
  BY <1>6 DEF k

\* A round takes one task through the queue.
LEMMA KahnProceeds ==
    ASSUME NEW g \in Graph, NEW k, NEW n \in Nat, KahnOK(g, k, n)
    PROVE  KahnOK(g, Round(g, k), n + 1)
<1>1. CASE k.queue = {}
  BY <1>1 DEF Round, KahnOK
<1>2. CASE k.queue # {}
  <2> DEFINE c == CHOOSE t \in k.queue : TRUE
             neighbours == {t \in Task : c \in g[t]}
             degree == [t \in Task |->
                          IF t \in neighbours THEN k.degree[t] - 1 ELSE k.degree[t]]
             free == {t \in neighbours : degree[t] = 0}
             m == Round(g, k)
             open(t) == (g[t] \cap Task) \ Through(k)
  <2>1. c \in k.queue
    BY <1>2
  <2>2. /\ m.queue = (k.queue \ {c}) \cup free /\ m.degree = degree
        /\ m.seen = k.seen \cup free /\ m.processed = k.processed + 1
    BY <1>2 DEF Round
  <2> HIDE DEF c, m
  <2>3. /\ c \in Task /\ c \in k.seen /\ c \notin Through(k)
        /\ k.queue \subseteq k.seen /\ k.seen \subseteq Task
        /\ g[c] \cap Task \subseteq Through(k) /\ Through(k) \subseteq Task
    BY <2>1 DEF KahnOK, Through
  <2>4. ASSUME NEW t \in Task
        PROVE  /\ k.degree[t] = Cardinality(open(t)) /\ open(t) \subseteq Task
               /\ t \in neighbours => c \in open(t) /\ t \notin k.seen
               /\ t \notin neighbours => c \notin open(t)
    BY <2>3 DEF KahnOK
  <2>5. free \cap k.seen = {} /\ c \notin free
    BY <2>3, <2>4
  <2>6. Through(m) = Through(k) \cup {c}
    <3> HIDE DEF free
    <3> QED
      BY <2>1, <2>2, <2>3, <2>5 DEF Through
  <2>7. ASSUME NEW t \in Task
        PROVE  /\ m.degree[t] = Cardinality((g[t] \cap Task) \ Through(m))
               /\ t \in m.seen <=> g[t] \cap Task \subseteq Through(m)
    <3>1. (g[t] \cap Task) \ Through(m) = open(t) \ {c}
      BY <2>6
    <3>2. /\ Cardinality(open(t)) \in Nat
          /\ c \in open(t) => Cardinality(open(t) \ {c}) = Cardinality(open(t)) - 1
          /\ Cardinality(open(t) \ {c}) = 0 <=> open(t) \ {c} = {}
      <4>1. open(t) \subseteq Task /\ open(t) \ {c} \subseteq Task
        OBVIOUS
      <4> HIDE DEF open
      <4> QED
        BY <4>1, TaskSets
    <3>3. /\ k.degree[t] = Cardinality(open(t))
          /\ t \in neighbours => c \in open(t) /\ t \notin k.seen
          /\ t \notin neighbours => c \notin open(t)
      BY <2>4
    <3>4. m.degree[t] = IF t \in neighbours THEN k.degree[t] - 1 ELSE k.degree[t]
      BY <2>2
    <3>5. t \in free <=> t \in neighbours /\ m.degree[t] = 0
      BY <2>2
    <3>6. t \in m.seen <=> t \in k.seen \/ t \in free
      BY <2>2
    <3>7. g[t] \cap Task \subseteq Through(m) <=> open(t) \ {c} = {}
      BY <2>6
    <3>8. t \in k.seen <=> open(t) = {}
      BY DEF KahnOK
    <3> HIDE DEF open, neighbours, free, degree
    <3>9. m.degree[t] = Cardinality(open(t) \ {c})
      <4>1. CASE t \in neighbours
        BY <3>2, <3>3, <3>4, <4>1
      <4>2. CASE t \notin neighbours
        <5>1. open(t) \ {c} = open(t)
          BY <3>3, <4>2
        <5> QED
          BY <3>3, <3>4, <4>2, <5>1
      <4> QED
        BY <4>1, <4>2
    <3>10. t \in m.seen <=> open(t) \ {c} = {}
      <4>1. CASE t \in neighbours
        BY <3>2, <3>3, <3>5, <3>6, <3>9, <4>1
      <4>2. CASE t \notin neighbours
        BY <3>3, <3>5, <3>6, <3>8, <4>2
      <4> QED
        BY <4>1, <4>2
    <3> QED
      BY <3>1, <3>7, <3>9, <3>10
  <2>8. m.processed = Cardinality(Through(m)) /\ m.processed = n + 1
    <3>1. Cardinality(Through(m) \ {c}) = Cardinality(Through(m)) - 1
      BY <2>3, <2>6, TaskSets
    <3>2. Through(m) \ {c} = Through(k)
      BY <2>3, <2>6
    <3>3. Cardinality(Through(m)) \in Nat
      BY <2>3, <2>6, TaskSets
    <3>4. k.processed = Cardinality(Through(k)) /\ k.processed = n
      BY <1>2 DEF KahnOK
    <3>5. m.processed = Cardinality(Through(m) \ {c}) + 1
      BY <2>2, <3>2, <3>4
    <3>6. m.processed = n + 1
      BY <2>2, <3>4
    <3> QED
      BY <3>1, <3>3, <3>5, <3>6
  <2>9. ASSUME NEW S \in SUBSET Task, S \cap Through(m) # {}
        PROVE  \E t \in S : g[t] \cap S = {}
    <3>1. CASE S \cap Through(k) # {}
      BY <3>1 DEF KahnOK
    <3>2. CASE S \cap Through(k) = {}
      <4>1. c \in S
        BY <2>6, <2>9, <3>2
      <4>2. g[c] \cap S = {}
        BY <2>3, <3>2
      <4> QED
        BY <4>1, <4>2
    <3> QED
      BY <3>1, <3>2
  <2>10. m.queue \subseteq m.seen /\ m.seen \subseteq Task
    <3>1. free \subseteq Task
      OBVIOUS
    <3> HIDE DEF free
    <3> QED
      BY <2>2, <2>3, <3>1
  <2> HIDE DEF free, neighbours, degree
  <2>11. KahnOK(g, m, n + 1)
    BY <2>7, <2>8, <2>9, <2>10 DEF KahnOK
  <2> QED
    BY <2>11 DEF m
<1> QED
  BY <1>1, <1>2

\* So the invariant holds after every number of rounds.
LEMMA KahnHolds ==
    ASSUME NEW g \in Graph, NEW n \in Nat
    PROVE  KahnOK(g, Kahn(g)[n], n)
<1> DEFINE Bad == {m \in Nat : ~ KahnOK(g, Kahn(g)[m], m)}
<1> SUFFICES ASSUME Bad # {} PROVE FALSE
  OBVIOUS
<1>1. PICK m \in Bad : \A k \in Bad : m <= k
  <2>1. Bad \in SUBSET Nat
    OBVIOUS
  <2> HIDE DEF Bad
  <2> QED
    BY <2>1, LeastNumber
<1>2. m # 0
  BY KahnUnfolds, KahnBegins
<1>3. m - 1 \in Nat /\ ~ (m <= m - 1) /\ (m - 1) + 1 = m
  BY <1>2
<1>4. KahnOK(g, Kahn(g)[m - 1], m - 1)
  BY <1>1, <1>3
<1>5. Kahn(g)[(m - 1) + 1] = Round(g, Kahn(g)[m - 1])
  BY <1>3, KahnUnfolds
<1>6. KahnOK(g, Round(g, Kahn(g)[m - 1]), (m - 1) + 1)
  BY <1>3, <1>4, KahnProceeds
<1>7. KahnOK(g, Kahn(g)[m], m)
  BY <1>3, <1>5, <1>6
<1> QED
  BY <1>7

\* Kahn's algorithm processes every task exactly when there is no cycle.
LEMMA KahnIsExact ==
    ASSUME NEW g \in Graph
    PROVE  Processed(g) = Cardinality(Task) <=> NoCycle(g)
<1> DEFINE N == Cardinality(Task)
           k == Kahn(g)[N]
<1>1. IsFiniteSet(Task) /\ N \in Nat
  BY PipelineAssumption, FS_CardinalityType
<1>2. KahnOK(g, k, N)
  BY <1>1, KahnHolds
<1>3. Processed(g) = k.processed
  BY DEF Processed
<1> HIDE DEF k
<1>4. Through(k) \subseteq Task /\ k.processed = Cardinality(Through(k))
  BY <1>2 DEF KahnOK, Through
<1>5. ASSUME k.processed = N
      PROVE  NoCycle(g)
  <2>1. Through(k) = Task
    BY <1>1, <1>4, <1>5, FS_Subset
  <2> SUFFICES ASSUME NEW S \in SUBSET Task, S # {}
               PROVE  \E t \in S : g[t] \cap S = {}
    BY DEF NoCycle
  <2>2. S \cap Through(k) # {}
    BY <2>1
  <2> QED
    BY <1>2, <2>2 DEF KahnOK
<1>6. ASSUME NoCycle(g), k.processed # N
      PROVE  FALSE
  <2>1. Through(k) # Task
    BY <1>4, <1>6
  <2>2. k.queue = {} /\ Through(k) = k.seen
    BY <1>2, <1>6 DEF KahnOK, Through
  <2>3. PICK t \in Task \ Through(k) : g[t] \cap (Task \ Through(k)) = {}
    BY <1>4, <1>6, <2>1 DEF NoCycle
  <2>4. g[t] \cap Task \subseteq Through(k)
    BY <2>3
  <2>5. t \in Task /\ t \notin k.seen
    BY <2>2, <2>3
  <2>6. t \in k.seen <=> g[t] \cap Task \subseteq Through(k)
    BY <1>2, <2>5 DEF KahnOK
  <2> QED
    BY <2>4, <2>5, <2>6
<1> QED
  BY <1>3, <1>5, <1>6

\* What the validator accepts: known references, and no cycle.
LEMMA AcceptableIsExact ==
    ASSUME NEW g \in Graph
    PROVE  Acceptable(g) <=> g \in [Task -> SUBSET Task] /\ NoCycle(g)
<1>1. (\A t \in Task : Unknown \notin g[t]) <=> g \in [Task -> SUBSET Task]
  BY PipelineAssumption DEF Graph
<1> QED
  BY <1>1, KahnIsExact DEF Acceptable

\* The rule engine's templates have no cycle.
LEMMA TemplatesAreSound ==
    \A g \in Templates : g \in [Task -> SUBSET Task] /\ NoCycle(g)
<1>1. [Task -> SUBSET Task] \subseteq Graph
  BY DEF Graph
<1> QED
  BY <1>1, TemplatesAssumption, AcceptableIsExact

-----------------------------------------------------------------------------
(* The run                                                                 *)

\* Where a sub-task is, and what that says of the tasks it depends on.
TaskOK(t) ==
    /\ status[t] = "waiting" <=> t \notin placed
    /\ t \in placed => deps[t] \subseteq placed
    /\ status[t] \in Running => stage = "wave"
    /\ status[t] = "batch" => t \in batched
    /\ status[t] \in {"failed", "skipped"} => errors
    /\ t \in retried => status[t] = "ok"
    /\ status[t] \in Running \cup {"ok"} => \A d \in deps[t] : status[d] \in Ended

\* The inductive invariant.
PipelineStrong ==
    /\ PipelineTypeOK
    /\ NoCycle(deps)
    /\ \A t \in Task : TaskOK(t)
    /\ placed # {} => stage \in {"ready", "wave", "done", "thrown"}
    /\ stage = "done" /\ ~errors => placed = Task
    /\ stage \in {"ready", "wave", "done"} => Estimated <= MaxBudget
    /\ total = SumOver(Booked, Answered)

\* SumOver is the sum of SumTheorems.
LEMMA SumOverIs ==
    ASSUME NEW f, NEW S
    PROVE  SumOver(f, S) = SumOf(f, S)
BY DEF SumOver, SumOf

\* The prices are numbers, and the sub-tasks that are answered are tasks.
LEMMA PricesAreNumbers ==
    ASSUME PipelineTypeOK
    PROVE  /\ \A t \in Task : /\ Booked[t] \in Nat /\ Asked[t] \in Nat /\ offer[t].cost \in Nat
                              /\ offer[t].alt \in Nat /\ offer[t] \in Offer
           /\ Answered \subseteq Task /\ IsFiniteSet(Answered)
           /\ Fee \in Nat /\ MaxBudget \in Nat /\ Available \in Nat
<1>1. \A t \in Task : /\ offer[t] \in Offer /\ offer[t].cost \in Nat
                     /\ offer[t].alt \in Nat /\ offer[t].ask \in Nat
  BY PipelineAssumption DEF PipelineTypeOK
<1>2. Answered \subseteq Task /\ IsFiniteSet(Answered)
  BY PipelineAssumption, FS_Subset DEF Answered
<1> QED
  BY <1>1, <1>2, PipelineAssumption DEF Booked, Asked

\* The tasks and the matches of a run are given, no task has been placed.
LEMMA PipelineInitOK ==
    PipelineInit => PipelineStrong
<1> SUFFICES ASSUME PipelineInit PROVE PipelineStrong
  OBVIOUS
<1>1. PipelineTypeOK
  BY DEF PipelineInit, PipelineTypeOK
<1>2. \A t \in Task : TaskOK(t)
  BY DEF PipelineInit, TaskOK, Running
<1>3. Answered = {}
  BY DEF PipelineInit, Answered
<1>4. total = SumOver(Booked, Answered)
  BY <1>3, SumOverIs, SumEmpty DEF PipelineInit
<1>5. NoCycle(deps)
  BY DEF PipelineInit, NoCycle
<1> QED
  BY <1>1, <1>2, <1>4, <1>5 DEF PipelineInit, PipelineStrong

\* The steps before the first wave send nothing.
LEMMA RefuseOK ==
    ASSUME PipelineStrong, Refuse
    PROVE  PipelineStrong'
<1> USE DEF Refuse, PipelineStrong
<1>1. PipelineTypeOK'
  BY DEF PipelineTypeOK
<1>2. \A t \in Task : TaskOK(t)'
  BY DEF TaskOK
<1>3. placed = {}
  OBVIOUS
<1>4. (total = SumOver(Booked, Answered))'
  BY DEF Booked, Answered
<1>5. NoCycle(deps)'
  BY DEF NoCycle
<1> QED
  BY <1>1, <1>2, <1>3, <1>4, <1>5

\* What is decomposed has no cycle, whoever decomposed it.
LEMMA DecomposeOK ==
    ASSUME PipelineStrong, Decompose
    PROVE  PipelineStrong'
<1> USE DEF Decompose, PipelineStrong
<1>1. deps' \in [Task -> SUBSET Task] /\ NoCycle(deps')
  <2>1. raw \in Graph
    BY DEF PipelineTypeOK
  <2>2. Acceptable(raw) => raw \in [Task -> SUBSET Task] /\ NoCycle(raw)
    BY <2>1, AcceptableIsExact
  <2> QED
    BY <2>2, TemplatesAreSound
<1>2. NoCycle(deps)'
  BY <1>1 DEF NoCycle
<1>3. PipelineTypeOK'
  BY <1>1 DEF PipelineTypeOK, Graph
<1>4. placed = {}
  OBVIOUS
<1>5. \A t \in Task : TaskOK(t)'
  BY <1>4 DEF TaskOK, Running
<1>6. (total = SumOver(Booked, Answered))'
  BY DEF Booked, Answered
<1> QED
  BY <1>2, <1>3, <1>4, <1>5, <1>6

\* A run goes on only if the estimate is within the budget.
LEMMA CheckBudgetOK ==
    ASSUME PipelineStrong, CheckBudget
    PROVE  PipelineStrong'
<1> USE DEF CheckBudget, PipelineStrong
<1>1. PipelineTypeOK'
  BY DEF PipelineTypeOK
<1>2. placed = {}
  OBVIOUS
<1>3. \A t \in Task : TaskOK(t)'
  BY <1>2 DEF TaskOK
<1>4. (total = SumOver(Booked, Answered))'
  BY DEF Booked, Answered
<1>5. (stage \in {"ready", "wave", "done"} => Estimated <= MaxBudget)'
  <2>1. stage' \in {"refused", IF CanExecute THEN "ready" ELSE "refused"}
    OBVIOUS
  <2>2. Estimated' = Estimated
    BY DEF Estimated
  <2> QED
    BY <2>1, <2>2 DEF CanExecute
<1>6. NoCycle(deps)'
  BY DEF NoCycle
<1> QED
  BY <1>1, <1>2, <1>3, <1>4, <1>5, <1>6

\* The tasks of a wave have all their dependencies behind them.
LEMMA StartWaveOK ==
    ASSUME PipelineStrong, StartWave
    PROVE  PipelineStrong'
<1> DEFINE runs == {t \in Wave : Affordable(t)}
           shared == {t \in runs : offer[t].site = "shared"}
           batch == IF Cardinality(shared) > 1 THEN shared ELSE {}
           gone == \E t \in runs : offer[t].site = "gone"
<1>1. /\ stage = "ready" /\ UNCHANGED <<raw, deps, offer, retried, total>>
      /\ gone => stage' = "thrown" /\ UNCHANGED <<placed, status, batched, errors>>
      /\ ~gone =>
            /\ stage' = "wave" /\ placed' = placed \cup Wave
            /\ status' = [t \in Task |->
                            IF t \in batch THEN "batch"
                            ELSE IF t \in runs THEN "primary"
                            ELSE IF t \in Wave THEN "skipped" ELSE status[t]]
            /\ batched' = batch
            /\ errors' = (errors \/ runs # Wave)
  BY DEF StartWave
<1>2. /\ batch \subseteq runs /\ runs \subseteq Wave /\ Wave \subseteq Task \ placed
      /\ \A t \in Wave : deps[t] \subseteq placed
  BY DEF Wave
<1> HIDE DEF runs, batch, gone
<1>3. NoCycle(deps)'
  BY <1>1 DEF PipelineStrong, NoCycle
<1>4. (stage \in {"ready", "wave", "done"} => Estimated <= MaxBudget)'
  BY <1>1 DEF PipelineStrong, Estimated
<1>5. CASE gone
  <2>1. PipelineTypeOK'
    BY <1>1, <1>5 DEF PipelineStrong, PipelineTypeOK
  <2>2. \A t \in Task : TaskOK(t)'
    BY <1>1, <1>5 DEF PipelineStrong, TaskOK
  <2>3. (total = SumOver(Booked, Answered))'
    BY <1>1, <1>5 DEF PipelineStrong, Booked, Answered
  <2> QED
    BY <1>1, <1>3, <1>4, <1>5, <2>1, <2>2, <2>3 DEF PipelineStrong
<1>6. CASE ~gone
  <2>1. \A t \in Task :
           /\ t \in batch => status'[t] = "batch"
           /\ t \in Wave => status'[t] \in {"batch", "primary", "skipped"}
           /\ t \notin Wave => status'[t] = status[t]
           /\ status'[t] = "batch" => t \in batch \/ status[t] = "batch"
           /\ status'[t] = "skipped" => runs # Wave \/ status[t] = "skipped"
    BY <1>1, <1>2, <1>6
  <2>2. PipelineTypeOK'
    <3>1. status' \in [Task -> {"waiting"} \cup Running \cup Ended]
      BY <1>1, <1>6 DEF PipelineStrong, PipelineTypeOK, Running, Ended
    <3>2. batched' \subseteq Task /\ placed' \subseteq Task /\ errors' \in BOOLEAN
      BY <1>1, <1>2, <1>6 DEF PipelineStrong, PipelineTypeOK
    <3> QED
      BY <1>1, <1>6, <3>1, <3>2 DEF PipelineStrong, PipelineTypeOK
  <2>3. \A t \in Task : status[t] \notin Running
    BY <1>1 DEF PipelineStrong, TaskOK
  <2>4. ASSUME NEW t \in Task PROVE TaskOK(t)'
    <3>1. TaskOK(t) /\ deps[t] \subseteq Task
      BY DEF PipelineStrong, PipelineTypeOK
    <3>2. (status[t] = "waiting" <=> t \notin placed)'
      BY <1>1, <1>2, <1>6, <2>1, <3>1 DEF TaskOK
    <3>3. (t \in placed => deps[t] \subseteq placed)'
      BY <1>1, <1>2, <1>6, <3>1 DEF TaskOK
    <3>4. (status[t] \in Running => stage = "wave")'
      BY <1>1, <1>6
    <3>5. (status[t] = "batch" => t \in batched)'
      BY <1>1, <1>6, <2>1, <2>3 DEF Running
    <3>6. (status[t] \in {"failed", "skipped"} => errors)'
      BY <1>1, <1>6, <2>1, <3>1 DEF TaskOK
    <3>7. (t \in retried => status[t] = "ok")'
      BY <1>1, <1>2, <1>6, <2>1, <3>1 DEF TaskOK
    <3>8. ASSUME status'[t] \in Running \cup {"ok"}, NEW d \in deps[t]
          PROVE  status'[d] \in Ended
      <4>1. deps[t] \subseteq placed
        BY <1>2, <2>1, <3>1, <3>8 DEF TaskOK, Running
      <4>2. d \in Task /\ d \notin Wave /\ status'[d] = status[d]
        BY <1>2, <2>1, <3>1, <4>1
      <4>3. status[d] \in Ended
        BY <2>3, <4>1, <4>2 DEF PipelineStrong, PipelineTypeOK, TaskOK
      <4> QED
        BY <4>2, <4>3
    <3> QED
      BY <1>1, <3>2, <3>3, <3>4, <3>5, <3>6, <3>7, <3>8 DEF TaskOK
  <2>5. (total = SumOver(Booked, Answered))'
    <3>1. Answered' = Answered
      <4>1. \A t \in Task : status'[t] = "ok" <=> status[t] = "ok"
        BY <1>2, <2>1 DEF PipelineStrong, TaskOK
      <4> QED
        BY <4>1 DEF Answered
    <3>2. Booked' = Booked
      BY <1>1 DEF Booked
    <3> QED
      BY <1>1, <3>1, <3>2 DEF PipelineStrong
  <2> QED
    BY <1>1, <1>3, <1>4, <1>6, <2>2, <2>4, <2>5 DEF PipelineStrong
<1> QED
  BY <1>5, <1>6

\* Without a cycle the waves end only when every task has been in one.
LEMMA FinishOK ==
    ASSUME PipelineStrong, Finish
    PROVE  PipelineStrong'
<1> USE DEF Finish, PipelineStrong
<1>1. PipelineTypeOK'
  BY DEF PipelineTypeOK
<1>2. \A t \in Task : TaskOK(t)'
  BY DEF TaskOK
<1>3. placed = Task
  <2> SUFFICES ASSUME placed # Task PROVE FALSE
    OBVIOUS
  <2>1. placed \subseteq Task /\ deps \in [Task -> SUBSET Task]
    BY DEF PipelineTypeOK
  <2>2. PICK t \in Task \ placed : deps[t] \cap (Task \ placed) = {}
    BY <2>1 DEF NoCycle
  <2>3. t \in Wave
    BY <2>1, <2>2 DEF Wave
  <2> QED
    BY <2>3
<1>4. (total = SumOver(Booked, Answered))'
  BY DEF Booked, Answered
<1>5. Estimated' = Estimated /\ NoCycle(deps)'
  BY DEF Estimated, NoCycle
<1> QED
  BY <1>1, <1>2, <1>3, <1>4, <1>5

\* A run that is broken off says so.
LEMMA AbortOK ==
    ASSUME PipelineStrong, Abort
    PROVE  PipelineStrong'
<1> USE DEF Abort, PipelineStrong
<1>1. PipelineTypeOK'
  BY DEF PipelineTypeOK
<1>2. \A t \in Task : TaskOK(t)'
  BY DEF TaskOK
<1>3. (total = SumOver(Booked, Answered))'
  BY DEF Booked, Answered
<1>4. Estimated' = Estimated /\ NoCycle(deps)'
  BY DEF Estimated, NoCycle
<1> QED
  BY <1>1, <1>2, <1>3, <1>4

\* A wave ends when each of its tasks has.
LEMMA EndWaveOK ==
    ASSUME PipelineStrong, EndWave
    PROVE  PipelineStrong'
<1> USE DEF EndWave, PipelineStrong
<1>1. PipelineTypeOK'
  BY DEF PipelineTypeOK
<1>2. ASSUME NEW t \in Task PROVE TaskOK(t)'
  <2>1. status[t] \notin Running
    <3>1. CASE t \in placed
      BY <3>1 DEF Running, Ended
    <3>2. CASE t \notin placed
      BY <3>2 DEF TaskOK, Running
    <3> QED
      BY <3>1, <3>2
  <2> QED
    BY <2>1 DEF TaskOK, Running
<1>3. (total = SumOver(Booked, Answered))'
  BY DEF Booked, Answered
<1>4. Estimated' = Estimated /\ NoCycle(deps)'
  BY DEF Estimated, NoCycle
<1> QED
  BY <1>1, <1>2, <1>3, <1>4

\* A batch that fails as a whole is sent again item by item.
LEMMA BatchFailsOK ==
    ASSUME PipelineStrong, BatchFails
    PROVE  PipelineStrong'
<1>1. /\ batched' = {} /\ \A t \in batched : status[t] = "batch"
      /\ status' = [t \in Task |-> IF t \in batched THEN "primary" ELSE status[t]]
      /\ UNCHANGED <<raw, deps, offer, stage, placed, retried, total, errors>>
  BY DEF BatchFails
<1>2. batched \subseteq Task
  BY DEF PipelineStrong, PipelineTypeOK
<1>3. \A t \in Task : /\ t \in batched => status'[t] = "primary" /\ status[t] = "batch"
                      /\ t \notin batched => status'[t] = status[t] /\ status[t] # "batch"
  BY <1>1 DEF PipelineStrong, TaskOK
<1>4. PipelineTypeOK'
  <2>1. status' \in [Task -> {"waiting"} \cup Running \cup Ended]
    BY <1>1 DEF PipelineStrong, PipelineTypeOK, Running
  <2> QED
    BY <1>1, <2>1 DEF PipelineStrong, PipelineTypeOK
<1>5. ASSUME NEW t \in Task PROVE TaskOK(t)'
  <2>1. TaskOK(t) /\ deps[t] \subseteq Task
    BY DEF PipelineStrong, PipelineTypeOK
  <2>2. /\ status'[t] \in Running <=> status[t] \in Running
        /\ status'[t] # "batch"
        /\ status'[t] \notin Running => status'[t] = status[t]
    BY <1>3 DEF Running
  <2>3. \A d \in Task : status[d] \in Ended => status'[d] = status[d]
    BY <1>3 DEF Ended
  <2>4. (status[t] \in Running \cup {"ok"} => \A d \in deps[t] : status[d] \in Ended)'
    BY <1>1, <2>1, <2>2, <2>3 DEF TaskOK
  <2> QED
    BY <1>1, <2>1, <2>2, <2>4 DEF TaskOK, Running
<1>6. (total = SumOver(Booked, Answered))'
  <2>1. Answered' = Answered
    BY <1>3 DEF Answered
  <2>2. Booked' = Booked
    BY <1>1 DEF Booked
  <2> QED
    BY <1>1, <2>1, <2>2 DEF PipelineStrong
<1>7. Estimated' = Estimated /\ (NoCycle(deps)' <=> NoCycle(deps))
  BY <1>1 DEF Estimated, NoCycle
<1> QED
  BY <1>1, <1>4, <1>5, <1>6, <1>7 DEF PipelineStrong

\* A running task is answered, fails, or is tried again: the others keep what
\* is known of them.
LEMMA OneTask ==
    ASSUME PipelineStrong, NEW t \in Task, status[t] \in Running,
           NEW x \in {"alternative"} \cup Ended,
           status' = [status EXCEPT ![t] = x],
           UNCHANGED <<raw, deps, offer, stage, placed, batched>>,
           errors' \in BOOLEAN, errors => errors', x \in {"failed", "skipped"} => errors',
           \/ retried' = retried
           \/ retried' = retried \cup {t} /\ x = "ok",
           total' \in Nat, total' = SumOver(Booked', Answered')
    PROVE  PipelineStrong'
<1>1. status \in [Task -> {"waiting"} \cup Running \cup Ended] /\ retried \subseteq Task
  BY DEF PipelineStrong, PipelineTypeOK
<1>2. status'[t] = x /\ \A u \in Task \ {t} : status'[u] = status[u]
  BY <1>1
<1>3. PipelineTypeOK'
  <2>1. status' \in [Task -> {"waiting"} \cup Running \cup Ended]
    BY <1>1 DEF Running
  <2>2. retried' \subseteq Task
    BY <1>1
  <2> QED
    BY <2>1, <2>2 DEF PipelineStrong, PipelineTypeOK
<1>4. stage = "wave" /\ t \in placed
  BY DEF PipelineStrong, TaskOK, Running
<1>5. ASSUME NEW u \in Task PROVE TaskOK(u)'
  <2>1. TaskOK(u) /\ TaskOK(t) /\ deps[u] \subseteq Task
    BY DEF PipelineStrong, PipelineTypeOK
  <2>2. \A d \in Task : status[d] \in Ended => status'[d] = status[d]
    BY <1>2 DEF Running, Ended
  <2>3. status'[u] \in Running \cup {"ok"} => status[u] \in Running \cup {"ok"}
    BY <1>2
  <2>4. (status[u] \in Running \cup {"ok"} => \A d \in deps[u] : status[d] \in Ended)'
    BY <2>1, <2>2, <2>3 DEF TaskOK
  <2>5. CASE u = t
    <3>1. (u \in retried => status[u] = "ok")'
      BY <1>2, <2>1, <2>5 DEF TaskOK, Running
    <3> QED
      BY <1>2, <1>4, <2>1, <2>4, <2>5, <3>1 DEF TaskOK, Running, Ended
  <2>6. CASE u # t
    BY <1>2, <1>4, <2>1, <2>4, <2>6 DEF TaskOK
  <2> QED
    BY <2>5, <2>6
<1>6. Estimated' = Estimated /\ (NoCycle(deps)' <=> NoCycle(deps))
  BY DEF Estimated, NoCycle
<1>7. (total = SumOver(Booked, Answered))'
  OBVIOUS
<1> QED
  BY <1>3, <1>4, <1>5, <1>6, <1>7 DEF PipelineStrong

\* An answer adds its price to the total.
LEMMA AnswerAdds ==
    ASSUME PipelineStrong, NEW t \in Task, status[t] \in Running,
           NEW price \in Nat, Succeeds(t, price), UNCHANGED offer,
           \/ retried' = retried /\ price = offer[t].cost
           \/ retried' = retried \cup {t} /\ price = offer[t].alt
    PROVE  total' \in Nat /\ total' = SumOver(Booked', Answered')
<1>1. status' = [status EXCEPT ![t] = "ok"] /\ total' = total + price
  BY DEF Succeeds, Book
<1>2. PipelineTypeOK /\ total \in Nat /\ t \notin retried /\ t \notin Answered
  BY DEF PipelineStrong, PipelineTypeOK, TaskOK, Running, Answered
<1>3. Answered' = Answered \cup {t}
  <2>1. status'[t] = "ok" /\ \A u \in Task \ {t} : status'[u] = status[u]
    BY <1>1, <1>2 DEF PipelineTypeOK
  <2> QED
    BY <2>1 DEF Answered
<1>4. /\ Booked'[t] = price
      /\ \A u \in Answered : Booked'[u] = Booked[u] /\ Booked[u] \in Nat
  BY <1>2, PricesAreNumbers DEF Booked, Answered
<1>5. IsFiniteSet(Answered)
  BY <1>2, PricesAreNumbers
<1>6. SumOf(Booked', Answered \cup {t}) = SumOf(Booked', Answered) + Booked'[t]
  <2>1. \A u \in Answered \cup {t} : Booked'[u] \in Int
    BY <1>4
  <2> QED
    BY <1>2, <1>5, <2>1, SumAdd
<1>7. SumOf(Booked', Answered) = SumOf(Booked, Answered)
  BY <1>4, <1>5, SumEqual
<1>8. total = SumOf(Booked, Answered)
  BY SumOverIs DEF PipelineStrong
<1>9. SumOver(Booked', Answered') = SumOf(Booked', Answered \cup {t})
  BY <1>3, SumOverIs
<1> QED
  BY <1>1, <1>2, <1>4, <1>6, <1>7, <1>8, <1>9

\* A task without an answer adds nothing.
LEMMA NoAnswer ==
    ASSUME PipelineStrong, NEW t \in Task, status[t] \in Running,
           NEW x, x # "ok", status' = [status EXCEPT ![t] = x],
           UNCHANGED <<offer, retried, total>>
    PROVE  total' \in Nat /\ total' = SumOver(Booked', Answered')
<1>1. status'[t] = x /\ \A u \in Task \ {t} : status'[u] = status[u]
  BY DEF PipelineStrong, PipelineTypeOK
<1>2. Answered' = Answered
  BY <1>1 DEF Answered, Running
<1>3. Booked' = Booked
  BY DEF Booked
<1> QED
  BY <1>2, <1>3 DEF PipelineStrong, PipelineTypeOK

\* What becomes of a running task keeps the invariant.
LEMMA TaskStepOK ==
    ASSUME PipelineStrong, NEW t \in Task, TaskStep(t)
    PROVE  PipelineStrong'
<1>1. /\ PipelineTypeOK /\ errors \in BOOLEAN /\ offer[t].cost \in Nat
      /\ offer[t].alt \in Nat
  BY PricesAreNumbers DEF PipelineStrong, PipelineTypeOK
<1>2. CASE BatchItem(t) /\ status' = [status EXCEPT ![t] = "failed"]
  <2>1. /\ status[t] \in Running /\ errors' = TRUE
        /\ UNCHANGED <<raw, deps, offer, stage, placed, batched, retried, total>>
    <3>1. status'[t] = "failed"
      BY <1>1, <1>2 DEF PipelineTypeOK
    <3> QED
      BY <1>1, <1>2, <3>1 DEF BatchItem, Succeeds, Running, PipelineTypeOK
  <2>2. total' \in Nat /\ total' = SumOver(Booked', Answered')
    BY <1>2, <2>1, NoAnswer
  <2> QED
    BY <1>2, <2>1, <2>2, OneTask DEF Ended
<1>3. CASE \/ BatchItem(t) /\ Succeeds(t, offer[t].cost) /\ UNCHANGED errors
           \/ PrimaryOk(t)
  <2>1. /\ status[t] \in Running /\ Succeeds(t, offer[t].cost)
        /\ UNCHANGED <<raw, deps, offer, stage, placed, batched, retried, errors>>
    BY <1>3 DEF BatchItem, PrimaryOk, Running
  <2>2. status' = [status EXCEPT ![t] = "ok"]
    BY <2>1 DEF Succeeds
  <2>3. total' \in Nat /\ total' = SumOver(Booked', Answered')
    BY <1>1, <2>1, AnswerAdds
  <2> QED
    BY <1>1, <2>1, <2>2, <2>3, OneTask DEF Ended
<1>4. CASE PrimaryFails(t)
  <2>1. /\ status[t] \in Running
        /\ UNCHANGED <<raw, deps, offer, stage, placed, batched, retried, total>>
    BY <1>4 DEF PrimaryFails, Running
  <2>2. CASE offer[t].alt > 0
    <3>1. status' = [status EXCEPT ![t] = "alternative"] /\ UNCHANGED errors
      BY <1>4, <2>2 DEF PrimaryFails
    <3>2. total' \in Nat /\ total' = SumOver(Booked', Answered')
      BY <2>1, <3>1, NoAnswer
    <3> QED
      BY <1>1, <2>1, <3>1, <3>2, OneTask
  <2>3. CASE ~ (offer[t].alt > 0)
    <3>1. status' = [status EXCEPT ![t] = "failed"] /\ errors' = TRUE
      BY <1>4, <2>3 DEF PrimaryFails
    <3>2. total' \in Nat /\ total' = SumOver(Booked', Answered')
      BY <2>1, <3>1, NoAnswer
    <3> QED
      BY <2>1, <3>1, <3>2, OneTask DEF Ended
  <2> QED
    BY <2>2, <2>3
<1>5. CASE AlternativeOk(t)
  <2>1. /\ status[t] \in Running /\ Succeeds(t, offer[t].alt)
        /\ retried' = retried \cup {t}
        /\ UNCHANGED <<raw, deps, offer, stage, placed, batched, errors>>
    BY <1>5 DEF AlternativeOk, Running
  <2>2. status' = [status EXCEPT ![t] = "ok"]
    BY <2>1 DEF Succeeds
  <2>3. total' \in Nat /\ total' = SumOver(Booked', Answered')
    BY <1>1, <2>1, AnswerAdds
  <2> QED
    BY <1>1, <2>1, <2>2, <2>3, OneTask DEF Ended
<1>6. CASE AlternativeFails(t)
  <2>1. /\ status[t] \in Running /\ status' = [status EXCEPT ![t] = "failed"]
        /\ errors' = TRUE
        /\ UNCHANGED <<raw, deps, offer, stage, placed, batched, retried, total>>
    BY <1>6 DEF AlternativeFails, Running
  <2>2. total' \in Nat /\ total' = SumOver(Booked', Answered')
    BY <2>1, NoAnswer
  <2> QED
    BY <2>1, <2>2, OneTask DEF Ended
<1> QED
  BY <1>2, <1>3, <1>4, <1>5, <1>6 DEF TaskStep, BatchItem

\* Every step keeps the invariant.
LEMMA PipelineStepOK ==
    ASSUME PipelineStrong, [PipelineNext]_pipelineVars
    PROVE  PipelineStrong'
<1>1. CASE UNCHANGED pipelineVars
  <2> USE <1>1 DEF pipelineVars, PipelineStrong
  <2>1. PipelineTypeOK'
    BY DEF PipelineTypeOK
  <2>2. \A t \in Task : TaskOK(t)'
    BY DEF TaskOK
  <2>3. (total = SumOver(Booked, Answered))'
    BY DEF Booked, Answered
  <2>4. Estimated' = Estimated /\ (NoCycle(deps)' <=> NoCycle(deps))
    BY DEF Estimated, NoCycle
  <2> QED
    BY <2>1, <2>2, <2>3, <2>4
<1>2. CASE RunStep
  BY <1>2, RefuseOK, DecomposeOK, CheckBudgetOK, StartWaveOK, FinishOK, AbortOK, EndWaveOK
  DEF RunStep
<1>3. ASSUME NEW t \in Task, TaskStep(t) PROVE PipelineStrong'
  BY <1>3, TaskStepOK
<1> QED
  BY <1>1, <1>2, <1>3, BatchFailsOK DEF PipelineNext

-----------------------------------------------------------------------------
(* The theorems of the conductor                                           *)

\* Every reachable state of a run satisfies the inductive invariant.
LEMMA PipelineAlways ==
    PipelineSpec => []PipelineStrong
<1> QED
  BY PipelineInitOK, PipelineStepOK, PTL DEF PipelineSpec

\* The validator lets pass exactly the graphs that can be executed, whatever
\* an external decomposer returns and for any number of sub-tasks.
THEOREM ValidatorAcceptsExactly == PipelineSpec => []ValidatorIsExact
<1>1. PipelineStrong => ValidatorIsExact
  BY AcceptableIsExact DEF PipelineStrong, PipelineTypeOK, ValidatorIsExact, NoCycle
<1> QED
  BY <1>1, PipelineAlways, PTL

\* Dependencies come first, a run that reports success has every result, and
\* the total is the matches of the answered sub-tasks, each booked once.
THEOREM RunIsSound == PipelineSpec => []PipelineInv
<1>1. PipelineStrong => PipelineInv
  <2> SUFFICES ASSUME PipelineStrong PROVE PipelineInv
    OBVIOUS
  <2>1. PipelineTypeOK
    BY DEF PipelineStrong
  <2>2. DependenciesFirst
    BY DEF PipelineStrong, TaskOK, DependenciesFirst
  <2>3. SuccessIsComplete
    <3> SUFFICES ASSUME stage = "done", ~errors, NEW t \in Task
                 PROVE  status[t] = "ok"
      BY DEF SuccessIsComplete
    <3> QED
      BY <2>1 DEF PipelineStrong, TaskOK, PipelineTypeOK, Running, Ended
  <2>4. TotalOfMatches
    BY DEF PipelineStrong, TotalOfMatches
  <2> QED
    BY <2>1, <2>2, <2>3, <2>4 DEF PipelineInv
<1> QED
  BY <1>1, PipelineAlways, PTL

\* Whatever the prices at which the answered sub-tasks are counted, their sum is
\* beyond the approved estimate by what they are dearer than the matches at most.
LEMMA BeyondEstimate ==
    ASSUME PipelineTypeOK, Estimated <= MaxBudget,
           NEW price, \A t \in Task : price[t] \in Nat
    PROVE  SumOver(price, Answered) + Fee <= MaxBudget + Dearer(price)
<1> DEFINE costs == [t \in Task |-> offer[t].cost]
           excess == [t \in Task |-> IF price[t] > offer[t].cost
                                     THEN price[t] - offer[t].cost ELSE 0]
           spent == [t \in Task |-> IF t \in Answered THEN price[t] ELSE 0]
           more == [t \in Task |-> IF t \in Answered THEN excess[t] ELSE 0]
           most == [t \in Task |-> costs[t] + more[t]]
<1>1. Answered \in SUBSET Task /\ IsFiniteSet(Task) /\ IsFiniteSet(Answered)
  BY PipelineAssumption, PricesAreNumbers
<1>2. \A t \in Task : /\ price[t] \in Int /\ costs[t] \in Int /\ excess[t] \in Int
                      /\ excess[t] >= 0 /\ costs[t] >= 0
                      /\ price[t] <= costs[t] + excess[t]
  BY PricesAreNumbers
<1>3. Dearer(price) = SumOf(excess, Answered)
  BY SumOverIs DEF Dearer
<1>4. Estimated = SumOf(costs, Task) + Fee
  BY SumOverIs DEF Estimated
<1> HIDE DEF costs, excess
<1>5. \A t \in Task : /\ spent[t] \in Int /\ most[t] \in Int /\ more[t] \in Int
                      /\ spent[t] <= most[t] /\ most[t] = costs[t] + more[t]
  BY <1>1, <1>2
<1>6. /\ \A t \in Answered : spent[t] = price[t] /\ more[t] = excess[t]
      /\ \A t \in Task \ Answered : spent[t] = 0 /\ more[t] = 0
  BY <1>1
<1> HIDE DEF spent, more, most
<1>7. SumOf(spent, Task) = SumOf(price, Answered)
  <2>1. \A t \in Answered : price[t] \in Int
    BY <1>1, <1>2
  <2> QED
    BY <1>1, <1>6, <2>1, SumPart
<1>8. SumOf(more, Task) = SumOf(excess, Answered)
  <2>1. \A t \in Answered : excess[t] \in Int
    BY <1>1, <1>2
  <2> QED
    BY <1>1, <1>6, <2>1, SumPart
<1>9. SumOf(most, Task) = SumOf(costs, Task) + SumOf(more, Task)
  <2>1. \A t \in Task : /\ costs[t] \in Int /\ more[t] \in Int
                        /\ most[t] = costs[t] + more[t]
    BY <1>2, <1>5
  <2> QED
    BY <1>1, <2>1, SumPlus
<1>10. SumOf(spent, Task) <= SumOf(most, Task)
  <2>1. \A t \in Task : spent[t] \in Int /\ most[t] \in Int /\ spent[t] <= most[t]
    BY <1>5
  <2> QED
    BY <1>1, <2>1, SumAtMost
<1>11. SumOf(costs, Task) \in Int /\ SumOf(more, Task) \in Int /\ SumOf(spent, Task) \in Int
  <2>1. \A t \in Task : costs[t] \in Int
    BY <1>2
  <2>2. \A t \in Task : more[t] \in Int
    BY <1>5
  <2>3. \A t \in Task : spent[t] \in Int
    BY <1>5
  <2> QED
    BY <1>1, <2>1, <2>2, <2>3, SumInt
<1>12. Fee \in Nat /\ MaxBudget \in Nat
  BY PricesAreNumbers
<1>13. SumOver(price, Answered) = SumOf(price, Answered)
  BY SumOverIs
<1> QED
  BY <1>3, <1>4, <1>7, <1>8, <1>9, <1>10, <1>11, <1>12, <1>13

\* Only an alternative dearer than the agent it replaces takes the total beyond
\* the approved estimate, and only such alternatives and members of the team
\* dearer than their matches what the agents that answered ask.
THEOREM OverrunsAreDearerAgents == PipelineSpec => []OverrunByDearerAgents
<1>1. PipelineStrong => OverrunByDearerAgents
  <2> SUFFICES ASSUME PipelineStrong, stage \in {"wave", "ready", "done"}
               PROVE  OverrunByDearerAgents
    BY DEF OverrunByDearerAgents
  <2>1. PipelineTypeOK /\ Estimated <= MaxBudget /\ total = SumOver(Booked, Answered)
    BY DEF PipelineStrong
  <2>2. \A t \in Task : Booked[t] \in Nat /\ Asked[t] \in Nat
    BY <2>1, PricesAreNumbers
  <2>3. total + Fee <= MaxBudget + Dearer(Booked)
    BY <2>1, <2>2, BeyondEstimate
  <2>4. SumOver(Asked, Answered) + Fee <= MaxBudget + Dearer(Asked)
    BY <2>1, <2>2, BeyondEstimate
  <2> QED
    BY <2>1, <2>3, <2>4 DEF OverrunByDearerAgents
<1> QED
  BY <1>1, PipelineAlways, PTL

\* What is left of a run, counted.
LEMMA LeftIsNat ==
    ASSUME PipelineTypeOK
    PROVE  /\ \A t \in Task : Ahead[t] \in Nat
           /\ SumOf(Ahead, Task) \in Nat /\ Left \in Nat
<1>1. \A t \in Task : Ahead[t] \in Int /\ Ahead[t] >= 0
  BY DEF PipelineTypeOK, Running, Ended, Ahead, TaskSteps
<1>2. SumOf(Ahead, Task) \in Nat
  BY <1>1, PipelineAssumption, SumNat
<1>3. SumOver(Ahead, Task) = SumOf(Ahead, Task)
  BY SumOverIs
<1> QED
  BY <1>1, <1>2, <1>3 DEF Left, StageSteps, PipelineTypeOK

\* A step of the stages that leaves the sub-tasks as they are.
LEMMA StageCounts ==
    ASSUME PipelineTypeOK, status' = status,
           \/ stage = "decompose" /\ stage' \in {"budget", "refused"}
           \/ stage = "budget" /\ stage' \in {"ready", "refused"}
           \/ stage = "ready" /\ stage' \in {"done", "thrown"}
           \/ stage = "wave" /\ stage' = "ready"
    PROVE  Left' < Left
<1>1. SumOver(Ahead, Task)' = SumOver(Ahead, Task)
  BY DEF Ahead
<1>2. SumOver(Ahead, Task) \in Nat
  BY LeftIsNat, SumOverIs
<1> QED
  BY <1>1, <1>2 DEF Left, StageSteps

\* A step that moves sub-tasks on, and at most opens a wave.
LEMMA TasksCount ==
    ASSUME PipelineTypeOK,
           \A t \in Task : Ahead'[t] \in Nat /\ Ahead'[t] <= Ahead[t],
           NEW x \in Task, Ahead'[x] < Ahead[x],
           stage' = stage \/ (stage = "ready" /\ stage' = "wave")
    PROVE  Left' < Left
<1>1. (\A t \in Task : Ahead[t] \in Nat) /\ SumOf(Ahead, Task) \in Nat
  BY LeftIsNat
<1>2. SumOf(Ahead', Task) < SumOf(Ahead, Task)
  <2>1. \A t \in Task : Ahead'[t] \in Int /\ Ahead[t] \in Int /\ Ahead'[t] <= Ahead[t]
    BY <1>1
  <2> QED
    BY <2>1, PipelineAssumption, SumLess
<1>3. SumOf(Ahead', Task) \in Int
  <2>1. \A t \in Task : Ahead'[t] \in Int
    OBVIOUS
  <2> QED
    BY <2>1, PipelineAssumption, SumInt
<1>4. SumOver(Ahead, Task) = SumOf(Ahead, Task)
  BY SumOverIs
<1>5. SumOver(Ahead, Task)' = SumOf(Ahead', Task)
  BY SumOverIs
<1>6. /\ Left = 2 * SumOf(Ahead, Task) + StageSteps[stage]
      /\ Left' = 2 * SumOf(Ahead', Task) + StageSteps[stage']
  BY <1>4, <1>5 DEF Left
<1>7. /\ StageSteps[stage] \in Int /\ StageSteps[stage'] \in Int
      /\ StageSteps[stage'] <= StageSteps[stage] + 1
  BY DEF StageSteps, PipelineTypeOK
<1>8. \A a, b, m, n \in Int : b < a /\ m <= n + 1 => 2 * b + m < 2 * a + n
  OBVIOUS
<1> QED
  BY <1>1, <1>2, <1>3, <1>6, <1>7, <1>8

\* A run takes finitely many steps, however many sub-tasks it has and whatever
\* fails: the fallbacks of a batch and of an item are counted as well
\* (pipeline-orchestrator.ts:224-402).
THEOREM EveryRunIsFinite == PipelineSpec => EveryStepCounts
<1>1. ASSUME PipelineStrong, PipelineNext PROVE Left' < Left
  <2>0. PipelineTypeOK /\ status \in [Task -> {"waiting"} \cup Running \cup Ended]
    BY <1>1 DEF PipelineStrong, PipelineTypeOK
  <2>1. CASE Refuse \/ Decompose \/ CheckBudget \/ Finish \/ Abort \/ EndWave
    BY <2>0, <2>1, StageCounts DEF Refuse, Decompose, CheckBudget, Finish, Abort, EndWave
  <2>2. CASE StartWave
    <3>1. CASE stage' = "thrown"
      BY <2>0, <2>2, <3>1, StageCounts DEF StartWave
    <3>2. CASE stage' # "thrown"
      <4>1. /\ stage = "ready" /\ stage' = "wave" /\ Wave # {}
            /\ \A t \in Task : /\ t \in Wave => status'[t] \in {"batch", "primary", "skipped"}
                               /\ t \notin Wave => status'[t] = status[t]
        BY <2>2, <3>2 DEF StartWave
      <4>2. \A t \in Wave : t \in Task /\ status[t] = "waiting"
        BY <1>1 DEF Wave, PipelineStrong, TaskOK
      <4>3. \A t \in Task : /\ Ahead'[t] \in Nat /\ Ahead'[t] <= Ahead[t]
                            /\ t \in Wave => Ahead'[t] < Ahead[t]
        <5> SUFFICES ASSUME NEW t \in Task
                     PROVE  /\ Ahead'[t] \in Nat /\ Ahead'[t] <= Ahead[t]
                            /\ t \in Wave => Ahead'[t] < Ahead[t]
          OBVIOUS
        <5>0. Ahead[t] = TaskSteps[status[t]] /\ Ahead'[t] = TaskSteps[status'[t]]
          BY DEF Ahead
        <5>1. CASE t \in Wave
          <6>1. status[t] = "waiting" /\ status'[t] \in {"batch", "primary", "skipped"}
            BY <4>1, <4>2, <5>1
          <6>2. TaskSteps[status[t]] = 4 /\ TaskSteps[status'[t]] \in {3, 2, 0}
            BY <6>1 DEF TaskSteps
          <6> QED
            BY <5>0, <6>2
        <5>2. CASE t \notin Wave
          BY <2>0, <4>1, <5>2, LeftIsNat DEF Ahead
        <5> QED
          BY <5>1, <5>2
      <4>4. PICK x \in Wave : x \in Task
        BY <4>1, <4>2
      <4> QED
        BY <2>0, <4>1, <4>3, <4>4, TasksCount
    <3> QED
      BY <3>1, <3>2
  <2>3. CASE BatchFails
    <3>1. /\ stage' = stage /\ batched # {} /\ batched \subseteq Task
          /\ \A t \in Task : /\ t \in batched => status[t] = "batch" /\ status'[t] = "primary"
                             /\ t \notin batched => status'[t] = status[t]
      BY <2>0, <2>3 DEF BatchFails, PipelineTypeOK
    <3>2. \A t \in Task : /\ Ahead'[t] \in Nat /\ Ahead'[t] <= Ahead[t]
                          /\ t \in batched => Ahead'[t] < Ahead[t]
      <4> SUFFICES ASSUME NEW t \in Task
                   PROVE  /\ Ahead'[t] \in Nat /\ Ahead'[t] <= Ahead[t]
                          /\ t \in batched => Ahead'[t] < Ahead[t]
        OBVIOUS
      <4>0. Ahead[t] = TaskSteps[status[t]] /\ Ahead'[t] = TaskSteps[status'[t]]
        BY DEF Ahead
      <4>1. CASE t \in batched
        <5>1. TaskSteps[status[t]] = 3 /\ TaskSteps[status'[t]] = 2
          BY <3>1, <4>1 DEF TaskSteps
        <5> QED
          BY <4>0, <5>1
      <4>2. CASE t \notin batched
        BY <2>0, <3>1, <4>2, LeftIsNat DEF Ahead
      <4> QED
        BY <4>1, <4>2
    <3>3. PICK x \in batched : x \in Task
      BY <3>1
    <3> QED
      BY <2>0, <3>1, <3>2, <3>3, TasksCount
  <2>4. ASSUME NEW x \in Task, TaskStep(x) PROVE Left' < Left
    <3>1. stage' = stage
      BY <2>4 DEF TaskStep, BatchItem, PrimaryOk, PrimaryFails, AlternativeOk, AlternativeFails
    <3>2. /\ \A t \in Task \ {x} : status'[t] = status[t]
          /\ \/ status[x] \in {"batch", "primary"} /\ status'[x] \in {"ok", "failed"}
             \/ status[x] = "primary" /\ status'[x] = "alternative"
             \/ status[x] = "alternative" /\ status'[x] \in {"ok", "failed"}
      BY <2>0, <2>4 DEF TaskStep, BatchItem, PrimaryOk, PrimaryFails, AlternativeOk,
                        AlternativeFails, Succeeds
    <3>3. /\ \A t \in Task : Ahead'[t] \in Nat /\ Ahead'[t] <= Ahead[t]
          /\ Ahead'[x] < Ahead[x]
      <4>1. ASSUME NEW t \in Task \ {x} PROVE Ahead'[t] = Ahead[t] /\ Ahead[t] \in Nat
        BY <2>0, <3>2, LeftIsNat DEF Ahead
      <4>2. Ahead'[x] \in Nat /\ Ahead'[x] < Ahead[x]
        BY <3>2 DEF Ahead, TaskSteps
      <4>3. Ahead[x] \in Nat
        BY <2>0, LeftIsNat
      <4> QED
        BY <4>1, <4>2, <4>3
    <3> QED
      BY <2>0, <3>1, <3>3, TasksCount
  <2> QED
    BY <1>1, <2>1, <2>2, <2>3, <2>4 DEF PipelineNext, RunStep
<1>2. PipelineStrong /\ [PipelineNext]_pipelineVars => [Left' < Left]_pipelineVars
  BY <1>1
<1> QED
  BY <1>2, PipelineAlways, PTL DEF PipelineSpec, EveryStepCounts

=============================================================================
