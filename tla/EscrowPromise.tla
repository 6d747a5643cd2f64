--------------------------- MODULE EscrowPromise ---------------------------
(***************************************************************************)
(* What the escrow promises, whatever database and protocol carry it out:  *)
(* an escrow is opened once for an amount, closed once, and pays out       *)
(* nothing before it is closed.  Closing it pays the whole amount to the   *)
(* provider's side, refunds the whole amount to the requester, or, when    *)
(* the provider earns in a database of its own, pays out nothing here.     *)
(* It abstracts src/src/credit/escrow.ts.                                  *)
(***************************************************************************)
EXTENDS Naturals

CONSTANTS EscrowId, HoldAmount

VARIABLES
    phase,   \* "none", "open", "paid", "confirmed" or "refunded"
    amount,  \* what the escrow was opened for
    out      \* what it has paid out so far

promiseVars == <<phase, amount, out>>

PromiseInit ==
    /\ phase = [e \in EscrowId |-> "none"]
    /\ amount = [e \in EscrowId |-> 0]
    /\ out = [e \in EscrowId |-> 0]

Stays(e) ==
    phase'[e] = phase[e] /\ amount'[e] = amount[e] /\ out'[e] = out[e]

Opens(e) ==
    /\ phase[e] = "none" /\ phase'[e] = "open"
    /\ amount'[e] \in HoldAmount
    /\ out'[e] = out[e]

Closes(e) ==
    /\ phase[e] = "open"
    /\ \/ phase'[e] \in {"paid", "refunded"} /\ out'[e] = amount[e]
       \/ phase'[e] = "confirmed" /\ out'[e] = 0
    /\ amount'[e] = amount[e]

\* One callback may close several escrows: a disconnect ends every request of
\* an agent.
PromiseNext == \A e \in EscrowId : Stays(e) \/ Opens(e) \/ Closes(e)

PromiseSpec == PromiseInit /\ [][PromiseNext]_promiseVars

=============================================================================
