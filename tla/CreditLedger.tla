---------------------------- MODULE CreditLedger ----------------------------
(***************************************************************************)
(* The credit database of AgentBnB: src/src/credit/ledger.ts, escrow.ts,   *)
(* owner-normalization.ts and the hire counters of reliability-metrics.ts. *)
(*                                                                         *)
(* One SQLite file is shared by the daemon, the CLI and the registry.      *)
(* Every exported function opens one write transaction, so it is one       *)
(* action here.  Before its transaction nearly every function runs         *)
(* canonicalizeCreditOwner, which moves all the rows of a legacy owner     *)
(* name to the agent that claimed the name.  That migration is part of the *)
(* action: each action computes the tables it commits from the tables the  *)
(* migration leaves.                                                       *)
(*                                                                         *)
(* The rows of credit_transactions are summed up by what the properties    *)
(* tell apart: "journal" is the sum of an owner's rows (voucher_hold rows  *)
(* excepted, they never touch a balance), "paid" the sum of the rows that  *)
(* pay an escrow out, "minted" the sum of the rows that create credits.    *)
(***************************************************************************)
EXTENDS Integers, FiniteSetsExt

CONSTANTS
    AgentId,        \* hex agent ids
    LegacyName,     \* owner strings older than agent ids
    Treasury,       \* 'platform_treasury', the one reserved owner
    None,
    EscrowId,
    Nonce,          \* nonces of P2P receipts
    HoldAmount,     \* amounts a caller may hold
    EarnAmount,     \* amounts a receipt may carry
    Grant,          \* credits of a bootstrap
    VoucherGrant,   \* credits of a demand voucher
    FullBonusSlots, \* provider numbers up to this one earn 2.0x (code: 50)
    HalfBonusSlots, \* provider numbers up to this one earn 1.5x (code: 200)
    MaxVouchers,    \* bound: vouchers ever issued
    MaxMinted       \* bound: no bootstrap beyond this many created credits

Owner == AgentId \cup LegacyName
Account == Owner \cup {Treasury}
VoucherId == 1 .. MaxVouchers      \* in the order of created_at

ASSUME NamesAssumption ==
    /\ AgentId \cap LegacyName = {}
    /\ Treasury \notin Owner
    /\ None \notin Account

ASSUME AmountsAssumption ==
    /\ HoldAmount \subseteq Nat
    /\ EarnAmount \subseteq Nat
    /\ Grant \in Nat
    /\ VoucherGrant \in Nat
    /\ MaxVouchers \in Nat
    /\ MaxMinted \in Nat
    /\ FullBonusSlots \in Nat
    /\ HalfBonusSlots \in Nat

\* The tables of a database hold finitely many rows.
ASSUME FiniteAssumption ==
    /\ IsFiniteSet(AgentId)
    /\ IsFiniteSet(LegacyName)
    /\ IsFiniteSet(EscrowId)

VARIABLES
    legacyOwner,  \* agents table: the legacy name an agent claimed, or None
    acct,         \* balance, journal, provider number and hires of an owner
    escrow,       \* credit_escrow
    voucher,      \* demand_vouchers
    hiredFrom,    \* owner of the settlement row that references an escrow
    paid,         \* credits the rows referencing an escrow paid out
    earned,       \* number of remote_earning rows with a nonce
    minted        \* sum of the bootstrap, provider_bonus, remote_earning rows

vars == <<legacyOwner, acct, escrow, voucher, hiredFrom, paid, earned, minted>>

Finalizable == {"held", "started", "progressing", "abandoned"}
Terminal == {"settled", "released"}

NoAccount == [row |-> FALSE, balance |-> 0, journal |-> 0, provider |-> 0,
              streak |-> 0, longest |-> 0, total |-> 0, repeat |-> 0]
NoEscrow == [status |-> "none", owner |-> None, amount |-> 0,
             funding |-> "balance"]
NoVoucher == [owner |-> None, remaining |-> 0, live |-> FALSE]

AccountRow == [row : BOOLEAN, balance : Int, journal : Int, provider : Nat,
               streak : Nat, longest : Nat, total : Nat, repeat : Nat]
EscrowRow == [status : Finalizable \cup Terminal \cup {"none"},
              owner : Owner \cup {None}, amount : Nat,
              funding : {"balance", "voucher"}]
VoucherRow == [owner : Owner \cup {None}, remaining : Nat, live : BOOLEAN]

TypeOK ==
    /\ legacyOwner \in [AgentId -> LegacyName \cup {None}]
    /\ acct \in [Account -> AccountRow]
    /\ escrow \in [EscrowId -> EscrowRow]
    /\ voucher \in [VoucherId -> VoucherRow]
    /\ hiredFrom \in [EscrowId -> Owner \cup {None}]
    /\ paid \in [EscrowId -> Nat]
    /\ earned \in [Nonce -> Nat]
    /\ minted \in Nat

Init ==
    /\ legacyOwner = [a \in AgentId |-> None]
    /\ acct = [o \in Account |-> NoAccount]
    /\ escrow = [e \in EscrowId |-> NoEscrow]
    /\ voucher = [v \in VoucherId |-> NoVoucher]
    /\ hiredFrom = [e \in EscrowId |-> None]
    /\ paid = [e \in EscrowId |-> 0]
    /\ earned = [n \in Nonce |-> 0]
    /\ minted = 0

-----------------------------------------------------------------------------
(* The tables a function reads and writes, and what migration does to them *)

tables == [acct |-> acct, escrow |-> escrow, voucher |-> voucher,
           hiredFrom |-> hiredFrom]

Commit(t) ==
    /\ acct' = t.acct
    /\ escrow' = t.escrow
    /\ voucher' = t.voucher
    /\ hiredFrom' = t.hiredFrom

Larger(m, n) == IF m >= n THEN m ELSE n

\* Seeded faults of Merged: the transactions keep their old owner, the old
\* balance is overwritten, the old hires are lost.
MergedKeepsJournal(old, new) ==
    [row |-> old.row \/ new.row, balance |-> old.balance + new.balance,
     journal |-> new.journal, provider |-> Larger(old.provider, new.provider),
     streak |-> 0, longest |-> 0, total |-> 0, repeat |-> 0]
MergedOverwrites(old, new) == [new EXCEPT !.row = TRUE, !.provider = 0]
MergedDropsHires(old, new) == [new EXCEPT !.balance = @ + old.balance]

\* Balances, hires and journals add up; the new owner's number wins.
Merged(old, new) ==
    [row |-> old.row \/ new.row,
     balance |-> old.balance + new.balance,
     journal |-> old.journal + new.journal,
     provider |-> IF new.provider = 0 THEN old.provider ELSE new.provider,
     streak |-> Larger(old.streak, new.streak),
     longest |-> Larger(old.longest, new.longest),
     total |-> old.total + new.total,
     repeat |-> old.repeat + new.repeat]

Renamed(o, old, new) == IF o = old THEN new ELSE o

Migrate(t, old, new) ==
    IF old = new THEN t ELSE
    [acct |-> [t.acct EXCEPT ![new] = Merged(t.acct[old], t.acct[new]),
                             ![old] = NoAccount],
     escrow |-> [e \in EscrowId |-> [t.escrow[e] EXCEPT
                     !.owner = Renamed(t.escrow[e].owner, old, new)]],
     voucher |-> [v \in VoucherId |-> [t.voucher[v] EXCEPT
                     !.owner = Renamed(t.voucher[v].owner, old, new)]],
     hiredFrom |-> [e \in EscrowId |-> Renamed(t.hiredFrom[e], old, new)]]

\* The agents whose row answers to owner o (an agent id answers to itself).
Claimants(o) == {a \in AgentId : legacyOwner[a] = o}

Canon(o) == IF Claimants(o) = {} THEN o ELSE CHOOSE a \in Claimants(o) : TRUE

\* The one name whose rows an access through o moves to Canon(o).
AliasOf(o) ==
    LET c == Canon(o)
    IN  IF c \in AgentId /\ legacyOwner[c] # None THEN legacyOwner[c] ELSE c

Canonicalize(t, o) == Migrate(t, AliasOf(o), Canon(o))

-----------------------------------------------------------------------------
(* Steps inside a transaction                                              *)

\* INSERT OR IGNORE of the balance row, UPDATE of the balance, journal row.
Credited(a, amount) ==
    [a EXCEPT !.row = TRUE, !.balance = @ + amount, !.journal = @ + amount]
Credit(t, o, amount) == [t EXCEPT !.acct[o] = Credited(@, amount)]

\* A refund only UPDATEs: without a balance row the credits are lost.
Refunded(a, amount) ==
    [a EXCEPT !.balance = IF a.row THEN @ + amount ELSE @,
              !.journal = @ + amount]
Refund(t, o, amount) == [t EXCEPT !.acct[o] = Refunded(@, amount)]

Debited(a, amount) == [a EXCEPT !.balance = @ - amount, !.journal = @ - amount]
Debit(t, o, amount) == [t EXCEPT !.acct[o] = Debited(@, amount)]

SetStatus(t, e, status) == [t EXCEPT !.escrow[e].status = status]

NetworkFee(amount) == (amount * 5) \div 100

\* Seeded fault: COUNT(*) instead of MAX(provider_number).
NextProviderByCount(t) ==
    Cardinality({o \in Account : t.acct[o].provider # 0}) + 1
NextProviderNumber(t) == Max({t.acct[o].provider : o \in Account}) + 1

RegisterProvider(t, o) ==
    IF t.acct[o].provider # 0 THEN t
    ELSE [t EXCEPT !.acct[o] =
             [@ EXCEPT !.provider = NextProviderNumber(t)]]

ProviderBonus(number, share) ==
    IF number <= FullBonusSlots THEN share
    ELSE IF number <= HalfBonusSlots THEN share \div 2
    ELSE 0

\* The treasury's row is created, but the bonus is not taken from it.
PayBonus(t, o, bonus) ==
    IF bonus = 0 THEN t ELSE Credit(Credit(t, Treasury, 0), o, bonus)

IsRepeatHire(t, provider, consumer) ==
    \E e \in EscrowId : /\ t.hiredFrom[e] = provider
                        /\ t.escrow[e].owner = consumer

Hired(a, repeated) ==
    [a EXCEPT !.streak = @ + 1,
              !.longest = Larger(@, a.streak + 1),
              !.total = @ + 1,
              !.repeat = IF repeated THEN @ + 1 ELSE @]

RecordSuccessfulHire(t, provider, consumer) ==
    [t EXCEPT !.acct[provider] =
        Hired(@, IsRepeatHire(t, provider, consumer))]

\* getActiveVoucher: the oldest live voucher with something left.
IsActive(t, v, o) ==
    /\ t.voucher[v].owner = o
    /\ t.voucher[v].live
    /\ t.voucher[v].remaining > 0

IsOldestActive(t, v, o) ==
    /\ IsActive(t, v, o)
    /\ \A w \in VoucherId : IsActive(t, w, o) => v <= w

\* The oldest voucher alone is tried, whatever the younger ones hold.
Covers(t, v, o, amount) ==
    IsOldestActive(t, v, o) /\ t.voucher[v].remaining >= amount

\* Seeded fault: the balance >= ? check is missing.
CanAffordAnything(t, o, amount) == t.acct[o].row

CanAfford(t, o, amount) == t.acct[o].row /\ t.acct[o].balance >= amount

-----------------------------------------------------------------------------
(* Actions: one per exported function                                      *)

\* An agents row gets its legacy_owner; nothing makes the name unique.
ClaimName(a, l) ==
    /\ legacyOwner[a] = None
    /\ legacyOwner' = [legacyOwner EXCEPT ![a] = l]
    /\ UNCHANGED <<acct, escrow, voucher, hiredFrom, paid, earned, minted>>

\* getBalance, getProviderNumber and every call that throws before its
\* transaction commits change nothing but the owner's migration.
ReadOwner(o) ==
    /\ Commit(Canonicalize(tables, o))
    /\ UNCHANGED <<legacyOwner, paid, earned, minted>>

\* bootstrapAgent.  The voucher is issued after the transaction: a process
\* that dies in between leaves the agent without one for good.
Bootstrap(o, dies) ==
    LET c == Canon(o)
        t == Canonicalize(tables, o)
        granted == Credit(t, c, Grant)
    IN  /\ ~t.acct[c].row
        /\ minted + Grant <= MaxMinted
        /\ \/ dies /\ Commit(granted)
           \/ \E v \in VoucherId :
                 /\ ~dies
                 /\ t.voucher[v] = NoVoucher
                 /\ \A w \in VoucherId : t.voucher[w] = NoVoucher => v <= w
                 /\ Commit([granted EXCEPT !.voucher[v] =
                       [owner |-> c, remaining |-> VoucherGrant, live |-> TRUE]])
        /\ minted' = minted + Grant
        /\ UNCHANGED <<legacyOwner, paid, earned>>

\* A voucher passes its expires_at.
ExpireVoucher(v) ==
    /\ voucher[v].live
    /\ voucher' = [voucher EXCEPT ![v].live = FALSE]
    /\ UNCHANGED <<legacyOwner, acct, escrow, hiredFrom, paid, earned, minted>>

\* holdEscrow, first branch: the voucher pays, the balance is not touched.
HoldFromVoucher(o, amount, e) ==
    LET c == Canon(o)
        t == Canonicalize(tables, o)
    IN  /\ escrow[e].status = "none"
        /\ \E v \in VoucherId :
             /\ Covers(t, v, c, amount)
             /\ Commit([t EXCEPT !.voucher[v].remaining = @ - amount,
                                 !.escrow[e] = [status |-> "held", owner |-> c,
                                                amount |-> amount,
                                                funding |-> "voucher"]])
        /\ UNCHANGED <<legacyOwner, paid, earned, minted>>

\* holdEscrow, second branch.
HoldFromBalance(o, amount, e) ==
    LET c == Canon(o)
        t == Canonicalize(tables, o)
    IN  /\ escrow[e].status = "none"
        /\ ~ \E v \in VoucherId : Covers(t, v, c, amount)
        /\ CanAfford(t, c, amount)
        /\ Commit([Debit(t, c, amount) EXCEPT !.escrow[e] =
                     [status |-> "held", owner |-> c, amount |-> amount,
                      funding |-> "balance"]])
        /\ UNCHANGED <<legacyOwner, paid, earned, minted>>

\* updateEscrowStatus, as its three callers use it.
UpdateStatus(e, from, to) ==
    /\ escrow[e].status \in from
    /\ Commit(SetStatus(Canonicalize(tables, escrow[e].owner), e, to))
    /\ UNCHANGED <<legacyOwner, paid, earned, minted>>

MarkStarted(e) == UpdateStatus(e, {"held", "started"}, "started")

\* Seeded fault: an abandoned escrow may be taken up again.
MarkProgressingAgain(e) ==
    UpdateStatus(e, {"held", "started", "progressing", "abandoned"},
                 "progressing")

MarkProgressing(e) ==
    UpdateStatus(e, {"held", "started", "progressing"}, "progressing")

MarkAbandoned(e) ==
    UpdateStatus(e, {"started", "progressing", "abandoned"}, "abandoned")

\* Seeded fault: only a released escrow is refused.
CanFinalizeUnlessReleased(e) == escrow[e].status \in Finalizable \cup {"settled"}

\* assertEscrowCanFinalize.
CanFinalize(e) == escrow[e].status \in Finalizable

\* settleEscrow, in the order of its statements.
Settle(e, r) ==
    LET p == Canon(r)
        t1 == Canonicalize(tables, r)
        t2 == Canonicalize(t1, t1.escrow[e].owner)
        fee == NetworkFee(escrow[e].amount)
        share == escrow[e].amount - fee
        t3 == Credit(t2, p, share)
        t4 == IF fee > 0 THEN Credit(t3, Treasury, fee) ELSE t3
        t5 == [SetStatus(t4, e, "settled") EXCEPT !.hiredFrom[e] = p]
        t6 == RegisterProvider(t5, p)
        bonus == ProviderBonus(t6.acct[p].provider, share)
        t7 == PayBonus(t6, p, bonus)
    IN  /\ CanFinalize(e)
        /\ Commit(RecordSuccessfulHire(t7, p, t7.escrow[e].owner))
        /\ paid' = [paid EXCEPT ![e] = @ + share + fee]
        /\ minted' = minted + bonus
        /\ UNCHANGED <<legacyOwner, earned>>

\* releaseEscrow: back to the balance, whatever funded the hold.
Release(e) ==
    LET t == Canonicalize(tables, escrow[e].owner)
    IN  /\ CanFinalize(e)
        /\ Commit(SetStatus(Refund(t, t.escrow[e].owner, escrow[e].amount),
                            e, "released"))
        /\ paid' = [paid EXCEPT ![e] = @ + escrow[e].amount]
        /\ UNCHANGED <<legacyOwner, earned, minted>>

\* confirmEscrowDebit: the provider earns in its own database.
ConfirmDebit(e) ==
    /\ CanFinalize(e)
    /\ Commit(SetStatus(Canonicalize(tables, escrow[e].owner), e, "settled"))
    /\ UNCHANGED <<legacyOwner, paid, earned, minted>>

\* recordEarning: a nonce already in credit_transactions is skipped.
RecordEarning(o, amount, n) ==
    /\ earned[n] = 0
    /\ Commit(Credit(Canonicalize(tables, o), Canon(o), amount))
    /\ earned' = [earned EXCEPT ![n] = @ + 1]
    /\ minted' = minted + amount
    /\ UNCHANGED <<legacyOwner, paid>>

MigrateOwner(old, new) ==
    /\ old # new
    /\ Commit(Migrate(Canonicalize(tables, new), old, Canon(new)))
    /\ UNCHANGED <<legacyOwner, paid, earned, minted>>

\* recordQualityFailure.
RecordQualityFailure(o) ==
    LET t == Canonicalize(tables, o)
        reset == [t.acct[Canon(o)] EXCEPT !.streak = 0]
    IN  /\ Commit([t EXCEPT !.acct[Canon(o)] = reset])
        /\ UNCHANGED <<legacyOwner, paid, earned, minted>>

Next ==
    \/ \E a \in AgentId, l \in LegacyName : ClaimName(a, l)
    \/ \E o \in Owner : ReadOwner(o)
    \/ \E o \in Owner, dies \in BOOLEAN : Bootstrap(o, dies)
    \/ \E v \in VoucherId : ExpireVoucher(v)
    \/ \E o \in Owner, amount \in HoldAmount, e \in EscrowId :
          \/ HoldFromVoucher(o, amount, e)
          \/ HoldFromBalance(o, amount, e)
    \/ \E e \in EscrowId :
          \/ MarkStarted(e)
          \/ MarkProgressing(e)
          \/ MarkAbandoned(e)
          \/ Release(e)
          \/ ConfirmDebit(e)
          \/ \E r \in Owner : Settle(e, r)
    \/ \E o \in Owner, amount \in EarnAmount, n \in Nonce :
          RecordEarning(o, amount, n)
    \/ \E old, new \in Owner : MigrateOwner(old, new)
    \/ \E o \in Owner : RecordQualityFailure(o)

Spec == Init /\ [][Next]_vars

-----------------------------------------------------------------------------
(* Properties                                                              *)

\* Every owner's balance is the sum of the owner's journal rows: no function
\* of escrow.ts or ledger.ts updates credit_balances without the matching
\* credit_transactions row, or the other way round, migrations included.
BalanceMatchesJournal ==
    \A o \in Account : acct[o].balance = acct[o].journal

\* No interleaving of holds, migrations and settlements overdraws a balance
\* or a voucher (the balance >= ? and remaining >= ? of holdEscrow).
NoOverdraft ==
    /\ \A o \in Account : acct[o].balance >= 0
    /\ \A v \in VoucherId : voucher[v].remaining \in 0 .. VoucherGrant

\* The owner of an escrow or a voucher always has a balance row, so that the
\* UPDATE of releaseEscrow, which creates no row, never loses a refund.
RefundHasARow ==
    /\ \A e \in EscrowId :
          escrow[e].status # "none" =>
              escrow[e].owner \in Owner /\ acct[escrow[e].owner].row
    /\ \A v \in VoucherId :
          voucher[v].owner # None => acct[voucher[v].owner].row

\* An escrow pays out nothing while it is open and at most its amount ever:
\* released, the whole of it; settled, the whole of it or, when the debit was
\* only confirmed, nothing (settleEscrow, releaseEscrow, confirmEscrowDebit).
PaysOutOnce ==
    \A e \in EscrowId :
        CASE escrow[e].status = "released" -> paid[e] = escrow[e].amount
          [] escrow[e].status = "settled" -> paid[e] \in {0, escrow[e].amount}
          [] OTHER -> paid[e] = 0

\* Two providers never share a provider number, so that no more than
\* FullBonusSlots of them earn double (registerProvider's MAX + 1, with the
\* renumbering mergeProviderRegistryRows does under it).
ProviderNumbersUnique ==
    \A o, q \in Account :
        /\ acct[o].provider # 0
        /\ acct[o].provider = acct[q].provider
        => o = q

\* The sum of the numbers f[i], i \in S.
Sum(S, f) == MapThenSumSet(LAMBDA i : f[i], S)

\* Each settlement counts as one hire of exactly one provider, whatever
\* migrations merge (recordSuccessfulHire, mergeReliabilityRows).
HiresAreSettlements ==
    /\ Sum(Account, [o \in Account |-> acct[o].total])
         = Cardinality({e \in EscrowId : hiredFrom[e] # None})
    /\ \A o \in Account : /\ acct[o].streak <= acct[o].longest
                          /\ acct[o].longest <= acct[o].total

Amounts == [e \in EscrowId |-> escrow[e].amount]
Balances == Sum(Account, [o \in Account |-> acct[o].balance])
Open == {e \in EscrowId : escrow[e].status \in Finalizable}
FundedBy(source) == {e \in EscrowId : escrow[e].funding = source}

\* No credit is lost or made up: balances and what balances have tied up in
\* escrows equal the credits created, plus what voucher holds paid out, less
\* the confirmed debits (which the provider's own database credits).
CreditsConserved ==
    LET closed == EscrowId \ Open
        confirmed == {e \in closed : paid[e] = 0}
    IN  Balances + Sum(Open \cap FundedBy("balance"), Amounts)
          = minted + Sum((closed \ confirmed) \cap FundedBy("voucher"), Amounts)
                   - Sum(confirmed \cap FundedBy("balance"), Amounts)

Rank(status) ==
    CASE status = "none" -> 0
      [] status = "held" -> 1
      [] status = "started" -> 2
      [] status = "progressing" -> 3
      [] status = "abandoned" -> 4
      [] OTHER -> 5

\* An escrow only moves forward: a late relay_started or relay_progress does
\* not take an abandoned or a finalised escrow back (updateEscrowStatus).
LifecycleMovesForward ==
    [][\A e \in EscrowId :
          /\ Rank(escrow[e].status) <= Rank(escrow'[e].status)
          /\ Rank(escrow[e].status) = 5 =>
                 /\ escrow'[e].status = escrow[e].status
                 /\ escrow'[e].amount = escrow[e].amount]_vars

Phase(e) ==
    CASE escrow[e].status = "none" -> "none"
      [] escrow[e].status = "released" -> "refunded"
      [] escrow[e].status = "settled" ->
            IF hiredFrom[e] # None THEN "paid" ELSE "confirmed"
      [] OTHER -> "open"

\* The ledger implements EscrowPromise: every step of the credit database
\* opens an escrow, closes it once with one of the three pay-outs, or leaves
\* every escrow's phase alone.
Promise == INSTANCE EscrowPromise WITH
    phase <- [e \in EscrowId |-> Phase(e)],
    amount <- [e \in EscrowId |-> escrow[e].amount],
    out <- paid

KeepsPromise == Promise!PromiseSpec

=============================================================================
