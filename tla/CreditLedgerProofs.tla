------------------------ MODULE CreditLedgerProofs ------------------------
(***************************************************************************)
(* Theorems about the credit database, for any number of agents, legacy    *)
(* names, escrows, vouchers and amounts.                                   *)
(*                                                                         *)
(* The inductive invariant LedgerInv speaks of the tables as one record,   *)
(* because a transaction computes the tables it commits in several steps:  *)
(* Sound(t) is kept by each of those steps, and SameEscrows(t, u) says     *)
(* that a step left the escrows alone; Books(t, u, m, h) says that it made *)
(* the balances grow by m credits and the counters by h hires.  An action  *)
(* then amounts to a GoodStep: sound tables, every escrow kept, opened,    *)
(* moved or closed, and books that balance.                                *)
(***************************************************************************)
EXTENDS CreditLedger, SumTheorems, TLAPS

-----------------------------------------------------------------------------
(* Sound tables                                                            *)

Tables == [acct : [Account -> AccountRow], escrow : [EscrowId -> EscrowRow],
           voucher : [VoucherId -> VoucherRow],
           hiredFrom : [EscrowId -> Owner \cup {None}]]

NumbersBounded(t) ==
    \E m \in Nat : \A o \in Account : t.acct[o].provider <= m

NumbersUnique(t) ==
    \A o, q \in Account :
        t.acct[o].provider # 0 /\ t.acct[o].provider = t.acct[q].provider
            => o = q

Balanced(t) ==
    \A o \in Account :
        t.acct[o].balance = t.acct[o].journal /\ t.acct[o].balance >= 0

OwnersHaveRows(t) ==
    /\ \A e \in EscrowId :
          t.escrow[e].status # "none" =>
              t.escrow[e].owner \in Owner /\ t.acct[t.escrow[e].owner].row
    /\ \A v \in VoucherId :
          t.voucher[v].owner # None => t.acct[t.voucher[v].owner].row

VouchersCovered(t) ==
    \A v \in VoucherId : t.voucher[v].remaining <= VoucherGrant

Sound(t) ==
    /\ t \in Tables
    /\ NumbersBounded(t)
    /\ NumbersUnique(t)
    /\ Balanced(t)
    /\ OwnersHaveRows(t)
    /\ VouchersCovered(t)

\* Merging two account rows gives an account row.
LEMMA MergedType ==
    ASSUME NEW a \in AccountRow, NEW b \in AccountRow
    PROVE  Merged(a, b) \in AccountRow
BY DEF Merged, AccountRow, Larger

\* Moving one owner's rows to another keeps the tables sound: the two rows
\* add up, the number kept was in use before, and renamed owners have a row.
LEMMA MigrateSound ==
    ASSUME NEW t, Sound(t), NEW old \in Owner, NEW new \in Owner
    PROVE  Sound(Migrate(t, old, new))
<1> DEFINE m == Migrate(t, old, new)
<1>1. CASE old = new
  BY <1>1 DEF Migrate
<1>2. CASE old # new
  <2> USE DEF Sound
  <2>1. m \in Tables
    <3>1. NoAccount \in AccountRow
      BY DEF NoAccount, AccountRow
    <3> QED
      BY <1>2, <3>1, MergedType
      DEF Migrate, Tables, EscrowRow, VoucherRow, Account, Renamed
  <2>2. /\ m.acct = [t.acct EXCEPT ![new] = Merged(t.acct[old], t.acct[new]),
                                   ![old] = NoAccount]
        /\ m.escrow = [e \in EscrowId |-> [t.escrow[e] EXCEPT
                         !.owner = Renamed(t.escrow[e].owner, old, new)]]
        /\ m.voucher = [v \in VoucherId |-> [t.voucher[v] EXCEPT
                         !.owner = Renamed(t.voucher[v].owner, old, new)]]
    BY <1>2 DEF Migrate
  <2>3. \A o \in Account \ {old, new} : m.acct[o] = t.acct[o]
    BY <2>2 DEF Tables
  <2>4. m.acct[old] = NoAccount /\ m.acct[new] = Merged(t.acct[old], t.acct[new])
    BY <1>2, <2>2 DEF Tables, Account
  <2>5. NumbersBounded(m)
    BY <2>3, <2>4 DEF NumbersBounded, Merged, NoAccount, Tables, AccountRow, Account
  <2>6. NumbersUnique(m)
    BY <2>3, <2>4 DEF NumbersUnique, Merged, NoAccount, Tables, AccountRow, Account
  <2>7. Balanced(m)
    BY <2>3, <2>4 DEF Balanced, Merged, NoAccount, Tables, AccountRow, Account
  <2>8. OwnersHaveRows(m)
    <3>1. m.acct[new].row = (t.acct[old].row \/ t.acct[new].row)
      BY <2>4 DEF Merged
    <3>2. ASSUME NEW o \in Owner, t.acct[o].row
          PROVE  /\ Renamed(o, old, new) \in Owner
                 /\ m.acct[Renamed(o, old, new)].row
      <4>1. CASE o \in {old, new}
        BY <3>1, <3>2, <4>1 DEF Renamed
      <4>2. CASE o \notin {old, new}
        BY <2>3, <3>2, <4>2 DEF Renamed, Account
      <4> QED
        BY <4>1, <4>2
    <3>3. ASSUME NEW e \in EscrowId, m.escrow[e].status # "none"
          PROVE  m.escrow[e].owner \in Owner /\ m.acct[m.escrow[e].owner].row
      <4>1. /\ m.escrow[e].status = t.escrow[e].status
            /\ m.escrow[e].owner = Renamed(t.escrow[e].owner, old, new)
        BY <2>2 DEF Tables, EscrowRow
      <4>2. t.escrow[e].owner \in Owner /\ t.acct[t.escrow[e].owner].row
        BY <3>3, <4>1 DEF OwnersHaveRows
      <4> QED
        BY <3>2, <4>1, <4>2
    <3>4. ASSUME NEW v \in VoucherId, m.voucher[v].owner # None
          PROVE  m.acct[m.voucher[v].owner].row
      <4>1. m.voucher[v].owner = Renamed(t.voucher[v].owner, old, new)
        BY <2>2 DEF Tables, VoucherRow
      <4>2. t.voucher[v].owner # None
        BY <3>4, <4>1, NamesAssumption DEF Renamed, Account
      <4>3. t.voucher[v].owner \in Owner /\ t.acct[t.voucher[v].owner].row
        BY <4>2 DEF OwnersHaveRows, Tables, VoucherRow
      <4> QED
        BY <3>2, <4>1, <4>3
    <3> QED
      BY <3>3, <3>4 DEF OwnersHaveRows
  <2>9. VouchersCovered(m)
    BY <2>2 DEF VouchersCovered, Tables, VoucherRow
  <2> QED
    BY <2>1, <2>5, <2>6, <2>7, <2>8, <2>9
<1> QED
  BY <1>1, <1>2

\* The canonical owner and the name it claimed are owners.
LEMMA CanonType ==
    ASSUME TypeOK, NEW o \in Owner
    PROVE  Canon(o) \in Owner /\ AliasOf(o) \in Owner
<1>1. Claimants(o) \subseteq AgentId
  BY DEF Claimants
<1>2. Canon(o) \in Owner
  BY <1>1 DEF Canon, Owner
<1> QED
  BY <1>2 DEF AliasOf, TypeOK, Owner

\* The migration every operation starts with keeps the tables sound.
LEMMA CanonicalizeSound ==
    ASSUME TypeOK, NEW o \in Owner, NEW t, Sound(t)
    PROVE  Sound(Canonicalize(t, o))
BY CanonType, MigrateSound DEF Canonicalize

\* What migration leaves alone: the phases and amounts of the escrows.
LEMMA MigrateKeepsEscrows ==
    ASSUME NEW t \in Tables, NEW old \in Owner, NEW new \in Owner,
           NEW e \in EscrowId
    PROVE  LET m == Migrate(t, old, new)
           IN  /\ m.escrow[e].status = t.escrow[e].status
               /\ m.escrow[e].amount = t.escrow[e].amount
               /\ m.escrow[e].funding = t.escrow[e].funding
               /\ m.hiredFrom[e] = None <=> t.hiredFrom[e] = None
BY NamesAssumption DEF Migrate, Tables, EscrowRow, Renamed, Account

\* So does the migration every operation starts with.
LEMMA CanonicalizeKeepsEscrows ==
    ASSUME TypeOK, NEW o \in Owner, NEW t \in Tables, NEW e \in EscrowId
    PROVE  LET m == Canonicalize(t, o)
           IN  /\ m.escrow[e].status = t.escrow[e].status
               /\ m.escrow[e].amount = t.escrow[e].amount
               /\ m.escrow[e].funding = t.escrow[e].funding
               /\ m.hiredFrom[e] = None <=> t.hiredFrom[e] = None
BY CanonType, MigrateKeepsEscrows DEF Canonicalize

\* Whatever rewrites one owner's row without touching its number, leaves its
\* balance equal to its journal and not negative, and deletes no row is sound.
LEMMA RowUpdateSound ==
    ASSUME NEW t, Sound(t), NEW o \in Account, NEW r \in AccountRow,
           r.balance = r.journal, r.balance >= 0,
           r.provider = t.acct[o].provider,
           t.acct[o].row => r.row
    PROVE  Sound([t EXCEPT !.acct[o] = r])
<1> DEFINE c == [t EXCEPT !.acct[o] = r]
<1>1. /\ c \in Tables
      /\ c.escrow = t.escrow /\ c.voucher = t.voucher
      /\ c.acct = [t.acct EXCEPT ![o] = r]
  BY DEF Sound, Tables
<1>2. /\ c.acct[o] = r
      /\ \A q \in Account \ {o} : c.acct[q] = t.acct[q]
  BY <1>1 DEF Sound, Tables
<1>3. \A q \in Account : c.acct[q].provider = t.acct[q].provider
  BY <1>2
<1>4. NumbersBounded(c)
  BY <1>3 DEF Sound, NumbersBounded
<1>5. NumbersUnique(c)
  BY <1>3 DEF Sound, NumbersUnique
<1>6. Balanced(c)
  BY <1>2 DEF Sound, Balanced
<1>7. ASSUME NEW q \in Account, t.acct[q].row
      PROVE  c.acct[q].row
  <2>1. CASE q = o
    BY <1>2, <1>7, <2>1
  <2>2. CASE q # o
    BY <1>2, <1>7, <2>2
  <2> QED
    BY <2>1, <2>2
<1>8. OwnersHaveRows(c)
  <2>1. ASSUME NEW e \in EscrowId, c.escrow[e].status # "none"
        PROVE  c.escrow[e].owner \in Owner /\ c.acct[c.escrow[e].owner].row
    BY <1>1, <1>7, <2>1 DEF Sound, OwnersHaveRows, Account
  <2>2. ASSUME NEW v \in VoucherId, c.voucher[v].owner # None
        PROVE  c.acct[c.voucher[v].owner].row
    BY <1>1, <1>7, <2>2 DEF Sound, OwnersHaveRows, Account, Tables, VoucherRow
  <2> QED
    BY <2>1, <2>2 DEF OwnersHaveRows
<1>9. VouchersCovered(c)
  BY <1>1 DEF Sound, VouchersCovered
<1> QED
  BY <1>1, <1>4, <1>5, <1>6, <1>8, <1>9 DEF Sound

\* A row stays a row when fields get values of their types.
LEMMA RowFields ==
    ASSUME NEW a \in AccountRow, NEW x \in Int, NEW y \in Int, NEW i \in Nat
    PROVE  /\ [a EXCEPT !.balance = x, !.journal = y] \in AccountRow
           /\ [a EXCEPT !.row = TRUE, !.balance = x, !.journal = y] \in AccountRow
           /\ [a EXCEPT !.streak = i] \in AccountRow
           /\ [a EXCEPT !.provider = i] \in AccountRow
BY DEF AccountRow

\* The same for the four counters of hires.
LEMMA HireFields ==
    ASSUME NEW a \in AccountRow, NEW i \in Nat, NEW j \in Nat, NEW k \in Nat,
           NEW l \in Nat
    PROVE  [a EXCEPT !.streak = i, !.longest = j, !.total = k, !.repeat = l]
              \in AccountRow
BY DEF AccountRow

\* The operators on an account row keep its type, its provider number and
\* its row, and move balance and journal by the same amount.
LEMMA RowOperators ==
    ASSUME NEW a \in AccountRow, NEW n \in Nat
    PROVE  /\ Credited(a, n) \in AccountRow
           /\ Refunded(a, n) \in AccountRow
           /\ Debited(a, n) \in AccountRow
<1>1. /\ a.balance + n \in Int /\ a.journal + n \in Int
      /\ a.balance - n \in Int /\ a.journal - n \in Int
      /\ (IF a.row THEN a.balance + n ELSE a.balance) \in Int
  BY DEF AccountRow
<1>3. Credited(a, n) \in AccountRow
  BY <1>1, RowFields DEF Credited
<1>4. Refunded(a, n) \in AccountRow
  BY <1>1, RowFields DEF Refunded
<1>5. Debited(a, n) \in AccountRow
  BY <1>1, RowFields DEF Debited
<1> QED
  BY <1>3, <1>4, <1>5

\* What the operators on an account row do to the fields Sound speaks of.
LEMMA RowEffects ==
    ASSUME NEW a \in AccountRow, NEW n \in Nat
    PROVE  /\ Credited(a, n).row
           /\ Credited(a, n).provider = a.provider
           /\ Credited(a, n).balance = a.balance + n
           /\ Credited(a, n).journal = a.journal + n
           /\ Refunded(a, n).row = a.row
           /\ Refunded(a, n).provider = a.provider
           /\ a.row => Refunded(a, n).balance = a.balance + n
           /\ Refunded(a, n).journal = a.journal + n
           /\ Debited(a, n).row = a.row
           /\ Debited(a, n).provider = a.provider
           /\ Debited(a, n).balance = a.balance - n
           /\ Debited(a, n).journal = a.journal - n
BY DEF Credited, Refunded, Debited, AccountRow

\* Counting a hire leaves the money, the number and the row alone.
LEMMA HiredOperator ==
    ASSUME NEW a \in AccountRow, NEW repeated \in BOOLEAN
    PROVE  /\ Hired(a, repeated) \in AccountRow
           /\ Hired(a, repeated).row = a.row
           /\ Hired(a, repeated).provider = a.provider
           /\ Hired(a, repeated).balance = a.balance
           /\ Hired(a, repeated).journal = a.journal
<1>1. /\ a.streak + 1 \in Nat /\ Larger(a.longest, a.streak + 1) \in Nat
      /\ a.total + 1 \in Nat
      /\ (IF repeated THEN a.repeat + 1 ELSE a.repeat) \in Nat
  BY DEF AccountRow, Larger
<1>2. Hired(a, repeated) \in AccountRow
  BY <1>1, HireFields DEF Hired
<1> QED
  BY <1>2 DEF Hired, AccountRow

\* A credit keeps the tables sound and leaves the owner with a row.
LEMMA CreditSound ==
    ASSUME NEW t, Sound(t), NEW o \in Account, NEW amount \in Nat
    PROVE  Sound(Credit(t, o, amount)) /\ Credit(t, o, amount).acct[o].row
<1> DEFINE r == Credited(t.acct[o], amount)
<1>1. t.acct[o] \in AccountRow /\ t.acct \in [Account -> AccountRow]
  BY DEF Sound, Tables
<1>2. Credit(t, o, amount) = [t EXCEPT !.acct[o] = r]
  BY DEF Credit
<1>3. r.balance = r.journal /\ r.balance >= 0
  BY <1>1, RowEffects DEF Sound, Balanced, AccountRow
<1>4. Sound([t EXCEPT !.acct[o] = r])
  BY <1>1, <1>3, RowOperators, RowEffects, RowUpdateSound
<1>5. Credit(t, o, amount).acct[o] = r
  BY <1>2 DEF Sound, Tables
<1> QED
  BY <1>1, <1>2, <1>4, <1>5, RowEffects

\* A debit the balance covers keeps the tables sound.
LEMMA DebitSound ==
    ASSUME NEW t, Sound(t), NEW o \in Account, NEW amount \in Nat,
           CanAfford(t, o, amount)
    PROVE  Sound(Debit(t, o, amount)) /\ Debit(t, o, amount).acct[o].row
<1> DEFINE r == Debited(t.acct[o], amount)
<1>1. t.acct[o] \in AccountRow /\ t.acct \in [Account -> AccountRow]
  BY DEF Sound, Tables
<1>2. Debit(t, o, amount) = [t EXCEPT !.acct[o] = r]
  BY DEF Debit
<1>3. r.balance = r.journal /\ r.balance >= 0
  BY <1>1, RowEffects DEF Sound, Balanced, AccountRow, CanAfford
<1>4. r.row
  BY <1>1, RowEffects DEF CanAfford
<1>5. Sound([t EXCEPT !.acct[o] = r])
  BY <1>1, <1>3, <1>4, RowOperators, RowEffects, RowUpdateSound
<1>6. Debit(t, o, amount).acct[o] = r
  BY <1>2 DEF Sound, Tables
<1> QED
  BY <1>2, <1>4, <1>5, <1>6

\* A refund to an owner with a row keeps the tables sound.
LEMMA RefundSound ==
    ASSUME NEW t, Sound(t), NEW o \in Account, NEW amount \in Nat,
           t.acct[o].row
    PROVE  Sound(Refund(t, o, amount))
<1> DEFINE r == Refunded(t.acct[o], amount)
<1>1. t.acct[o] \in AccountRow
  BY DEF Sound, Tables
<1>2. Refund(t, o, amount) = [t EXCEPT !.acct[o] = r]
  BY DEF Refund
<1>3. r.balance = r.journal /\ r.balance >= 0
  BY <1>1, RowEffects DEF Sound, Balanced, AccountRow
<1>4. r.row
  BY <1>1, RowEffects
<1>5. r \in AccountRow /\ r.provider = t.acct[o].provider
  BY <1>1, RowOperators, RowEffects
<1> HIDE DEF r
<1>6. Sound([t EXCEPT !.acct[o] = r])
  BY <1>3, <1>4, <1>5, RowUpdateSound
<1> QED
  BY <1>2, <1>6

\* Counting a hire keeps the tables sound.
LEMMA RecordSuccessfulHireSound ==
    ASSUME NEW t, Sound(t), NEW p \in Account, NEW c
    PROVE  Sound(RecordSuccessfulHire(t, p, c))
<1> DEFINE repeated == IsRepeatHire(t, p, c)
           r == Hired(t.acct[p], repeated)
<1>1. t.acct[p] \in AccountRow
  BY DEF Sound, Tables
<1>2. repeated \in BOOLEAN
  BY DEF IsRepeatHire
<1>3. RecordSuccessfulHire(t, p, c) = [t EXCEPT !.acct[p] = r]
  BY DEF RecordSuccessfulHire
<1> HIDE DEF repeated
<1>4. /\ r \in AccountRow /\ r.provider = t.acct[p].provider
      /\ r.row = t.acct[p].row
      /\ r.balance = t.acct[p].balance /\ r.journal = t.acct[p].journal
  BY <1>1, <1>2, HiredOperator
<1>5. r.balance = r.journal /\ r.balance >= 0
  BY <1>4 DEF Sound, Balanced
<1> QED
  BY <1>3, <1>4, <1>5, RowUpdateSound

\* A status is a field of an escrow row.
LEMMA StatusField ==
    ASSUME NEW t \in Tables, NEW e \in EscrowId,
           NEW status \in Finalizable \cup Terminal
    PROVE  [t EXCEPT !.escrow[e].status = status] \in Tables
<1>1. \A x \in EscrowRow : [x EXCEPT !.status = status] \in EscrowRow
  BY DEF EscrowRow
<1>2. [t.escrow[e] EXCEPT !.status = status] \in EscrowRow
  BY <1>1 DEF Tables
<1>3. \A x \in EscrowRow : [t EXCEPT !.escrow[e] = x] \in Tables
  BY DEF Tables
<1>4. [t EXCEPT !.escrow[e].status = status]
        = [t EXCEPT !.escrow[e] = [t.escrow[e] EXCEPT !.status = status]]
  OBVIOUS
<1> QED
  BY <1>2, <1>3, <1>4

\* Moving an escrow that exists to another status keeps the tables sound.
LEMMA SetStatusSound ==
    ASSUME NEW t, Sound(t), NEW e \in EscrowId,
           NEW status \in Finalizable \cup Terminal,
           t.escrow[e].status # "none"
    PROVE  Sound(SetStatus(t, e, status))
<1> DEFINE c == SetStatus(t, e, status)
<1>1. c.acct = t.acct /\ c.voucher = t.voucher
      /\ c.escrow = [t.escrow EXCEPT ![e].status = status]
  BY DEF SetStatus, Sound, Tables
<1>2. c \in Tables
  BY StatusField DEF SetStatus, Sound
<1>3. \A f \in EscrowId :
          /\ c.escrow[f].owner = t.escrow[f].owner
          /\ c.escrow[f].status # "none" => t.escrow[f].status # "none"
  BY <1>1 DEF Sound, Tables, EscrowRow
<1>4. OwnersHaveRows(c)
  BY <1>1, <1>3 DEF Sound, OwnersHaveRows
<1> QED
  BY <1>1, <1>2, <1>4
  DEF Sound, NumbersBounded, NumbersUnique, Balanced, VouchersCovered

\* A set of naturals that has a member and a bound has a maximum.
LEMMA MaxOfBounded ==
    ASSUME NEW S, S \subseteq Nat, S # {}, NEW m \in Nat, \A y \in S : y <= m
    PROVE  Max(S) \in S /\ \A y \in S : Max(S) >= y
<1> DEFINE U == {n \in Nat : \A y \in S : y <= n}
<1>1. m \in U /\ U \subseteq Nat
  OBVIOUS
<1>2. PICK x \in U : \A y \in U : ~ (<<y, x>> \in OpToRel(<, Nat))
  <2> HIDE DEF U
  <2> QED
    BY <1>1, WFMin, NatLessThanWellFounded
<1>3. \A y \in U : ~ (y < x)
  BY <1>2 DEF OpToRel
<1>4. x \in S
  <2> SUFFICES ASSUME x \notin S PROVE FALSE
    OBVIOUS
  <2>1. \A y \in S : y < x
    BY DEF U
  <2>2. x - 1 \in Nat /\ \A y \in S : y <= x - 1
    <3>1. x \in Nat
      OBVIOUS
    <3>2. PICK y \in S : y < x
      BY <2>1
    <3>3. x - 1 \in Nat
      BY <3>1, <3>2
    <3>4. \A z \in S : z <= x - 1
      BY <2>1, <3>1
    <3> QED
      BY <3>3, <3>4
  <2> QED
    BY <1>3, <2>2
<1>5. \A y \in S : x >= y
  OBVIOUS
<1> QED
  BY <1>4, <1>5 DEF Max

\* The number registerProvider hands out is larger than every number in use.
LEMMA NextNumberIsFresh ==
    ASSUME NEW t, Sound(t), NEW p \in Account
    PROVE  /\ NextProviderNumber(t) \in Nat
           /\ \A o \in Account : t.acct[o].provider < NextProviderNumber(t)
<1> DEFINE S == {t.acct[o].provider : o \in Account}
<1>1. S \subseteq Nat /\ S # {}
  BY DEF Sound, Tables, AccountRow
<1>2. PICK m \in Nat : \A o \in Account : t.acct[o].provider <= m
  BY DEF Sound, NumbersBounded
<1>3. \A y \in S : y <= m
  BY <1>2
<1>4. Max(S) \in S /\ \A y \in S : Max(S) >= y
  <2> HIDE DEF S
  <2> QED
    BY <1>1, <1>3, MaxOfBounded
<1>5. Max(S) \in Nat /\ \A o \in Account : t.acct[o].provider <= Max(S)
  BY <1>1, <1>4
<1>6. NextProviderNumber(t) = Max(S) + 1
  BY DEF NextProviderNumber
<1> HIDE DEF S
<1>7. \A o \in Account : t.acct[o].provider \in Nat
  BY DEF Sound, Tables, AccountRow
<1> QED
  BY <1>5, <1>6, <1>7

\* registerProvider keeps the numbers unique and hands out one bound more.
LEMMA RegisterProviderSound ==
    ASSUME NEW t, Sound(t), NEW p \in Account
    PROVE  Sound(RegisterProvider(t, p))
<1>1. CASE t.acct[p].provider # 0
  BY <1>1 DEF RegisterProvider
<1>2. CASE t.acct[p].provider = 0
  <2> DEFINE n == NextProviderNumber(t)
             r == [t.acct[p] EXCEPT !.provider = n]
             c == [t EXCEPT !.acct[p] = r]
  <2>1. n \in Nat /\ \A o \in Account : t.acct[o].provider < n
    BY NextNumberIsFresh
  <2> HIDE DEF n
  <2>2. t.acct[p] \in AccountRow /\ t.acct \in [Account -> AccountRow]
    BY DEF Sound, Tables
  <2>3. r \in AccountRow
    BY <2>1, <2>2 DEF AccountRow
  <2>4. /\ r.provider = n /\ r.row = t.acct[p].row
        /\ r.balance = t.acct[p].balance /\ r.journal = t.acct[p].journal
    BY <2>2 DEF AccountRow
  <2> HIDE DEF r
  <2>5. /\ c \in Tables /\ c.escrow = t.escrow /\ c.voucher = t.voucher
        /\ c.acct[p] = r
        /\ \A o \in Account \ {p} : c.acct[o] = t.acct[o]
    BY <2>2, <2>3 DEF Sound, Tables
  <2> HIDE DEF c
  <2>6. NumbersBounded(c)
    <3>1. \A o \in Account : c.acct[o].provider <= n
      <4> SUFFICES ASSUME NEW o \in Account PROVE c.acct[o].provider <= n
        OBVIOUS
      <4>1. t.acct[o].provider \in Nat
        BY DEF Sound, Tables, AccountRow
      <4> QED
        BY <2>1, <2>4, <2>5, <4>1
    <3> QED
      BY <2>1, <3>1 DEF NumbersBounded
  <2>7. NumbersUnique(c)
    <3>1. \A o \in Account \ {p} : c.acct[o].provider < n
      BY <2>1, <2>5
    <3>2. \A o, q \in Account \ {p} :
              c.acct[o].provider # 0 /\ c.acct[o].provider = c.acct[q].provider
                  => o = q
      BY <2>5 DEF Sound, NumbersUnique
    <3>3. \A o \in Account \ {p} : c.acct[o].provider # c.acct[p].provider
      <4> SUFFICES ASSUME NEW o \in Account \ {p}
                   PROVE  c.acct[o].provider # c.acct[p].provider
        OBVIOUS
      <4>1. c.acct[o].provider \in Nat
        BY <2>5 DEF Tables, AccountRow
      <4> QED
        BY <2>1, <2>4, <2>5, <3>1, <4>1
    <3> QED
      BY <3>2, <3>3 DEF NumbersUnique
  <2>8. \A o \in Account : /\ c.acct[o].row = t.acct[o].row
                           /\ c.acct[o].balance = t.acct[o].balance
                           /\ c.acct[o].journal = t.acct[o].journal
    BY <2>4, <2>5
  <2>9. Balanced(c) /\ OwnersHaveRows(c) /\ VouchersCovered(c)
    <3>1. Balanced(c)
      BY <2>8 DEF Sound, Balanced
    <3>2. VouchersCovered(c)
      BY <2>5 DEF Sound, VouchersCovered
    <3>3. ASSUME NEW e \in EscrowId, c.escrow[e].status # "none"
          PROVE  c.escrow[e].owner \in Owner /\ c.acct[c.escrow[e].owner].row
      BY <2>5, <2>8, <3>3 DEF Sound, OwnersHaveRows, Account
    <3>4. ASSUME NEW v \in VoucherId, c.voucher[v].owner # None
          PROVE  c.acct[c.voucher[v].owner].row
      BY <2>5, <2>8, <3>4
      DEF Sound, OwnersHaveRows, Account, Tables, VoucherRow
    <3> QED
      BY <3>1, <3>2, <3>3, <3>4 DEF OwnersHaveRows
  <2>10. RegisterProvider(t, p) = c
    BY <1>2 DEF RegisterProvider, c, r, n
  <2> QED
    BY <2>5, <2>6, <2>7, <2>9, <2>10 DEF Sound
<1> QED
  BY <1>1, <1>2

\* The bonus is a natural number, and paying it is two credits.
LEMMA PayBonusSound ==
    ASSUME NEW t, Sound(t), NEW p \in Account, NEW bonus \in Nat
    PROVE  Sound(PayBonus(t, p, bonus))
<1>1. Treasury \in Account /\ 0 \in Nat
  BY DEF Account
<1>2. Sound(Credit(t, Treasury, 0))
  BY <1>1, CreditSound
<1>3. Sound(Credit(Credit(t, Treasury, 0), p, bonus))
  BY <1>2, CreditSound
<1> QED
  BY <1>3 DEF PayBonus

\* A voucher row with a covered remainder, whose owner has a balance row, may
\* replace any other.
LEMMA VoucherUpdateSound ==
    ASSUME NEW t, Sound(t), NEW v \in VoucherId, NEW w \in VoucherRow,
           w.remaining <= VoucherGrant,
           w.owner # None => t.acct[w.owner].row
    PROVE  Sound([t EXCEPT !.voucher[v] = w])
<1> DEFINE c == [t EXCEPT !.voucher[v] = w]
<1>1. /\ c \in Tables /\ c.acct = t.acct /\ c.escrow = t.escrow
      /\ c.voucher[v] = w
      /\ \A x \in VoucherId \ {v} : c.voucher[x] = t.voucher[x]
  BY DEF Sound, Tables
<1> HIDE DEF c
<1>2. OwnersHaveRows(c) /\ VouchersCovered(c)
  BY <1>1 DEF Sound, OwnersHaveRows, VouchersCovered
<1>3. NumbersBounded(c) /\ NumbersUnique(c) /\ Balanced(c)
  BY <1>1 DEF Sound, NumbersBounded, NumbersUnique, Balanced
<1> QED
  BY <1>1, <1>2, <1>3 DEF Sound, c

\* An escrow row may be written for an owner that has a balance row.
LEMMA EscrowUpdateSound ==
    ASSUME NEW t, Sound(t), NEW e \in EscrowId, NEW x \in EscrowRow,
           x.owner \in Owner, t.acct[x.owner].row
    PROVE  Sound([t EXCEPT !.escrow[e] = x])
<1> DEFINE c == [t EXCEPT !.escrow[e] = x]
<1>1. /\ c \in Tables /\ c.acct = t.acct /\ c.voucher = t.voucher
      /\ c.escrow[e] = x
      /\ \A f \in EscrowId \ {e} : c.escrow[f] = t.escrow[f]
  BY DEF Sound, Tables
<1> HIDE DEF c
<1>2. OwnersHaveRows(c) /\ VouchersCovered(c)
  BY <1>1 DEF Sound, OwnersHaveRows, VouchersCovered
<1>3. NumbersBounded(c) /\ NumbersUnique(c) /\ Balanced(c)
  BY <1>1 DEF Sound, NumbersBounded, NumbersUnique, Balanced
<1> QED
  BY <1>1, <1>2, <1>3 DEF Sound, c

\* The reference of a settlement row is in no condition of Sound but its type.
LEMMA HiredFromSound ==
    ASSUME NEW t, Sound(t), NEW e \in EscrowId, NEW p \in Owner
    PROVE  Sound([t EXCEPT !.hiredFrom[e] = p])
<1> DEFINE c == [t EXCEPT !.hiredFrom[e] = p]
<1>1. /\ c \in Tables /\ c.acct = t.acct /\ c.voucher = t.voucher
      /\ c.escrow = t.escrow
  BY DEF Sound, Tables
<1> QED
  BY <1>1
  DEF Sound, NumbersBounded, NumbersUnique, Balanced, OwnersHaveRows,
      VouchersCovered

-----------------------------------------------------------------------------
(* What a transaction does to the books: the sum of the balances and the   *)
(* sum of the hires                                                        *)

Money(t) == SumOf([o \in Account |-> t.acct[o].balance], Account)
Hires(t) == SumOf([o \in Account |-> t.acct[o].total], Account)

Streaks(t) ==
    \A o \in Account : /\ t.acct[o].streak <= t.acct[o].longest
                       /\ t.acct[o].longest <= t.acct[o].total

\* From t to u the balances grow by so many credits, the counters by so many
\* hires, and no streak outgrows them.
Books(t, u, credits, hires) ==
    /\ Money(u) = Money(t) + credits
    /\ Hires(u) = Hires(t) + hires
    /\ Streaks(t) => Streaks(u)

\* There are finitely many accounts.
LEMMA AccountsFinite == IsFiniteSet(Account)
<1>1. IsFiniteSet(Owner)
  BY FiniteAssumption, FS_Union DEF Owner
<1> QED
  BY <1>1, FS_AddElement DEF Account

\* The two sums are numbers.
LEMMA SumsAreNumbers ==
    ASSUME NEW t \in Tables
    PROVE  Money(t) \in Int /\ Hires(t) \in Int
<1> DEFINE b == [o \in Account |-> t.acct[o].balance]
           h == [o \in Account |-> t.acct[o].total]
<1>1. \A o \in Account : b[o] \in Int
  BY DEF Tables, AccountRow
<1>2. \A o \in Account : h[o] \in Int
  BY DEF Tables, AccountRow
<1> HIDE DEF b, h
<1>3. SumOf(b, Account) \in Int
  BY <1>1, AccountsFinite, SumInt
<1>4. SumOf(h, Account) \in Int
  BY <1>2, AccountsFinite, SumInt
<1> QED
  BY <1>3, <1>4 DEF Money, Hires, b, h

\* The sums are those of the account rows.
LEMMA SameAccountsBooks ==
    ASSUME NEW t \in Tables, NEW u, u.acct = t.acct
    PROVE  Books(t, u, 0, 0)
<1>1. Money(u) = Money(t) /\ Hires(u) = Hires(t) /\ (Streaks(t) => Streaks(u))
  BY DEF Money, Hires, Streaks
<1> QED
  BY <1>1, SumsAreNumbers DEF Books

\* One step of a transaction after the other.
LEMMA BooksAdd ==
    ASSUME NEW t \in Tables, NEW u, NEW w, NEW m \in Int, NEW n \in Int,
           NEW h \in Int, NEW k \in Int,
           Books(t, u, m, h), Books(u, w, n, k)
    PROVE  Books(t, w, m + n, h + k)
<1>1. Money(t) \in Int /\ Hires(t) \in Int
  BY SumsAreNumbers
<1> QED
  BY <1>1 DEF Books

\* Replacing one account row moves the sums by what the row moves.
LEMMA RowBooks ==
    ASSUME NEW t \in Tables, NEW o \in Account, NEW r \in AccountRow,
           Streaks(t) => r.streak <= r.longest /\ r.longest <= r.total
    PROVE  Books(t, [t EXCEPT !.acct[o] = r], r.balance - t.acct[o].balance,
                 r.total - t.acct[o].total)
<1> DEFINE c == [t EXCEPT !.acct[o] = r]
           b == [q \in Account |-> t.acct[q].balance]
           bc == [q \in Account |-> c.acct[q].balance]
           h == [q \in Account |-> t.acct[q].total]
           hc == [q \in Account |-> c.acct[q].total]
<1>1. c.acct[o] = r /\ \A q \in Account \ {o} : c.acct[q] = t.acct[q]
  BY DEF Tables
<1>2. \A q \in Account : t.acct[q] \in AccountRow
  BY DEF Tables
<1> HIDE DEF c
<1>3. \A q \in Account : b[q] \in Int
  BY <1>2 DEF AccountRow
<1>4. bc[o] = r.balance /\ bc[o] \in Int /\ \A q \in Account \ {o} : bc[q] = b[q]
  BY <1>1 DEF AccountRow
<1>5. \A q \in Account : h[q] \in Int
  BY <1>2 DEF AccountRow
<1>6. hc[o] = r.total /\ hc[o] \in Int /\ \A q \in Account \ {o} : hc[q] = h[q]
  BY <1>1 DEF AccountRow
<1>7. b[o] = t.acct[o].balance /\ h[o] = t.acct[o].total
  OBVIOUS
<1>8. Money(t) = SumOf(b, Account) /\ Money(c) = SumOf(bc, Account)
      /\ Hires(t) = SumOf(h, Account) /\ Hires(c) = SumOf(hc, Account)
  BY DEF Money, Hires
<1> HIDE DEF b, bc, h, hc
<1>9. SumOf(bc, Account) = SumOf(b, Account) - b[o] + bc[o]
  BY <1>3, <1>4, AccountsFinite, SumChange
<1>10. SumOf(hc, Account) = SumOf(h, Account) - h[o] + hc[o]
  BY <1>5, <1>6, AccountsFinite, SumChange
<1>11. SumOf(b, Account) \in Int /\ SumOf(h, Account) \in Int
  BY <1>8, SumsAreNumbers
<1>12. Money(c) = Money(t) + (r.balance - t.acct[o].balance)
  BY <1>3, <1>4, <1>7, <1>8, <1>9, <1>11
<1>13. Hires(c) = Hires(t) + (r.total - t.acct[o].total)
  BY <1>5, <1>6, <1>7, <1>8, <1>10, <1>11
<1>14. Streaks(t) => Streaks(c)
  BY <1>1 DEF Streaks
<1> QED
  BY <1>12, <1>13, <1>14 DEF Books, c

\* A row that keeps its hires moves the sums by what its balance moves.
LEMMA BalanceBooks ==
    ASSUME NEW t \in Tables, NEW o \in Account, NEW r \in AccountRow,
           NEW n \in Int, r.balance = t.acct[o].balance + n,
           r.total = t.acct[o].total, r.longest = t.acct[o].longest,
           r.streak = t.acct[o].streak
    PROVE  Books(t, [t EXCEPT !.acct[o] = r], n, 0)
<1>1. t.acct[o].balance \in Int /\ t.acct[o].total \in Int
  BY DEF Tables, AccountRow
<1>2. r.balance - t.acct[o].balance = n /\ r.total - t.acct[o].total = 0
  BY <1>1
<1>3. Books(t, [t EXCEPT !.acct[o] = r], r.balance - t.acct[o].balance,
            r.total - t.acct[o].total)
  BY RowBooks DEF Streaks
<1> QED
  BY <1>2, <1>3

\* Merging two account rows neither makes up nor loses credits or hires.
LEMMA MigrateBooks ==
    ASSUME NEW t \in Tables, NEW old \in Owner, NEW new \in Owner
    PROVE  Books(t, Migrate(t, old, new), 0, 0)
<1>1. CASE old = new
  BY <1>1, SameAccountsBooks DEF Migrate
<1>2. CASE old # new
  <2> DEFINE a == t.acct[old]
             b == t.acct[new]
             r == Merged(a, b)
             u == [t EXCEPT !.acct[new] = r]
             w == [u EXCEPT !.acct[old] = NoAccount]
  <2>1. a \in AccountRow /\ b \in AccountRow /\ old \in Account /\ new \in Account
    BY DEF Tables, Account
  <2>2. r \in AccountRow
    BY <2>1, MergedType
  <2>3. NoAccount \in AccountRow
    BY DEF NoAccount, AccountRow
  <2>4. u \in Tables /\ u.acct[old] = a
    BY <1>2, <2>1, <2>2 DEF Tables
  <2>5. /\ r.balance = a.balance + b.balance /\ r.total = a.total + b.total
        /\ r.streak = Larger(a.streak, b.streak)
        /\ r.longest = Larger(a.longest, b.longest)
        /\ NoAccount.balance = 0 /\ NoAccount.total = 0
        /\ NoAccount.streak = 0 /\ NoAccount.longest = 0
    BY DEF Merged, NoAccount
  <2>6. /\ a.balance \in Int /\ b.balance \in Int
        /\ a.total \in Nat /\ b.total \in Nat
        /\ a.longest \in Nat /\ b.longest \in Nat
        /\ a.streak \in Nat /\ b.streak \in Nat
    BY <2>1 DEF AccountRow
  <2>7. Migrate(t, old, new).acct = w.acct
    BY <1>2, <2>1 DEF Migrate, Tables
  <2>8. w \in Tables
    BY <2>1, <2>3, <2>4 DEF Tables
  <2>9. Streaks(t) => r.streak <= r.longest /\ r.longest <= r.total
    BY <2>1, <2>5, <2>6 DEF Streaks, Larger
  <2> HIDE DEF r
  <2>10. Books(t, u, r.balance - b.balance, r.total - b.total)
    BY <2>1, <2>2, <2>9, RowBooks
  <2> HIDE DEF u
  <2>11. Books(u, w, NoAccount.balance - u.acct[old].balance,
               NoAccount.total - u.acct[old].total)
    <3>1. NoAccount.streak <= NoAccount.longest /\ NoAccount.longest <= NoAccount.total
      BY <2>5
    <3> QED
      BY <2>1, <2>3, <2>4, <3>1, RowBooks
  <2> HIDE DEF w
  <2>12. Books(w, Migrate(t, old, new), 0, 0)
    BY <2>7, <2>8, SameAccountsBooks
  <2>13. /\ r.balance - b.balance = a.balance /\ r.total - b.total = a.total
         /\ NoAccount.balance - u.acct[old].balance = - a.balance
         /\ NoAccount.total - u.acct[old].total = - a.total
    BY <2>4, <2>5, <2>6
  <2>14. Books(t, u, a.balance, a.total)
    BY <2>10, <2>13
  <2>15. Books(u, w, - a.balance, - a.total)
    BY <2>11, <2>13
  <2>16. Money(t) \in Int /\ Hires(t) \in Int
    BY SumsAreNumbers
  <2> HIDE DEF a
  <2> QED
    BY <2>6, <2>12, <2>14, <2>15, <2>16 DEF Books
<1> QED
  BY <1>1, <1>2

\* The migration every operation starts with moves no credit and no hire.
LEMMA CanonicalizeBooks ==
    ASSUME TypeOK, NEW o \in Owner, NEW t \in Tables
    PROVE  Books(t, Canonicalize(t, o), 0, 0)
BY CanonType, MigrateBooks DEF Canonicalize

\* A credit adds its amount.
LEMMA CreditBooks ==
    ASSUME NEW t \in Tables, NEW o \in Account, NEW amount \in Nat
    PROVE  Books(t, Credit(t, o, amount), amount, 0)
<1> DEFINE r == Credited(t.acct[o], amount)
<1>1. t.acct[o] \in AccountRow
  BY DEF Tables
<1>2. r \in AccountRow
  BY <1>1, RowOperators
<1>3. /\ r.balance = t.acct[o].balance + amount
      /\ r.total = t.acct[o].total /\ r.longest = t.acct[o].longest
      /\ r.streak = t.acct[o].streak
  BY <1>1 DEF Credited, AccountRow
<1>4. Credit(t, o, amount) = [t EXCEPT !.acct[o] = r]
  BY DEF Credit
<1> HIDE DEF r
<1> QED
  BY <1>2, <1>3, <1>4, BalanceBooks

\* A debit takes its amount.
LEMMA DebitBooks ==
    ASSUME NEW t \in Tables, NEW o \in Account, NEW amount \in Nat
    PROVE  Books(t, Debit(t, o, amount), - amount, 0)
<1> DEFINE r == Debited(t.acct[o], amount)
<1>1. t.acct[o] \in AccountRow
  BY DEF Tables
<1>2. r \in AccountRow
  BY <1>1, RowOperators
<1>3. /\ r.balance = t.acct[o].balance + (- amount)
      /\ r.total = t.acct[o].total /\ r.longest = t.acct[o].longest
      /\ r.streak = t.acct[o].streak
  BY <1>1 DEF Debited, AccountRow
<1>4. Debit(t, o, amount) = [t EXCEPT !.acct[o] = r]
  BY DEF Debit
<1> HIDE DEF r
<1> QED
  BY <1>2, <1>3, <1>4, BalanceBooks

\* A refund that finds its row adds its amount.
LEMMA RefundBooks ==
    ASSUME NEW t \in Tables, NEW o \in Account, NEW amount \in Nat,
           t.acct[o].row
    PROVE  Books(t, Refund(t, o, amount), amount, 0)
<1> DEFINE r == Refunded(t.acct[o], amount)
<1>1. t.acct[o] \in AccountRow
  BY DEF Tables
<1>2. r \in AccountRow
  BY <1>1, RowOperators
<1>3. /\ r.balance = t.acct[o].balance + amount
      /\ r.total = t.acct[o].total /\ r.longest = t.acct[o].longest
      /\ r.streak = t.acct[o].streak
  BY <1>1 DEF Refunded, AccountRow
<1>4. Refund(t, o, amount) = [t EXCEPT !.acct[o] = r]
  BY DEF Refund
<1> HIDE DEF r
<1> QED
  BY <1>2, <1>3, <1>4, BalanceBooks

\* A provider number is no credit.
LEMMA RegisterProviderBooks ==
    ASSUME NEW t, Sound(t), NEW p \in Account
    PROVE  Books(t, RegisterProvider(t, p), 0, 0)
<1>1. t \in Tables /\ t.acct[p] \in AccountRow
  BY DEF Sound, Tables
<1>2. CASE t.acct[p].provider # 0
  BY <1>1, <1>2, SameAccountsBooks DEF RegisterProvider
<1>3. CASE t.acct[p].provider = 0
  <2> DEFINE n == NextProviderNumber(t)
             r == [t.acct[p] EXCEPT !.provider = n]
  <2>1. n \in Nat
    BY NextNumberIsFresh
  <2> HIDE DEF n
  <2>2. r \in AccountRow
    BY <1>1, <2>1 DEF AccountRow
  <2>3. /\ r.balance = t.acct[p].balance + 0
        /\ r.total = t.acct[p].total /\ r.longest = t.acct[p].longest
        /\ r.streak = t.acct[p].streak
    BY <1>1 DEF AccountRow
  <2>4. RegisterProvider(t, p) = [t EXCEPT !.acct[p] = r]
    BY <1>3 DEF RegisterProvider, n
  <2> HIDE DEF r
  <2> QED
    BY <1>1, <2>2, <2>3, <2>4, BalanceBooks
<1> QED
  BY <1>2, <1>3

\* The bonus is added to the provider and taken from nobody.
LEMMA PayBonusBooks ==
    ASSUME NEW t, Sound(t), NEW p \in Account, NEW bonus \in Nat
    PROVE  Books(t, PayBonus(t, p, bonus), bonus, 0)
<1>1. Treasury \in Account /\ t \in Tables
  BY DEF Account, Sound
<1>2. CASE bonus = 0
  BY <1>1, <1>2, SameAccountsBooks DEF PayBonus
<1>3. CASE bonus # 0
  <2> DEFINE u == Credit(t, Treasury, 0)
             w == Credit(u, p, bonus)
  <2>1. Sound(u)
    BY <1>1, CreditSound
  <2>2. Books(t, u, 0, 0)
    BY <1>1, CreditBooks
  <2> HIDE DEF u
  <2>3. Books(u, w, bonus, 0)
    BY <2>1, CreditBooks DEF Sound
  <2>4. PayBonus(t, p, bonus) = w
    BY <1>3 DEF PayBonus, u
  <2> HIDE DEF w
  <2>5. Books(t, w, 0 + bonus, 0 + 0)
    BY <1>1, <2>2, <2>3, BooksAdd
  <2> QED
    BY <2>4, <2>5
<1> QED
  BY <1>2, <1>3

\* Counting a hire counts one, and the streak stays within the total.
LEMMA HireBooks ==
    ASSUME NEW t \in Tables, NEW p \in Account, NEW c
    PROVE  Books(t, RecordSuccessfulHire(t, p, c), 0, 1)
<1> DEFINE repeated == IsRepeatHire(t, p, c)
           a == t.acct[p]
           r == Hired(a, repeated)
<1>1. a \in AccountRow
  BY DEF Tables
<1>2. repeated \in BOOLEAN
  BY DEF IsRepeatHire
<1>3. RecordSuccessfulHire(t, p, c) = [t EXCEPT !.acct[p] = r]
  BY DEF RecordSuccessfulHire
<1> HIDE DEF repeated
<1>4. r \in AccountRow /\ r.balance = a.balance
  BY <1>1, <1>2, HiredOperator
<1>5. /\ r.total = a.total + 1 /\ r.streak = a.streak + 1
      /\ r.longest = Larger(a.longest, a.streak + 1)
  BY <1>1 DEF Hired, AccountRow
<1>6. /\ a.balance \in Int /\ a.total \in Nat /\ a.streak \in Nat
      /\ a.longest \in Nat
  BY <1>1 DEF AccountRow
<1>7. Streaks(t) => r.streak <= r.longest /\ r.longest <= r.total
  BY <1>5, <1>6 DEF Streaks, Larger
<1> HIDE DEF r
<1>8. Books(t, [t EXCEPT !.acct[p] = r], r.balance - a.balance, r.total - a.total)
  BY <1>4, <1>7, RowBooks
<1>9. r.balance - a.balance = 0 /\ r.total - a.total = 1
  BY <1>4, <1>5, <1>6
<1> QED
  BY <1>3, <1>8, <1>9

-----------------------------------------------------------------------------
(* What a transaction does to the escrows                                  *)

SameEscrows(t, u) ==
    \A e \in EscrowId : /\ u.escrow[e].status = t.escrow[e].status
                        /\ u.escrow[e].amount = t.escrow[e].amount
                        /\ u.escrow[e].funding = t.escrow[e].funding
                        /\ u.hiredFrom[e] = None <=> t.hiredFrom[e] = None

\* Moving a legacy owner's rows leaves every escrow what it was.
LEMMA CanonicalizeSame ==
    ASSUME TypeOK, NEW o \in Owner, NEW t \in Tables
    PROVE  SameEscrows(t, Canonicalize(t, o))
BY CanonicalizeKeepsEscrows DEF SameEscrows

\* The operations on account rows touch no other table.
LEMMA AccountsOnly ==
    ASSUME NEW t \in Tables, NEW o \in Account, NEW n, NEW x
    PROVE  /\ SameEscrows(t, Credit(t, o, n))
           /\ SameEscrows(t, Debit(t, o, n))
           /\ SameEscrows(t, Refund(t, o, n))
           /\ SameEscrows(t, RegisterProvider(t, o))
           /\ SameEscrows(t, PayBonus(t, o, n))
           /\ SameEscrows(t, RecordSuccessfulHire(t, o, x))
<1>1. \A u, f : /\ [u EXCEPT !.acct = f].escrow = u.escrow
                /\ [u EXCEPT !.acct = f].hiredFrom = u.hiredFrom
  OBVIOUS
<1> QED
  BY DEF SameEscrows, Credit, Debit, Refund, RegisterProvider, PayBonus,
         RecordSuccessfulHire, Tables

Kept(e) ==
    /\ escrow'[e].status = escrow[e].status
    /\ escrow'[e].amount = escrow[e].amount
    /\ escrow'[e].funding = escrow[e].funding
    /\ paid'[e] = paid[e]
    /\ hiredFrom'[e] = None <=> hiredFrom[e] = None

Opened(e) ==
    /\ escrow[e].status = "none" /\ escrow'[e].status = "held"
    /\ escrow'[e].amount \in HoldAmount
    /\ paid'[e] = paid[e]
    /\ hiredFrom'[e] = None <=> hiredFrom[e] = None

Moved(e) ==
    /\ escrow[e].status \in Finalizable /\ escrow'[e].status \in Finalizable
    /\ Rank(escrow[e].status) <= Rank(escrow'[e].status)
    /\ escrow'[e].amount = escrow[e].amount
    /\ paid'[e] = paid[e]
    /\ hiredFrom'[e] = None <=> hiredFrom[e] = None

Closed(e) ==
    /\ escrow[e].status \in Finalizable
    /\ escrow'[e].amount = escrow[e].amount
    /\ \/ /\ escrow'[e].status = "settled" /\ hiredFrom'[e] # None
          /\ paid'[e] = paid[e] + escrow[e].amount
       \/ /\ escrow'[e].status = "settled"
          /\ hiredFrom'[e] = None <=> hiredFrom[e] = None
          /\ paid'[e] = paid[e]
       \/ /\ escrow'[e].status = "released"
          /\ hiredFrom'[e] = None <=> hiredFrom[e] = None
          /\ paid'[e] = paid[e] + escrow[e].amount

EscrowStep(e) == Kept(e) \/ Opened(e) \/ Moved(e) \/ Closed(e)

OtherTypes ==
    /\ legacyOwner \in [AgentId -> LegacyName \cup {None}]
    /\ paid \in [EscrowId -> Nat]
    /\ earned \in [Nonce -> Nat]
    /\ minted \in Nat

PaidByPhase ==
    \A e \in EscrowId :
        /\ escrow[e].status = "none" => escrow[e].amount = 0
        /\ hiredFrom[e] # None => escrow[e].status = "settled"
        /\ paid[e] = IF Phase(e) \in {"paid", "refunded"}
                     THEN escrow[e].amount ELSE 0

\* What an escrow row stands for in the books: credits of a balance that are
\* tied up, or sent elsewhere without a pay-out here; or credits that a voucher
\* paid into a balance.
Worth(x, out) ==
    IF out = 0 THEN IF x.funding = "balance" THEN x.amount ELSE 0
               ELSE IF x.funding = "voucher" THEN - x.amount ELSE 0

Worths == [e \in EscrowId |-> Worth(escrow[e], paid[e])]
HiredFor == {e \in EscrowId : hiredFrom[e] # None}

BooksBalance ==
    /\ Money(tables) + SumOf(Worths, EscrowId) = minted
    /\ Hires(tables) = Cardinality(HiredFor)
    /\ Streaks(tables)

\* The inductive invariant.
LedgerInv == TypeOK /\ Sound(tables) /\ PaidByPhase /\ BooksBalance

GoodStep == /\ Sound(tables)'
            /\ OtherTypes'
            /\ \A e \in EscrowId : EscrowStep(e)
            /\ BooksBalance'

\* Committed tables are the next state's tables.
LEMMA CommitSound ==
    ASSUME NEW t, Sound(t), Commit(t)
    PROVE  Sound(tables)' /\ tables' = t
<1>1. t = [acct |-> t.acct, escrow |-> t.escrow, voucher |-> t.voucher,
           hiredFrom |-> t.hiredFrom]
  BY DEF Sound, Tables
<1>2. tables' = t
  BY <1>1 DEF Commit, tables
<1> QED
  BY <1>2

\* A transaction that leaves the escrows alone takes no escrow anywhere.
LEMMA SameIsKept ==
    ASSUME NEW t, SameEscrows(tables, t), Commit(t), paid' = paid
    PROVE  \A e \in EscrowId : EscrowStep(e) /\ Kept(e)
BY DEF SameEscrows, tables, Commit, EscrowStep, Kept

\* Leaving the escrows alone twice is leaving them alone.
LEMMA SameTransitive ==
    ASSUME NEW t, NEW u, NEW w, SameEscrows(t, u), SameEscrows(u, w)
    PROVE  SameEscrows(t, w)
BY DEF SameEscrows

\* The worth of an escrow is a number, and an escrow that is kept keeps it.
LEMMA WorthKept ==
    ASSUME LedgerInv, NEW e \in EscrowId
    PROVE  /\ Worths[e] = Worth(escrow[e], paid[e])
           /\ Worths[e] \in Int
           /\ Worths'[e] = Worth(escrow'[e], paid'[e])
           /\ Kept(e) => Worths'[e] = Worths[e]
BY DEF LedgerInv, TypeOK, EscrowRow, Worths, Worth, Kept

\* The books of a step that changes no escrow balance if what the balances
\* gain is what is created.
LEMMA NoEntryBooks ==
    ASSUME LedgerInv, NEW t, Sound(t), Commit(t), NEW m \in Int,
           Books(tables, t, m, 0), \A e \in EscrowId : Kept(e),
           minted' = minted + m
    PROVE  BooksBalance'
<1>1. tables' = t
  BY CommitSound
<1>2. /\ Money(tables)' = Money(t) /\ Hires(tables)' = Hires(t)
      /\ Streaks(tables)' <=> Streaks(t)
  BY <1>1 DEF Money, Hires, Streaks
<1>3. SumOf(Worths', EscrowId) = SumOf(Worths, EscrowId)
  BY WorthKept, FiniteAssumption, SumEqual
<1>4. SumOf(Worths, EscrowId) \in Int
  BY WorthKept, FiniteAssumption, SumInt
<1>5. HiredFor' = HiredFor
  BY DEF HiredFor, Kept
<1>6. Money(tables) \in Int /\ Hires(tables) \in Int /\ minted \in Nat
  BY SumsAreNumbers DEF LedgerInv, Sound, TypeOK
<1>7. SumOf(Worths, EscrowId)' = SumOf(Worths, EscrowId)
  BY <1>3
<1>8. Cardinality(HiredFor)' = Cardinality(HiredFor)
  BY <1>5
<1> QED
  BY <1>2, <1>4, <1>6, <1>7, <1>8 DEF Books, BooksBalance, LedgerInv

\* The books of a step that changes one escrow balance if the balances, the
\* escrow and the credits created move together, and a hire is counted when
\* and only when a settlement row appears.
LEMMA OneEntryBooks ==
    ASSUME LedgerInv, NEW t, Sound(t), Commit(t), NEW m \in Int, NEW h \in {0, 1},
           Books(tables, t, m, h), NEW e \in EscrowId,
           \A f \in EscrowId \ {e} : Kept(f),
           paid'[e] \in Nat, escrow'[e].amount \in Nat,
           minted' = minted + m + Worth(escrow'[e], paid'[e])
                            - Worth(escrow[e], paid[e]),
           h = 0 => (hiredFrom'[e] = None <=> hiredFrom[e] = None),
           h = 1 => hiredFrom[e] = None /\ hiredFrom'[e] # None
    PROVE  BooksBalance'
<1>1. tables' = t
  BY CommitSound
<1>2. /\ Money(tables)' = Money(t) /\ Hires(tables)' = Hires(t)
      /\ Streaks(tables)' <=> Streaks(t)
  BY <1>1 DEF Money, Hires, Streaks
<1>3. /\ Worths'[e] = Worth(escrow'[e], paid'[e]) /\ Worths'[e] \in Int
      /\ \A f \in EscrowId \ {e} : Worths'[f] = Worths[f]
  BY WorthKept DEF Worth
<1>4. \A f \in EscrowId : Worths[f] \in Int
  BY WorthKept
<1>5. SumOf(Worths', EscrowId) = SumOf(Worths, EscrowId) - Worths[e] + Worths'[e]
  BY <1>3, <1>4, FiniteAssumption, SumChange
<1>6. SumOf(Worths, EscrowId) \in Int
  BY <1>4, FiniteAssumption, SumInt
<1>7. Money(tables) \in Int /\ Hires(tables) \in Int /\ minted \in Nat
  BY SumsAreNumbers DEF LedgerInv, Sound, TypeOK
<1>8. SumOf(Worths, EscrowId)' = SumOf(Worths, EscrowId) - Worths[e] + Worths'[e]
  BY <1>5
<1>9. Worths[e] = Worth(escrow[e], paid[e])
  BY WorthKept
<1>10. Money(tables)' + SumOf(Worths, EscrowId)' = minted'
  BY <1>2, <1>3, <1>4, <1>6, <1>7, <1>8, <1>9 DEF Books, BooksBalance, LedgerInv
<1>11. Hires(tables)' = Cardinality(HiredFor)'
  <2>1. Hires(tables)' = Cardinality(HiredFor) + h
    BY <1>2, <1>7 DEF Books, BooksBalance, LedgerInv
  <2>2. IsFiniteSet(HiredFor)
    BY FiniteAssumption, FS_Subset DEF HiredFor
  <2>3. Cardinality(HiredFor) \in Nat
    BY <2>2, FS_CardinalityType
  <2>4. CASE h = 0
    <3>1. HiredFor' = HiredFor
      BY <2>4 DEF HiredFor, Kept
    <3> QED
      BY <2>1, <2>3, <2>4, <3>1
  <2>5. CASE h = 1
    <3>1. HiredFor' = HiredFor \cup {e} /\ e \notin HiredFor
      BY <2>5 DEF HiredFor, Kept
    <3>2. Cardinality(HiredFor \cup {e}) = Cardinality(HiredFor) + 1
      BY <2>2, <3>1, FS_AddElement
    <3> QED
      BY <2>1, <2>5, <3>1, <3>2
  <2> QED
    BY <2>4, <2>5
<1>12. Streaks(tables)'
  BY <1>2 DEF Books, BooksBalance, LedgerInv
<1> QED
  BY <1>10, <1>11, <1>12 DEF BooksBalance

\* The books balance after a step that leaves all they speak of alone.
LEMMA SameBooks ==
    ASSUME LedgerInv, tables' = tables, UNCHANGED <<paid, minted>>
    PROVE  BooksBalance'
<1>1. escrow' = escrow /\ hiredFrom' = hiredFrom
  BY DEF tables
<1>2. Worths' = Worths /\ HiredFor' = HiredFor
  BY <1>1 DEF Worths, HiredFor
<1> QED
  BY <1>2 DEF BooksBalance, LedgerInv, Money, Hires, Streaks

\* A good step keeps the inductive invariant.
LEMMA GoodStepKeepsInv ==
    ASSUME LedgerInv, GoodStep
    PROVE  LedgerInv'
<1>1. TypeOK'
  BY DEF GoodStep, Sound, Tables, tables, OtherTypes, TypeOK
<1>2. PaidByPhase'
  <2> SUFFICES ASSUME NEW e \in EscrowId
               PROVE  /\ escrow'[e].status = "none" => escrow'[e].amount = 0
                      /\ hiredFrom'[e] # None => escrow'[e].status = "settled"
                      /\ paid'[e] = IF Phase(e)' \in {"paid", "refunded"}
                                    THEN escrow'[e].amount ELSE 0
    BY DEF PaidByPhase
  <2>1. /\ escrow[e].status = "none" => escrow[e].amount = 0
        /\ hiredFrom[e] # None => escrow[e].status = "settled"
        /\ paid[e] = IF Phase(e) \in {"paid", "refunded"}
                     THEN escrow[e].amount ELSE 0
        /\ escrow[e].amount \in Nat
    BY DEF LedgerInv, PaidByPhase, TypeOK, EscrowRow
  <2>2. EscrowStep(e)
    BY DEF GoodStep
  <2> QED
    BY <2>1, <2>2
    DEF EscrowStep, Kept, Opened, Moved, Closed, Phase, Finalizable
<1> QED
  BY <1>1, <1>2 DEF LedgerInv, GoodStep

-----------------------------------------------------------------------------
(* One lemma per action                                                    *)

\* The tables an action starts from: those the caller's migration leaves.
LEMMA Migrated ==
    ASSUME LedgerInv, NEW o \in Owner
    PROVE  /\ Canon(o) \in Owner /\ Canon(o) \in Account
           /\ Sound(Canonicalize(tables, o))
           /\ Canonicalize(tables, o) \in Tables
           /\ SameEscrows(tables, Canonicalize(tables, o))
           /\ tables \in Tables
           /\ Books(tables, Canonicalize(tables, o), 0, 0)
<1>1. tables \in Tables
  BY DEF LedgerInv, Sound
<1>2. Sound(Canonicalize(tables, o))
  BY CanonicalizeSound DEF LedgerInv
<1>3. Books(tables, Canonicalize(tables, o), 0, 0)
  BY <1>1, CanonicalizeBooks DEF LedgerInv
<1> QED
  BY <1>1, <1>2, <1>3, CanonType, CanonicalizeSame DEF LedgerInv, Sound, Account

\* Claiming a name changes no table of credits.
LEMMA ClaimNameGood ==
    ASSUME LedgerInv, NEW a \in AgentId, NEW l \in LegacyName, ClaimName(a, l)
    PROVE  GoodStep
<1>1. tables' = tables /\ legacyOwner' \in [AgentId -> LegacyName \cup {None}]
  BY DEF ClaimName, LedgerInv, TypeOK, tables
<1>2. BooksBalance'
  BY <1>1, SameBooks DEF ClaimName
<1> QED
  BY <1>1, <1>2
  DEF ClaimName, LedgerInv, TypeOK, OtherTypes, GoodStep, EscrowStep, Kept

\* A read migrates its owner and does nothing else.
LEMMA ReadOwnerGood ==
    ASSUME LedgerInv, NEW o \in Owner, ReadOwner(o)
    PROVE  GoodStep
<1> DEFINE t == Canonicalize(tables, o)
<1>1. Sound(t) /\ SameEscrows(tables, t) /\ Books(tables, t, 0, 0)
  BY Migrated
<1>2. Commit(t) /\ UNCHANGED <<legacyOwner, paid, earned, minted>>
  BY DEF ReadOwner
<1> HIDE DEF t
<1>3. \A e \in EscrowId : EscrowStep(e) /\ Kept(e)
  BY <1>1, <1>2, SameIsKept
<1>4. minted' = minted + 0
  BY <1>2 DEF LedgerInv, TypeOK
<1>5. BooksBalance'
  BY <1>1, <1>2, <1>3, <1>4, NoEntryBooks
<1> QED
  BY <1>1, <1>2, <1>3, <1>5, CommitSound
  DEF LedgerInv, TypeOK, OtherTypes, GoodStep

\* A bootstrap is sound whether or not the process dies before the voucher.
LEMMA BootstrapGood ==
    ASSUME LedgerInv, NEW o \in Owner, NEW dies \in BOOLEAN, Bootstrap(o, dies)
    PROVE  GoodStep
<1> DEFINE c == Canon(o)
           t == Canonicalize(tables, o)
           g == Credit(t, c, Grant)
           issued(v) == [g EXCEPT !.voucher[v] =
                  [owner |-> c, remaining |-> VoucherGrant, live |-> TRUE]]
<1>1. c \in Owner /\ c \in Account /\ Sound(t) /\ t \in Tables
      /\ SameEscrows(tables, t) /\ Books(tables, t, 0, 0) /\ tables \in Tables
  BY Migrated
<1>2. UNCHANGED <<legacyOwner, paid, earned>> /\ minted' = minted + Grant
      /\ \/ Commit(g)
         \/ \E v \in VoucherId : Commit(issued(v))
  BY DEF Bootstrap
<1> HIDE DEF c, t
<1>3. Sound(g) /\ g.acct[c].row /\ SameEscrows(t, g)
  BY <1>1, CreditSound, AccountsOnly, AmountsAssumption
<1>4. Books(tables, g, Grant, 0)
  <2>1. Books(t, g, Grant, 0)
    BY <1>1, CreditBooks, AmountsAssumption
  <2> HIDE DEF g
  <2>2. Books(tables, g, 0 + Grant, 0 + 0)
    BY <1>1, <2>1, AmountsAssumption, BooksAdd
  <2> QED
    BY <2>2, AmountsAssumption
<1>5. ASSUME NEW v \in VoucherId
      PROVE  /\ Sound(issued(v)) /\ SameEscrows(g, issued(v))
             /\ issued(v).acct = g.acct
  <2> DEFINE w == [owner |-> c, remaining |-> VoucherGrant, live |-> TRUE]
  <2>1. w \in VoucherRow /\ w.owner = c /\ w.remaining = VoucherGrant
    BY <1>1, AmountsAssumption DEF VoucherRow
  <2>2. w.remaining <= VoucherGrant
    BY <2>1, AmountsAssumption
  <2> HIDE DEF w, g
  <2>3. Sound([g EXCEPT !.voucher[v] = w])
    BY <1>3, <2>1, <2>2, VoucherUpdateSound
  <2>4. SameEscrows(g, [g EXCEPT !.voucher[v] = w])
    BY <1>3 DEF SameEscrows, Sound, Tables
  <2>5. [g EXCEPT !.voucher[v] = w].acct = g.acct
    OBVIOUS
  <2> QED
    BY <2>3, <2>4, <2>5 DEF w
<1>6. \E u : /\ Sound(u) /\ SameEscrows(tables, u) /\ Commit(u)
            /\ Books(tables, u, Grant, 0)
  <2>1. CASE Commit(g)
    BY <1>1, <1>3, <1>4, <2>1, SameTransitive
  <2>2. CASE \E v \in VoucherId : Commit(issued(v))
    <3>1. PICK v \in VoucherId : Commit(issued(v))
      BY <2>2
    <3> HIDE DEF g, issued
    <3>2. issued(v).acct = g.acct
      BY <1>5
    <3>3. Books(tables, issued(v), Grant, 0)
      BY <1>4, <3>2 DEF Books, Money, Hires, Streaks
    <3> QED
      BY <1>1, <1>3, <1>5, <3>1, <3>3, SameTransitive
  <2> QED
    BY <1>2, <2>1, <2>2
<1>7. Sound(tables)' /\ BooksBalance' /\ \A e \in EscrowId : EscrowStep(e)
  <2>1. PICK u : /\ Sound(u) /\ SameEscrows(tables, u) /\ Commit(u)
                 /\ Books(tables, u, Grant, 0)
    BY <1>6
  <2>2. \A e \in EscrowId : EscrowStep(e) /\ Kept(e)
    BY <1>2, <2>1, SameIsKept
  <2>3. BooksBalance'
    BY <1>2, <2>1, <2>2, AmountsAssumption, NoEntryBooks
  <2> QED
    BY <2>1, <2>2, <2>3, CommitSound
<1> QED
  BY <1>2, <1>7, AmountsAssumption DEF LedgerInv, TypeOK, OtherTypes, GoodStep

\* An expired voucher keeps its owner and its remainder.
LEMMA ExpireVoucherGood ==
    ASSUME LedgerInv, NEW v \in VoucherId, ExpireVoucher(v)
    PROVE  GoodStep
<1> DEFINE w == [voucher[v] EXCEPT !.live = FALSE]
           t == [tables EXCEPT !.voucher[v] = w]
<1>1. /\ w \in VoucherRow /\ w.owner = voucher[v].owner
      /\ w.remaining = voucher[v].remaining
  BY DEF LedgerInv, TypeOK, VoucherRow
<1>2. w.remaining <= VoucherGrant /\ (w.owner # None => tables.acct[w.owner].row)
  BY <1>1
  DEF LedgerInv, Sound, VouchersCovered, OwnersHaveRows, tables
<1>3. voucher' = [voucher EXCEPT ![v] = w]
  BY DEF ExpireVoucher
<1>4. UNCHANGED <<legacyOwner, acct, escrow, hiredFrom, paid, earned, minted>>
  BY DEF ExpireVoucher
<1> HIDE DEF w
<1>5. Sound(t)
  BY <1>1, <1>2, VoucherUpdateSound DEF LedgerInv
<1>6. Commit(t)
  BY <1>3, <1>4 DEF Commit, tables
<1>7. BooksBalance'
  <2>1. t.acct = tables.acct
    OBVIOUS
  <2>2. Books(tables, t, 0, 0)
    <3> HIDE DEF t
    <3> QED
      BY <2>1, SameAccountsBooks DEF LedgerInv, Sound
  <2>3. \A e \in EscrowId : Kept(e)
    BY <1>4 DEF Kept
  <2>4. minted' = minted + 0
    BY <1>4 DEF LedgerInv, TypeOK
  <2> HIDE DEF t
  <2> QED
    BY <1>5, <1>6, <2>2, <2>3, <2>4, NoEntryBooks
<1> QED
  BY <1>4, <1>5, <1>6, <1>7, CommitSound
  DEF LedgerInv, TypeOK, OtherTypes, GoodStep, EscrowStep, Kept

\* A freshly held escrow is the only one that changes.
LEMMA OpensEscrow ==
    ASSUME NEW t \in Tables, SameEscrows(tables, t), paid' = paid,
           NEW amount \in HoldAmount, NEW e \in EscrowId,
           escrow[e].status = "none",
           escrow' = [t.escrow EXCEPT ![e] = escrow'[e]],
           escrow'[e].status = "held", escrow'[e].amount = amount,
           hiredFrom' = t.hiredFrom
    PROVE  \A f \in EscrowId : EscrowStep(f) /\ (f # e => Kept(f))
<1> SUFFICES ASSUME NEW f \in EscrowId
             PROVE  EscrowStep(f) /\ (f # e => Kept(f))
  OBVIOUS
<1>1. CASE f = e
  BY <1>1 DEF SameEscrows, tables, EscrowStep, Opened
<1>2. CASE f # e
  <2>1. escrow'[f] = t.escrow[f]
    BY <1>2 DEF Tables
  <2> QED
    BY <2>1 DEF SameEscrows, tables, EscrowStep, Kept
<1> QED
  BY <1>1, <1>2

\* A voucher hold opens its escrow and stays within the voucher.
LEMMA HoldFromVoucherGood ==
    ASSUME LedgerInv, NEW o \in Owner, NEW amount \in HoldAmount,
           NEW e \in EscrowId, HoldFromVoucher(o, amount, e)
    PROVE  GoodStep
<1> DEFINE c == Canon(o)
           t == Canonicalize(tables, o)
           x == [status |-> "held", owner |-> c, amount |-> amount,
                 funding |-> "voucher"]
<1>1. c \in Owner /\ Sound(t) /\ t \in Tables /\ SameEscrows(tables, t)
      /\ Books(tables, t, 0, 0)
  BY Migrated
<1>2. /\ escrow[e].status = "none"
      /\ UNCHANGED <<legacyOwner, paid, earned, minted>>
  BY DEF HoldFromVoucher
<1>3. PICK v \in VoucherId :
         /\ Covers(t, v, c, amount)
         /\ Commit([t EXCEPT !.voucher[v].remaining = @ - amount,
                             !.escrow[e] = x])
  BY DEF HoldFromVoucher
<1> HIDE DEF c, t
<1> DEFINE left == t.voucher[v].remaining - amount
           w == [t.voucher[v] EXCEPT !.remaining = left]
<1>4. /\ t.voucher[v] \in VoucherRow /\ t.voucher[v].owner = c
      /\ t.voucher[v].remaining >= amount
      /\ t.voucher[v].remaining <= VoucherGrant
  BY <1>1, <1>3
  DEF Covers, IsOldestActive, IsActive, Sound, Tables, VouchersCovered
<1>5. amount \in Nat /\ left \in Nat /\ left <= VoucherGrant
  BY <1>4, AmountsAssumption DEF VoucherRow
<1> HIDE DEF left
<1>6. w \in VoucherRow /\ w.owner = c /\ w.remaining = left
  BY <1>4, <1>5 DEF VoucherRow
<1>7. t.acct[c].row
  BY <1>1, <1>4, NamesAssumption DEF Sound, OwnersHaveRows, Account
<1> DEFINE u == [t EXCEPT !.voucher[v] = w]
<1>8. x \in EscrowRow /\ x.owner = c /\ x.status = "held" /\ x.amount = amount
      /\ x.funding = "voucher"
  BY <1>1, <1>5 DEF EscrowRow, Finalizable
<1>9. Commit([u EXCEPT !.escrow[e] = x])
  BY <1>3 DEF left
<1> HIDE DEF w, x
<1>10. Sound(u) /\ u.acct = t.acct /\ u.hiredFrom = t.hiredFrom
       /\ u.escrow = t.escrow
  BY <1>1, <1>5, <1>6, <1>7, VoucherUpdateSound
<1> HIDE DEF u
<1> DEFINE y == [u EXCEPT !.escrow[e] = x]
<1>11. Sound(y) /\ y.acct = t.acct
  BY <1>1, <1>7, <1>8, <1>10, EscrowUpdateSound
<1>12. /\ escrow' = [t.escrow EXCEPT ![e] = x] /\ escrow'[e] = x
       /\ hiredFrom' = t.hiredFrom
  BY <1>1, <1>9, <1>10 DEF Commit, Sound, Tables
<1>13. \A f \in EscrowId : EscrowStep(f) /\ (f # e => Kept(f))
  BY <1>1, <1>2, <1>8, <1>12, OpensEscrow
<1> HIDE DEF y
<1>14. BooksBalance'
  <2>1. paid[e] = 0 /\ paid'[e] = 0 /\ escrow[e].amount = 0
        /\ (hiredFrom'[e] = None <=> hiredFrom[e] = None)
    BY <1>1, <1>2, <1>12
    DEF LedgerInv, PaidByPhase, Phase, SameEscrows, tables
  <2>2. Worth(escrow[e], paid[e]) = 0 /\ Worth(escrow'[e], paid'[e]) = 0
    BY <1>8, <1>12, <2>1 DEF Worth
  <2>3. Books(tables, y, 0, 0)
    BY <1>1, <1>11 DEF Books, Money, Hires, Streaks
  <2>4. escrow'[e].amount \in Nat
    BY <1>5, <1>8, <1>12
  <2>5. minted' = minted + 0 + Worth(escrow'[e], paid'[e])
                           - Worth(escrow[e], paid[e])
    BY <1>2, <2>2 DEF LedgerInv, TypeOK
  <2> QED
    BY <1>9, <1>11, <1>13, <2>1, <2>3, <2>4, <2>5, OneEntryBooks DEF y
<1> QED
  BY <1>2, <1>9, <1>11, <1>13, <1>14, CommitSound
  DEF LedgerInv, TypeOK, OtherTypes, GoodStep, y

\* A balance hold opens its escrow and stays within the balance.
LEMMA HoldFromBalanceGood ==
    ASSUME LedgerInv, NEW o \in Owner, NEW amount \in HoldAmount,
           NEW e \in EscrowId, HoldFromBalance(o, amount, e)
    PROVE  GoodStep
<1> DEFINE c == Canon(o)
           t == Canonicalize(tables, o)
           x == [status |-> "held", owner |-> c, amount |-> amount,
                 funding |-> "balance"]
           u == Debit(t, c, amount)
<1>1. c \in Owner /\ c \in Account /\ Sound(t) /\ t \in Tables
      /\ SameEscrows(tables, t)
      /\ Books(tables, t, 0, 0) /\ tables \in Tables
  BY Migrated
<1>2. /\ escrow[e].status = "none"
      /\ CanAfford(t, c, amount)
      /\ Commit([u EXCEPT !.escrow[e] = x])
      /\ UNCHANGED <<legacyOwner, paid, earned, minted>>
  BY DEF HoldFromBalance
<1> HIDE DEF c, t
<1>3. amount \in Nat
  BY AmountsAssumption
<1>4. Sound(u) /\ u.acct[c].row
  BY <1>1, <1>2, <1>3, DebitSound
<1>5. u.hiredFrom = t.hiredFrom /\ u.escrow = t.escrow
  BY DEF Debit
<1>6. Books(t, u, - amount, 0)
  BY <1>1, <1>3, DebitBooks
<1>7. x \in EscrowRow /\ x.owner = c /\ x.status = "held" /\ x.amount = amount
      /\ x.funding = "balance"
  BY <1>1, <1>3 DEF EscrowRow, Finalizable
<1> HIDE DEF u, x
<1> DEFINE y == [u EXCEPT !.escrow[e] = x]
<1>8. Sound(y) /\ y.acct = u.acct
  BY <1>1, <1>4, <1>7, EscrowUpdateSound
<1>9. /\ escrow' = [t.escrow EXCEPT ![e] = x] /\ escrow'[e] = x
      /\ hiredFrom' = t.hiredFrom
  BY <1>1, <1>2, <1>4, <1>5 DEF Commit, Sound, Tables
<1>10. \A f \in EscrowId : EscrowStep(f) /\ (f # e => Kept(f))
  BY <1>1, <1>2, <1>7, <1>9, OpensEscrow
<1> HIDE DEF y
<1>11. BooksBalance'
  <2>1. paid[e] = 0 /\ paid'[e] = 0 /\ escrow[e].amount = 0
        /\ (hiredFrom'[e] = None <=> hiredFrom[e] = None)
    BY <1>1, <1>2, <1>9
    DEF LedgerInv, PaidByPhase, Phase, SameEscrows, tables
  <2>2. Worth(escrow[e], paid[e]) = 0 /\ Worth(escrow'[e], paid'[e]) = amount
    BY <1>7, <1>9, <2>1 DEF Worth
  <2>3. Books(tables, u, 0 + (- amount), 0 + 0)
    BY <1>1, <1>3, <1>6, BooksAdd
  <2>4. Books(tables, y, - amount, 0)
    BY <1>3, <1>8, <2>3 DEF Books, Money, Hires, Streaks
  <2>5. escrow'[e].amount \in Nat /\ - amount \in Int
    BY <1>3, <1>7, <1>9
  <2>6. minted' = minted + (- amount) + Worth(escrow'[e], paid'[e])
                                    - Worth(escrow[e], paid[e])
    BY <1>2, <1>3, <2>2 DEF LedgerInv, TypeOK
  <2> QED
    BY <1>2, <1>8, <1>10, <2>1, <2>4, <2>5, <2>6, OneEntryBooks DEF y
<1> QED
  BY <1>2, <1>8, <1>10, <1>11, CommitSound
  DEF LedgerInv, TypeOK, OtherTypes, GoodStep, y

\* Setting a status changes the status of that escrow and nothing else.
LEMMA SetStatusEffect ==
    ASSUME NEW t \in Tables, NEW e \in EscrowId, NEW status
    PROVE  /\ SetStatus(t, e, status).hiredFrom = t.hiredFrom
           /\ SetStatus(t, e, status).escrow[e].status = status
           /\ SetStatus(t, e, status).escrow[e].amount = t.escrow[e].amount
           /\ SetStatus(t, e, status).escrow[e].funding = t.escrow[e].funding
           /\ SetStatus(t, e, status).acct = t.acct
           /\ \A f \in EscrowId \ {e} :
                 SetStatus(t, e, status).escrow[f] = t.escrow[f]
BY DEF SetStatus, Tables, EscrowRow

\* A step that sets one status and leaves the other escrows alone.
LEMMA OneStatusStep ==
    ASSUME NEW t \in Tables, SameEscrows(tables, t), NEW e \in EscrowId,
           NEW status, Commit(SetStatus(t, e, status)),
           \A f \in EscrowId \ {e} : paid'[f] = paid[f]
    PROVE  /\ \A f \in EscrowId \ {e} : EscrowStep(f) /\ Kept(f)
           /\ escrow'[e].status = status
           /\ escrow'[e].amount = escrow[e].amount
           /\ escrow'[e].funding = escrow[e].funding
           /\ hiredFrom'[e] = None <=> hiredFrom[e] = None
<1>1. /\ escrow'[e].status = status /\ escrow'[e].amount = t.escrow[e].amount
      /\ escrow'[e].funding = t.escrow[e].funding
      /\ hiredFrom' = t.hiredFrom
      /\ \A f \in EscrowId \ {e} : escrow'[f] = t.escrow[f]
  BY SetStatusEffect DEF Commit
<1> QED
  BY <1>1 DEF SameEscrows, tables, EscrowStep, Kept

\* The owner of an open escrow, and the escrow after the owner's migration.
LEMMA OpenEscrow ==
    ASSUME LedgerInv, NEW e \in EscrowId, escrow[e].status # "none"
    PROVE  /\ escrow[e].owner \in Owner
           /\ LET t == Canonicalize(tables, escrow[e].owner)
              IN  /\ Sound(t) /\ t \in Tables /\ SameEscrows(tables, t)
                  /\ t.escrow[e].status # "none"
                  /\ Books(tables, t, 0, 0) /\ tables \in Tables
<1>1. escrow[e].owner \in Owner
  BY DEF LedgerInv, Sound, OwnersHaveRows, tables
<1> QED
  BY <1>1, Migrated DEF SameEscrows, tables

\* A status by itself is in no book.
LEMMA StatusBooks ==
    ASSUME LedgerInv, NEW t \in Tables, SameEscrows(tables, t),
           Books(tables, t, 0, 0), NEW e \in EscrowId, NEW status,
           Sound(SetStatus(t, e, status)), Commit(SetStatus(t, e, status)),
           UNCHANGED <<paid, minted>>
    PROVE  BooksBalance'
<1> DEFINE c == SetStatus(t, e, status)
<1>1. c.acct = t.acct
  BY SetStatusEffect
<1>2. Books(tables, c, 0, 0)
  BY <1>1 DEF Books, Money, Hires, Streaks
<1>3. /\ \A f \in EscrowId \ {e} : Kept(f)
      /\ escrow'[e].amount = escrow[e].amount
      /\ escrow'[e].funding = escrow[e].funding
      /\ hiredFrom'[e] = None <=> hiredFrom[e] = None
  BY OneStatusStep
<1>4. Worth(escrow'[e], paid'[e]) = Worth(escrow[e], paid[e])
  BY <1>3 DEF Worth
<1>5. Worth(escrow[e], paid[e]) \in Int /\ minted \in Nat
      /\ paid'[e] \in Nat /\ escrow'[e].amount \in Nat
  BY <1>3, WorthKept DEF LedgerInv, TypeOK, EscrowRow
<1>6. minted' = minted + 0 + Worth(escrow'[e], paid'[e])
                         - Worth(escrow[e], paid[e])
  BY <1>4, <1>5
<1> HIDE DEF c
<1> QED
  BY <1>2, <1>3, <1>5, <1>6, OneEntryBooks DEF c

\* A status update along the ranks moves one open escrow.
LEMMA UpdateStatusGood ==
    ASSUME LedgerInv, NEW e \in EscrowId, NEW from, NEW to \in Finalizable,
           from \subseteq Finalizable, \A s \in from : Rank(s) <= Rank(to),
           UpdateStatus(e, from, to)
    PROVE  GoodStep
<1> DEFINE t == Canonicalize(tables, escrow[e].owner)
<1>1. /\ escrow[e].status \in from /\ escrow[e].status # "none"
      /\ Commit(SetStatus(t, e, to))
      /\ UNCHANGED <<legacyOwner, paid, earned, minted>>
  BY DEF UpdateStatus, Finalizable
<1>2. Sound(t) /\ t \in Tables /\ SameEscrows(tables, t)
      /\ t.escrow[e].status # "none" /\ Books(tables, t, 0, 0)
  BY <1>1, OpenEscrow
<1> HIDE DEF t
<1>3. Sound(SetStatus(t, e, to))
  BY <1>2, SetStatusSound
<1>4. /\ \A f \in EscrowId \ {e} : EscrowStep(f)
      /\ escrow'[e].status = to /\ escrow'[e].amount = escrow[e].amount
      /\ hiredFrom'[e] = None <=> hiredFrom[e] = None
  BY <1>1, <1>2, OneStatusStep
<1>5. EscrowStep(e)
  BY <1>1, <1>4 DEF EscrowStep, Moved
<1>6. BooksBalance'
  BY <1>1, <1>2, <1>3, StatusBooks
<1> QED
  BY <1>1, <1>3, <1>4, <1>5, <1>6, CommitSound
  DEF LedgerInv, TypeOK, OtherTypes, GoodStep

\* relay_started, relay_progress and a lost requester only move forward.
LEMMA MarksGood ==
    ASSUME LedgerInv, NEW e \in EscrowId,
           MarkStarted(e) \/ MarkProgressing(e) \/ MarkAbandoned(e)
    PROVE  GoodStep
<1>1. CASE MarkStarted(e)
  BY <1>1, UpdateStatusGood DEF MarkStarted, Finalizable, Rank
<1>2. CASE MarkProgressing(e)
  BY <1>2, UpdateStatusGood DEF MarkProgressing, Finalizable, Rank
<1>3. CASE MarkAbandoned(e)
  BY <1>3, UpdateStatusGood DEF MarkAbandoned, Finalizable, Rank
<1> QED
  BY <1>1, <1>2, <1>3

\* The five per cent fee is part of the amount.
LEMMA FeeIsPart ==
    ASSUME NEW amount \in Nat
    PROVE  /\ NetworkFee(amount) \in Nat
           /\ amount - NetworkFee(amount) \in Nat
BY DEF NetworkFee

\* The bonus is a natural number of credits.
LEMMA BonusType ==
    ASSUME NEW number, NEW share \in Nat
    PROVE  ProviderBonus(number, share) \in Nat
BY DEF ProviderBonus

\* Settling pays the whole amount of one open escrow and closes it.
LEMMA SettleGood ==
    ASSUME LedgerInv, NEW e \in EscrowId, NEW r \in Owner, Settle(e, r)
    PROVE  GoodStep
<1> DEFINE p == Canon(r)
           t1 == Canonicalize(tables, r)
           o == t1.escrow[e].owner
           t2 == Canonicalize(t1, o)
           fee == NetworkFee(escrow[e].amount)
           share == escrow[e].amount - fee
           t3 == Credit(t2, p, share)
           t4 == IF fee > 0 THEN Credit(t3, Treasury, fee) ELSE t3
           s5 == SetStatus(t4, e, "settled")
           t5 == [s5 EXCEPT !.hiredFrom[e] = p]
           t6 == RegisterProvider(t5, p)
           bonus == ProviderBonus(t6.acct[p].provider, share)
           t7 == PayBonus(t6, p, bonus)
           t8 == RecordSuccessfulHire(t7, p, t7.escrow[e].owner)
<1>1. /\ escrow[e].status \in Finalizable
      /\ Commit(t8)
      /\ paid' = [paid EXCEPT ![e] = @ + share + fee]
      /\ minted' = minted + bonus
      /\ UNCHANGED <<legacyOwner, earned>>
  BY DEF Settle, CanFinalize
<1>2. escrow[e].amount \in Nat /\ escrow[e].status # "none"
  BY <1>1 DEF LedgerInv, TypeOK, EscrowRow, Finalizable
<1>3. fee \in Nat /\ share \in Nat /\ share + fee = escrow[e].amount
  <2>1. fee \in Nat /\ escrow[e].amount - fee \in Nat
    BY <1>2, FeeIsPart
  <2> HIDE DEF fee
  <2> QED
    BY <1>2, <2>1
<1> HIDE DEF fee, share
<1>4. p \in Owner /\ p \in Account /\ Sound(t1) /\ t1 \in Tables
      /\ SameEscrows(tables, t1) /\ Books(tables, t1, 0, 0) /\ tables \in Tables
  BY Migrated
<1> HIDE DEF p, t1
<1>5. o \in Owner
  BY <1>2, <1>4 DEF Sound, OwnersHaveRows, SameEscrows, tables
<1> HIDE DEF o
<1>6. /\ Sound(t2) /\ t2 \in Tables /\ SameEscrows(tables, t2)
      /\ Books(tables, t2, 0, 0)
  <2>1. Sound(t2) /\ SameEscrows(t1, t2)
    BY <1>4, <1>5, CanonicalizeSound, CanonicalizeSame DEF LedgerInv
  <2>2. Books(t1, t2, 0, 0)
    BY <1>4, <1>5, CanonicalizeBooks DEF LedgerInv
  <2> HIDE DEF t2
  <2>3. Books(tables, t2, 0 + 0, 0 + 0)
    BY <1>4, <2>2, BooksAdd
  <2> QED
    BY <1>4, <2>1, <2>3, SameTransitive DEF Sound
<1> HIDE DEF t2
<1>7. /\ Sound(t3) /\ t3 \in Tables /\ SameEscrows(tables, t3)
      /\ Books(tables, t3, share, 0)
  <2>1. Sound(t3)
    BY <1>3, <1>4, <1>6, CreditSound
  <2>2. SameEscrows(tables, t3)
    BY <1>4, <1>6, AccountsOnly, SameTransitive
  <2>3. Books(t2, t3, share, 0)
    BY <1>3, <1>4, <1>6, CreditBooks
  <2> HIDE DEF t3
  <2>4. Books(tables, t3, 0 + share, 0 + 0)
    BY <1>3, <1>4, <1>6, <2>3, BooksAdd
  <2> QED
    BY <1>3, <2>1, <2>2, <2>4 DEF Sound
<1> HIDE DEF t3
<1>8. /\ Sound(t4) /\ t4 \in Tables /\ SameEscrows(tables, t4)
      /\ Books(tables, t4, share + fee, 0)
  <2>1. Treasury \in Account
    BY DEF Account
  <2>2. Sound(Credit(t3, Treasury, fee))
    BY <1>3, <1>7, <2>1, CreditSound
  <2>3. SameEscrows(tables, Credit(t3, Treasury, fee))
    BY <1>7, <2>1, AccountsOnly, SameTransitive
  <2>4. Books(t3, Credit(t3, Treasury, fee), fee, 0)
    BY <1>3, <1>7, <2>1, CreditBooks
  <2>5. Books(tables, Credit(t3, Treasury, fee), share + fee, 0 + 0)
    BY <1>3, <1>4, <1>7, <2>4, BooksAdd
  <2>6. CASE fee > 0
    BY <2>2, <2>3, <2>5, <2>6 DEF Sound
  <2>7. CASE ~ (fee > 0)
    <3>1. fee = 0 /\ share + fee = share
      BY <1>3, <2>7
    <3> QED
      BY <1>7, <2>7, <3>1
  <2> QED
    BY <2>6, <2>7
<1> HIDE DEF t4
<1>9. Sound(s5) /\ s5 \in Tables
  <2>1. t4.escrow[e].status # "none"
    BY <1>2, <1>8 DEF SameEscrows, tables
  <2> QED
    BY <1>8, <2>1, SetStatusSound DEF Sound, Terminal
<1>10. /\ s5.hiredFrom = t4.hiredFrom
       /\ s5.escrow[e].status = "settled"
       /\ s5.escrow[e].amount = t4.escrow[e].amount
       /\ s5.escrow[e].funding = t4.escrow[e].funding
       /\ s5.acct = t4.acct
       /\ \A f \in EscrowId \ {e} : s5.escrow[f] = t4.escrow[f]
  BY <1>8, SetStatusEffect
<1> HIDE DEF s5
<1>11. Sound(t5) /\ t5 \in Tables
  BY <1>4, <1>9, HiredFromSound DEF Sound
<1>12. /\ t5.escrow = s5.escrow /\ t5.hiredFrom[e] = p /\ t5.acct = t4.acct
       /\ \A f \in EscrowId \ {e} : t5.hiredFrom[f] = t4.hiredFrom[f]
  BY <1>9, <1>10 DEF Tables
<1> HIDE DEF t5
<1>13. /\ Sound(t6) /\ t6 \in Tables /\ SameEscrows(t5, t6)
       /\ Books(t5, t6, 0, 0)
  BY <1>4, <1>11, RegisterProviderSound, RegisterProviderBooks, AccountsOnly
  DEF Sound
<1>14. bonus \in Nat
  BY <1>3, BonusType
<1> HIDE DEF t6, bonus
<1>15. /\ Sound(t7) /\ t7 \in Tables /\ SameEscrows(t5, t7)
       /\ Books(t6, t7, bonus, 0)
  BY <1>4, <1>13, <1>14, PayBonusSound, PayBonusBooks, AccountsOnly,
     SameTransitive
  DEF Sound
<1> HIDE DEF t7
<1>16. Sound(t8) /\ SameEscrows(t5, t8) /\ Books(t7, t8, 0, 1)
  BY <1>4, <1>15, RecordSuccessfulHireSound, HireBooks, AccountsOnly,
     SameTransitive
<1> HIDE DEF t8
<1>17. /\ escrow'[e].status = "settled" /\ escrow'[e].amount = escrow[e].amount
       /\ escrow'[e].funding = escrow[e].funding
       /\ hiredFrom'[e] # None
  BY <1>1, <1>4, <1>8, <1>10, <1>12, <1>16, NamesAssumption
  DEF SameEscrows, Commit, tables, Account
<1>18. paid' \in [EscrowId -> Nat] /\ paid'[e] = paid[e] + escrow[e].amount
       /\ \A f \in EscrowId \ {e} : paid'[f] = paid[f]
  BY <1>1, <1>3 DEF LedgerInv, TypeOK
<1>19. ASSUME NEW f \in EscrowId \ {e} PROVE EscrowStep(f) /\ Kept(f)
  BY <1>1, <1>8, <1>10, <1>12, <1>16, <1>18
  DEF SameEscrows, Commit, tables, EscrowStep, Kept
<1>20. EscrowStep(e)
  BY <1>1, <1>17, <1>18 DEF EscrowStep, Closed
<1>21. minted' \in Nat
  BY <1>1, <1>14 DEF LedgerInv, TypeOK
<1>22. Books(tables, t8, share + fee + bonus, 1)
  <2>1. Money(tables) \in Int /\ Hires(tables) \in Int
    BY <1>4, SumsAreNumbers
  <2>2. Books(tables, t5, share + fee, 0)
    BY <1>8, <1>12 DEF Books, Money, Hires, Streaks
  <2> QED
    BY <1>3, <1>13, <1>14, <1>15, <1>16, <2>1, <2>2 DEF Books
<1>23. BooksBalance'
  <2>1. /\ paid[e] = 0 /\ hiredFrom[e] = None /\ escrow[e] \in EscrowRow
        /\ minted \in Nat
    BY <1>1 DEF LedgerInv, PaidByPhase, Phase, Finalizable, TypeOK
  <2> DEFINE n == escrow[e].amount
             v == Worth(escrow'[e], paid'[e])
             w == Worth(escrow[e], paid[e])
  <2>2. n + v - w = 0 /\ v \in Int /\ w \in Int
    BY <1>2, <1>17, <1>18, <2>1 DEF Worth, EscrowRow
  <2>3. share + fee + bonus = n + bonus
    BY <1>3
  <2>4. minted' = minted + (share + fee + bonus) + v - w
    <3> HIDE DEF n, v, w
    <3>1. n \in Nat /\ minted' = minted + bonus
      BY <1>1, <1>2 DEF n
    <3> QED
      BY <1>14, <2>1, <2>2, <2>3, <3>1
  <2>5. share + fee + bonus \in Int
    BY <1>3, <1>14
  <2>6. paid'[e] \in Nat /\ escrow'[e].amount \in Nat
    BY <1>2, <1>17, <1>18
  <2> QED
    BY <1>1, <1>16, <1>17, <1>19, <1>22, <2>1, <2>4, <2>5, <2>6, OneEntryBooks
<1> QED
  BY <1>1, <1>16, <1>18, <1>19, <1>20, <1>21, <1>23, CommitSound
  DEF LedgerInv, TypeOK, OtherTypes, GoodStep

\* Releasing refunds the whole amount of one open escrow and closes it.
LEMMA ReleaseGood ==
    ASSUME LedgerInv, NEW e \in EscrowId, Release(e)
    PROVE  GoodStep
<1> DEFINE t == Canonicalize(tables, escrow[e].owner)
           o == t.escrow[e].owner
           n == escrow[e].amount
           u == Refund(t, o, n)
           c == SetStatus(u, e, "released")
<1>1. /\ escrow[e].status \in Finalizable /\ escrow[e].status # "none"
      /\ Commit(c)
      /\ paid' = [paid EXCEPT ![e] = @ + n]
      /\ UNCHANGED <<legacyOwner, earned, minted>>
  BY DEF Release, CanFinalize, Finalizable
<1>2. n \in Nat
  BY DEF LedgerInv, TypeOK, EscrowRow
<1>3. Sound(t) /\ t \in Tables /\ SameEscrows(tables, t)
      /\ t.escrow[e].status # "none" /\ Books(tables, t, 0, 0)
      /\ tables \in Tables
  BY <1>1, OpenEscrow
<1> HIDE DEF t, n
<1>4. o \in Owner /\ o \in Account /\ t.acct[o].row
  BY <1>3 DEF Sound, OwnersHaveRows, Account
<1> HIDE DEF o
<1>5. Sound(u) /\ u \in Tables /\ SameEscrows(tables, u)
  <2>1. Sound(u)
    BY <1>2, <1>3, <1>4, RefundSound
  <2> QED
    BY <1>3, <1>4, <2>1, AccountsOnly, SameTransitive DEF Sound
<1>6. Books(tables, u, n, 0)
  <2>1. Books(t, u, n, 0)
    BY <1>2, <1>3, <1>4, RefundBooks
  <2> HIDE DEF u
  <2>2. Books(tables, u, 0 + n, 0 + 0)
    BY <1>2, <1>3, <2>1, BooksAdd
  <2> QED
    BY <1>2, <2>2
<1> HIDE DEF u
<1>7. Sound(c)
  <2>1. u.escrow[e].status # "none"
    BY <1>1, <1>5 DEF SameEscrows, tables
  <2> QED
    BY <1>5, <2>1, SetStatusSound DEF Terminal
<1>8. paid' \in [EscrowId -> Nat] /\ paid'[e] = paid[e] + n
      /\ \A f \in EscrowId \ {e} : paid'[f] = paid[f]
  BY <1>1, <1>2 DEF LedgerInv, TypeOK
<1>9. /\ \A f \in EscrowId \ {e} : EscrowStep(f) /\ Kept(f)
      /\ escrow'[e].funding = escrow[e].funding
      /\ escrow'[e].status = "released" /\ escrow'[e].amount = escrow[e].amount
      /\ hiredFrom'[e] = None <=> hiredFrom[e] = None
  BY <1>1, <1>5, <1>8, OneStatusStep
<1>10. EscrowStep(e)
  BY <1>1, <1>8, <1>9 DEF EscrowStep, Closed, n
<1>11. BooksBalance'
  <2>1. c.acct = u.acct
    BY <1>5, SetStatusEffect
  <2>2. Books(tables, c, n, 0)
    BY <1>6, <2>1 DEF Books, Money, Hires, Streaks
  <2>3. paid[e] = 0 /\ escrow[e].amount = n /\ escrow[e] \in EscrowRow
    BY <1>1 DEF LedgerInv, PaidByPhase, Phase, Finalizable, TypeOK, n
  <2>4. /\ n + Worth(escrow'[e], paid'[e]) - Worth(escrow[e], paid[e]) = 0
        /\ Worth(escrow'[e], paid'[e]) \in Int
        /\ Worth(escrow[e], paid[e]) \in Int
    BY <1>2, <1>8, <1>9, <2>3 DEF Worth, EscrowRow
  <2>5. minted' = minted + n + Worth(escrow'[e], paid'[e])
                           - Worth(escrow[e], paid[e])
    <3>1. minted' = minted /\ minted \in Nat
      BY <1>1 DEF LedgerInv, TypeOK
    <3>2. \A v, w \in Int : n + v - w = 0 => minted = minted + n + v - w
      BY <1>2, <3>1
    <3> QED
      BY <2>4, <3>1, <3>2
  <2>6. paid'[e] \in Nat /\ escrow'[e].amount \in Nat
    BY <1>2, <1>8, <1>9, <2>3
  <2> HIDE DEF c
  <2> QED
    BY <1>1, <1>2, <1>7, <1>9, <2>2, <2>5, <2>6, OneEntryBooks
<1> QED
  BY <1>1, <1>7, <1>8, <1>9, <1>10, <1>11, CommitSound
  DEF LedgerInv, TypeOK, OtherTypes, GoodStep

\* Confirming a debit closes one open escrow and pays nothing here.
LEMMA ConfirmDebitGood ==
    ASSUME LedgerInv, NEW e \in EscrowId, ConfirmDebit(e)
    PROVE  GoodStep
<1> DEFINE t == Canonicalize(tables, escrow[e].owner)
<1>1. /\ escrow[e].status \in Finalizable /\ escrow[e].status # "none"
      /\ Commit(SetStatus(t, e, "settled"))
      /\ UNCHANGED <<legacyOwner, paid, earned, minted>>
  BY DEF ConfirmDebit, CanFinalize, Finalizable
<1>2. Sound(t) /\ t \in Tables /\ SameEscrows(tables, t)
      /\ t.escrow[e].status # "none" /\ Books(tables, t, 0, 0)
  BY <1>1, OpenEscrow
<1> HIDE DEF t
<1>3. Sound(SetStatus(t, e, "settled"))
  BY <1>2, SetStatusSound DEF Terminal
<1>4. /\ \A f \in EscrowId \ {e} : EscrowStep(f)
      /\ escrow'[e].status = "settled" /\ escrow'[e].amount = escrow[e].amount
      /\ hiredFrom'[e] = None <=> hiredFrom[e] = None
  BY <1>1, <1>2, OneStatusStep
<1>5. EscrowStep(e)
  BY <1>1, <1>4 DEF EscrowStep, Closed
<1>6. BooksBalance'
  BY <1>1, <1>2, <1>3, StatusBooks
<1> QED
  BY <1>1, <1>3, <1>4, <1>5, <1>6, CommitSound
  DEF LedgerInv, TypeOK, OtherTypes, GoodStep

\* A receipt credits its owner and touches no escrow.
LEMMA RecordEarningGood ==
    ASSUME LedgerInv, NEW o \in Owner, NEW amount \in EarnAmount,
           NEW n \in Nonce, RecordEarning(o, amount, n)
    PROVE  GoodStep
<1> DEFINE t == Canonicalize(tables, o)
           c == Credit(t, Canon(o), amount)
<1>1. /\ Commit(c) /\ earned' = [earned EXCEPT ![n] = @ + 1]
      /\ minted' = minted + amount /\ UNCHANGED <<legacyOwner, paid>>
  BY DEF RecordEarning
<1>2. amount \in Nat
  BY AmountsAssumption
<1>3. Canon(o) \in Account /\ Sound(t) /\ t \in Tables /\ SameEscrows(tables, t)
      /\ Books(tables, t, 0, 0) /\ tables \in Tables
  BY Migrated
<1> HIDE DEF t
<1>4. Sound(c) /\ SameEscrows(tables, c)
  BY <1>2, <1>3, CreditSound, AccountsOnly, SameTransitive
<1>5. Books(t, c, amount, 0)
  BY <1>2, <1>3, CreditBooks
<1> HIDE DEF c
<1>6. Books(tables, c, amount, 0)
  <2>1. Books(tables, c, 0 + amount, 0 + 0)
    BY <1>2, <1>3, <1>5, BooksAdd
  <2> QED
    BY <1>2, <2>1
<1>7. \A e \in EscrowId : EscrowStep(e) /\ Kept(e)
  BY <1>1, <1>4, SameIsKept
<1>8. BooksBalance'
  BY <1>1, <1>2, <1>4, <1>6, <1>7, NoEntryBooks
<1> QED
  BY <1>1, <1>2, <1>4, <1>7, <1>8, CommitSound
  DEF LedgerInv, TypeOK, OtherTypes, GoodStep

\* An explicit migration touches no escrow's status or amount.
LEMMA MigrateOwnerGood ==
    ASSUME LedgerInv, NEW old \in Owner, NEW new \in Owner,
           MigrateOwner(old, new)
    PROVE  GoodStep
<1> DEFINE t == Canonicalize(tables, new)
           c == Migrate(t, old, Canon(new))
<1>1. Commit(c) /\ UNCHANGED <<legacyOwner, paid, earned, minted>>
  BY DEF MigrateOwner
<1>2. Canon(new) \in Owner /\ Sound(t) /\ t \in Tables /\ SameEscrows(tables, t)
      /\ Books(tables, t, 0, 0) /\ tables \in Tables
  BY Migrated
<1> HIDE DEF t
<1>3. Sound(c) /\ SameEscrows(t, c)
  BY <1>2, MigrateSound, MigrateKeepsEscrows DEF SameEscrows
<1>4. Books(t, c, 0, 0)
  BY <1>2, MigrateBooks
<1> HIDE DEF c
<1>5. SameEscrows(tables, c)
  BY <1>2, <1>3, SameTransitive
<1>6. Books(tables, c, 0 + 0, 0 + 0)
  BY <1>2, <1>4, BooksAdd
<1>7. \A e \in EscrowId : EscrowStep(e) /\ Kept(e)
  BY <1>1, <1>5, SameIsKept
<1>8. minted' = minted + 0
  BY <1>1 DEF LedgerInv, TypeOK
<1>9. BooksBalance'
  BY <1>1, <1>3, <1>6, <1>7, <1>8, NoEntryBooks
<1> QED
  BY <1>1, <1>3, <1>5, <1>7, <1>9, CommitSound
  DEF LedgerInv, TypeOK, OtherTypes, GoodStep

\* A quality failure resets a streak.
LEMMA RecordQualityFailureGood ==
    ASSUME LedgerInv, NEW o \in Owner, RecordQualityFailure(o)
    PROVE  GoodStep
<1> DEFINE q == Canon(o)
           t == Canonicalize(tables, o)
           r == [t.acct[q] EXCEPT !.streak = 0]
           c == [t EXCEPT !.acct[q] = r]
<1>1. Commit(c) /\ UNCHANGED <<legacyOwner, paid, earned, minted>>
  BY DEF RecordQualityFailure
<1>2. q \in Account /\ Sound(t) /\ t \in Tables /\ SameEscrows(tables, t)
      /\ Books(tables, t, 0, 0) /\ tables \in Tables
  BY Migrated
<1> HIDE DEF q, t
<1>3. t.acct[q] \in AccountRow /\ t.acct[q].balance = t.acct[q].journal
      /\ t.acct[q].balance >= 0
  BY <1>2 DEF Sound, Tables, Balanced
<1>4. /\ r \in AccountRow /\ r.provider = t.acct[q].provider
      /\ r.row = t.acct[q].row /\ r.balance = r.journal /\ r.balance >= 0
      /\ r.balance - t.acct[q].balance = 0 /\ r.total - t.acct[q].total = 0
      /\ Streaks(t) => r.streak <= r.longest /\ r.longest <= r.total
  BY <1>2, <1>3 DEF AccountRow, Streaks
<1> HIDE DEF r
<1>5. Sound(c)
  BY <1>2, <1>4, RowUpdateSound
<1>6. SameEscrows(tables, c)
  BY <1>2 DEF SameEscrows
<1>7. Books(t, c, 0, 0)
  <2>1. Books(t, c, r.balance - t.acct[q].balance, r.total - t.acct[q].total)
    BY <1>2, <1>4, RowBooks
  <2> HIDE DEF c
  <2> QED
    BY <1>4, <2>1
<1> HIDE DEF c
<1>8. Books(tables, c, 0 + 0, 0 + 0)
  BY <1>2, <1>7, BooksAdd
<1>9. \A e \in EscrowId : EscrowStep(e) /\ Kept(e)
  BY <1>1, <1>6, SameIsKept
<1>10. minted' = minted + 0
  BY <1>1 DEF LedgerInv, TypeOK
<1>11. BooksBalance'
  BY <1>1, <1>5, <1>8, <1>9, <1>10, NoEntryBooks
<1> QED
  BY <1>1, <1>5, <1>9, <1>11, CommitSound
  DEF LedgerInv, TypeOK, OtherTypes, GoodStep

-----------------------------------------------------------------------------
(* The theorems                                                            *)

\* The empty database satisfies the invariant.
LEMMA InitEstablishesInv ==
    Init => LedgerInv
<1> SUFFICES ASSUME Init PROVE LedgerInv
  OBVIOUS
<1>1. TypeOK
  BY AmountsAssumption
  DEF Init, TypeOK, NoAccount, AccountRow, NoEscrow, EscrowRow, NoVoucher,
      VoucherRow
<1>2. \A o \in Account : tables.acct[o] = NoAccount
  BY DEF Init, tables
<1>3. \A v \in VoucherId : tables.voucher[v] = NoVoucher
  BY DEF Init, tables
<1>4. \A e \in EscrowId : tables.escrow[e] = NoEscrow
  BY DEF Init, tables
<1>5. tables \in Tables
  BY <1>1 DEF TypeOK, Tables, tables
<1>6. NumbersBounded(tables) /\ NumbersUnique(tables) /\ Balanced(tables)
  BY <1>2 DEF NumbersBounded, NumbersUnique, Balanced, NoAccount
<1>7. OwnersHaveRows(tables) /\ VouchersCovered(tables)
  BY <1>3, <1>4, AmountsAssumption
  DEF OwnersHaveRows, VouchersCovered, NoVoucher, NoEscrow
<1>8. PaidByPhase
  BY DEF Init, PaidByPhase, Phase, NoEscrow
<1>9. BooksBalance
  <2>1. Money(tables) = 0 /\ Hires(tables) = 0
    <3> DEFINE b == [o \in Account |-> tables.acct[o].balance]
               h == [o \in Account |-> tables.acct[o].total]
    <3>1. \A o \in Account : b[o] = 0 /\ h[o] = 0
      BY <1>2 DEF NoAccount
    <3> HIDE DEF b, h
    <3>2. SumOf(b, Account) = 0
      BY <3>1, AccountsFinite, SumZero
    <3>3. SumOf(h, Account) = 0
      BY <3>1, AccountsFinite, SumZero
    <3> QED
      BY <3>2, <3>3 DEF Money, Hires, b, h
  <2>2. SumOf(Worths, EscrowId) = 0
    <3>1. \A e \in EscrowId : Worths[e] = 0
      BY DEF Init, Worths, Worth, NoEscrow
    <3> QED
      BY <3>1, FiniteAssumption, SumZero
  <2>3. Cardinality(HiredFor) = 0
    <3>1. HiredFor = {}
      BY DEF Init, HiredFor
    <3> QED
      BY <3>1, FS_EmptySet
  <2>4. Streaks(tables)
    BY <1>2 DEF Streaks, NoAccount
  <2> QED
    BY <2>1, <2>2, <2>3, <2>4 DEF BooksBalance, Init
<1> QED
  BY <1>1, <1>5, <1>6, <1>7, <1>8, <1>9 DEF LedgerInv, Sound

\* Every action makes a good step from a state of the invariant.
LEMMA NextIsGood ==
    ASSUME LedgerInv, Next
    PROVE  GoodStep
<1>1. ASSUME NEW a \in AgentId, NEW l \in LegacyName, ClaimName(a, l)
      PROVE  GoodStep
  BY <1>1, ClaimNameGood
<1>2. ASSUME NEW o \in Owner, ReadOwner(o) PROVE GoodStep
  BY <1>2, ReadOwnerGood
<1>3. ASSUME NEW o \in Owner, NEW dies \in BOOLEAN, Bootstrap(o, dies)
      PROVE  GoodStep
  BY <1>3, BootstrapGood
<1>4. ASSUME NEW v \in VoucherId, ExpireVoucher(v) PROVE GoodStep
  BY <1>4, ExpireVoucherGood
<1>5. ASSUME NEW o \in Owner, NEW amount \in HoldAmount, NEW e \in EscrowId,
             \/ HoldFromVoucher(o, amount, e)
             \/ HoldFromBalance(o, amount, e)
      PROVE  GoodStep
  BY <1>5, HoldFromVoucherGood, HoldFromBalanceGood
<1>6. ASSUME NEW e \in EscrowId,
             MarkStarted(e) \/ MarkProgressing(e) \/ MarkAbandoned(e)
      PROVE  GoodStep
  BY <1>6, MarksGood
<1>7. ASSUME NEW e \in EscrowId, Release(e) \/ ConfirmDebit(e)
      PROVE  GoodStep
  BY <1>7, ReleaseGood, ConfirmDebitGood
<1>8. ASSUME NEW e \in EscrowId, NEW r \in Owner, Settle(e, r)
      PROVE  GoodStep
  BY <1>8, SettleGood
<1>9. ASSUME NEW o \in Owner, NEW amount \in EarnAmount, NEW n \in Nonce,
             RecordEarning(o, amount, n)
      PROVE  GoodStep
  BY <1>9, RecordEarningGood
<1>10. ASSUME NEW old \in Owner, NEW new \in Owner, MigrateOwner(old, new)
       PROVE  GoodStep
  BY <1>10, MigrateOwnerGood
<1>11. ASSUME NEW o \in Owner, RecordQualityFailure(o) PROVE GoodStep
  BY <1>11, RecordQualityFailureGood
<1> QED
  BY <1>1, <1>2, <1>3, <1>4, <1>5, <1>6, <1>7, <1>8, <1>9, <1>10, <1>11
  DEF Next

\* So does a step that changes nothing.
LEMMA StutterIsGood ==
    ASSUME LedgerInv, UNCHANGED vars
    PROVE  GoodStep
<1>1. tables' = tables
  BY DEF vars, tables
<1>2. BooksBalance'
  BY <1>1, SameBooks DEF vars
<1> QED
  BY <1>1, <1>2
  DEF vars, LedgerInv, TypeOK, OtherTypes, GoodStep, EscrowStep, Kept

\* Every reachable state of the credit database satisfies the inductive
\* invariant.
THEOREM LedgerInvariant == Spec => []LedgerInv
<1>1. Init => LedgerInv
  BY InitEstablishesInv
<1>2. LedgerInv /\ [Next]_vars => LedgerInv'
  BY NextIsGood, StutterIsGood, GoodStepKeepsInv
<1> QED
  BY <1>1, <1>2, PTL DEF Spec

\* Every table keeps its type, for any number of agents, names and escrows.
THEOREM TypeCorrect == Spec => []TypeOK
<1>1. LedgerInv => TypeOK
  BY DEF LedgerInv
<1> QED
  BY <1>1, LedgerInvariant, PTL

\* A balance is the sum of its owner's journal rows, whatever migrates.
THEOREM JournalIsBalanced == Spec => []BalanceMatchesJournal
<1>1. LedgerInv => BalanceMatchesJournal
  BY DEF LedgerInv, Sound, Balanced, tables, BalanceMatchesJournal
<1> QED
  BY <1>1, LedgerInvariant, PTL

\* No balance and no voucher is overdrawn.
THEOREM NeverOverdrawn == Spec => []NoOverdraft
<1>1. LedgerInv => NoOverdraft
  BY AmountsAssumption
  DEF LedgerInv, Sound, Balanced, VouchersCovered, Tables, VoucherRow, tables,
      NoOverdraft
<1> QED
  BY <1>1, LedgerInvariant, PTL

\* A refund always finds the balance row it updates.
THEOREM RefundsFindARow == Spec => []RefundHasARow
<1>1. LedgerInv => RefundHasARow
  BY DEF LedgerInv, Sound, OwnersHaveRows, tables, RefundHasARow
<1> QED
  BY <1>1, LedgerInvariant, PTL

\* MAX + 1 under merges and renumberings never hands a number out twice.
THEOREM NumbersNeverShared == Spec => []ProviderNumbersUnique
<1>1. LedgerInv => ProviderNumbersUnique
  BY DEF LedgerInv, Sound, NumbersUnique, tables, ProviderNumbersUnique
<1> QED
  BY <1>1, LedgerInvariant, PTL

\* An escrow pays out at most once and at most its amount.
THEOREM EscrowPaysOnce == Spec => []PaysOutOnce
<1>1. LedgerInv => PaysOutOnce
  <2> SUFFICES ASSUME LedgerInv, NEW e \in EscrowId
               PROVE  CASE escrow[e].status = "released" ->
                              paid[e] = escrow[e].amount
                        [] escrow[e].status = "settled" ->
                              paid[e] \in {0, escrow[e].amount}
                        [] OTHER -> paid[e] = 0
    BY DEF PaysOutOnce
  <2> QED
    BY DEF LedgerInv, PaidByPhase, Phase
<1> QED
  BY <1>1, LedgerInvariant, PTL

\* A late report never takes an escrow back.
THEOREM EscrowsMoveForward == Spec => LifecycleMovesForward
<1>1. ASSUME LedgerInv, [Next]_vars
      PROVE  [\A e \in EscrowId :
                 /\ Rank(escrow[e].status) <= Rank(escrow'[e].status)
                 /\ Rank(escrow[e].status) = 5 =>
                        /\ escrow'[e].status = escrow[e].status
                        /\ escrow'[e].amount = escrow[e].amount]_vars
  <2>1. \A e \in EscrowId : EscrowStep(e) /\ escrow[e] \in EscrowRow
    BY <1>1, NextIsGood, StutterIsGood DEF GoodStep, LedgerInv, TypeOK
  <2> SUFFICES ASSUME NEW e \in EscrowId
               PROVE  /\ Rank(escrow[e].status) <= Rank(escrow'[e].status)
                      /\ Rank(escrow[e].status) = 5 =>
                             /\ escrow'[e].status = escrow[e].status
                             /\ escrow'[e].amount = escrow[e].amount
    OBVIOUS
  <2> QED
    BY <2>1
    DEF EscrowStep, Kept, Opened, Moved, Closed, Rank, EscrowRow, Finalizable,
        Terminal
<1> QED
  BY <1>1, LedgerInvariant, PTL DEF Spec, LifecycleMovesForward

\* The credit database implements the escrow promise.
THEOREM LedgerKeepsPromise == Spec => KeepsPromise
<1>1. Init => Promise!PromiseInit
  BY DEF Init, Promise!PromiseInit, Phase, NoEscrow
<1>2. ASSUME LedgerInv, [Next]_vars
      PROVE  [Promise!PromiseNext]_(Promise!promiseVars)
  <2> SUFFICES ASSUME NEW e \in EscrowId
               PROVE  Promise!Stays(e) \/ Promise!Opens(e) \/ Promise!Closes(e)
    BY DEF Promise!PromiseNext
  <2>1. EscrowStep(e) /\ escrow[e] \in EscrowRow
    BY <1>2, NextIsGood, StutterIsGood DEF GoodStep, LedgerInv, TypeOK
  <2>2. /\ hiredFrom[e] # None => escrow[e].status = "settled"
        /\ paid[e] = IF Phase(e) \in {"paid", "refunded"}
                     THEN escrow[e].amount ELSE 0
    BY <1>2 DEF LedgerInv, PaidByPhase
  <2>3. CASE Kept(e)
    BY <2>3 DEF Kept, Phase, Promise!Stays
  <2>4. CASE Opened(e)
    BY <2>4 DEF Opened, Phase, Promise!Opens
  <2>5. CASE Moved(e)
    BY <2>5 DEF Moved, Phase, Promise!Stays, Finalizable
  <2>6. CASE Closed(e)
    BY <2>1, <2>2, <2>6 DEF Closed, Phase, Promise!Closes, Finalizable, EscrowRow
  <2> QED
    BY <2>1, <2>3, <2>4, <2>5, <2>6 DEF EscrowStep
<1> QED
  BY <1>1, <1>2, LedgerInvariant, PTL DEF Spec, KeepsPromise, Promise!PromiseSpec

\* Every settlement counts as one hire of one provider, whatever merges.
THEOREM HiresAreCounted == Spec => []HiresAreSettlements
<1>1. LedgerInv => HiresAreSettlements
  BY DEF LedgerInv, BooksBalance, Streaks, Hires, HiredFor, tables, Sum, SumOf,
         HiresAreSettlements
<1> QED
  BY <1>1, LedgerInvariant, PTL

\* What CreditsConserved adds up, set by set, is the worth of the escrows.
LEMMA WorthBySets ==
    ASSUME LedgerInv
    PROVE  LET closed == EscrowId \ Open
               confirmed == {e \in closed : paid[e] = 0}
               tied == Open \cap FundedBy("balance")
               given == (closed \ confirmed) \cap FundedBy("voucher")
               sent == confirmed \cap FundedBy("balance")
           IN  /\ SumOf(Worths, EscrowId) + SumOf(Amounts, given)
                    = SumOf(Amounts, tied) + SumOf(Amounts, sent)
               /\ SumOf(Worths, EscrowId) \in Int
               /\ SumOf(Amounts, given) \in Int
               /\ SumOf(Amounts, tied) \in Int
               /\ SumOf(Amounts, sent) \in Int
<1> DEFINE closed == EscrowId \ Open
           confirmed == {e \in closed : paid[e] = 0}
           tied == Open \cap FundedBy("balance")
           given == (closed \ confirmed) \cap FundedBy("voucher")
           sent == confirmed \cap FundedBy("balance")
           part(S) == [e \in EscrowId |-> IF e \in S THEN Amounts[e] ELSE 0]
           both == [e \in EscrowId |-> part(tied)[e] + part(sent)[e]]
<1>1. /\ tied \in SUBSET EscrowId /\ given \in SUBSET EscrowId
      /\ sent \in SUBSET EscrowId
  BY DEF Open
<1>2. \A e \in EscrowId : Amounts[e] \in Int
  BY DEF LedgerInv, TypeOK, EscrowRow, Amounts
<1>3. \A e \in EscrowId :
         /\ Worths[e] \in Int
         /\ Worths[e] + part(given)[e] = both[e]
  <2> SUFFICES ASSUME NEW e \in EscrowId
               PROVE  /\ Worths[e] \in Int
                      /\ Worths[e] + part(given)[e] = both[e]
    OBVIOUS
  <2>1. /\ escrow[e].amount \in Nat /\ escrow[e].funding \in {"balance", "voucher"}
        /\ e \in Open => paid[e] = 0
        /\ Amounts[e] = escrow[e].amount
        /\ Worths[e] = Worth(escrow[e], paid[e])
    BY DEF LedgerInv, TypeOK, EscrowRow, PaidByPhase, Phase, Open, Finalizable,
           Amounts, Worths
  <2>2. /\ e \in tied <=> e \in Open /\ escrow[e].funding = "balance"
        /\ e \in given <=> e \notin Open /\ paid[e] # 0 /\ escrow[e].funding = "voucher"
        /\ e \in sent <=> e \notin Open /\ paid[e] = 0 /\ escrow[e].funding = "balance"
    BY DEF FundedBy
  <2> HIDE DEF tied, given, sent
  <2> QED
    BY <2>1, <2>2 DEF Worth
<1> HIDE DEF tied, given, sent
<1>4. ASSUME NEW S \in SUBSET EscrowId
      PROVE  /\ SumOf(part(S), EscrowId) = SumOf(Amounts, S)
             /\ SumOf(Amounts, S) \in Int
             /\ \A e \in EscrowId : part(S)[e] \in Int
  <2>1. /\ \A e \in S : Amounts[e] \in Int
        /\ \A e \in S : part(S)[e] = Amounts[e]
        /\ \A e \in EscrowId \ S : part(S)[e] = 0
        /\ \A e \in EscrowId : part(S)[e] \in Int
    BY <1>2
  <2> HIDE DEF part
  <2>2. SumOf(part(S), EscrowId) = SumOf(Amounts, S)
    BY <2>1, FiniteAssumption, SumPart
  <2>3. IsFiniteSet(S)
    BY FiniteAssumption, FS_Subset
  <2>4. SumOf(Amounts, S) \in Int
    BY <2>1, <2>3, SumInt
  <2> QED
    BY <2>1, <2>2, <2>4
<1>5. SumOf(both, EscrowId) = SumOf(part(tied), EscrowId) + SumOf(part(sent), EscrowId)
  <2>1. \A e \in EscrowId : /\ part(tied)[e] \in Int /\ part(sent)[e] \in Int
                            /\ both[e] = part(tied)[e] + part(sent)[e]
    BY <1>1, <1>4
  <2> HIDE DEF part, both
  <2> QED
    BY <2>1, FiniteAssumption, SumPlus
<1>6. SumOf(both, EscrowId) = SumOf(Worths, EscrowId) + SumOf(part(given), EscrowId)
  <2>1. \A e \in EscrowId : /\ Worths[e] \in Int /\ part(given)[e] \in Int
                            /\ both[e] = Worths[e] + part(given)[e]
    BY <1>1, <1>3, <1>4
  <2> HIDE DEF part, both
  <2> QED
    BY <2>1, FiniteAssumption, SumPlus
<1>7. SumOf(Worths, EscrowId) \in Int
  BY <1>3, FiniteAssumption, SumInt
<1> HIDE DEF part, both
<1>8. /\ SumOf(part(tied), EscrowId) = SumOf(Amounts, tied)
      /\ SumOf(part(sent), EscrowId) = SumOf(Amounts, sent)
      /\ SumOf(part(given), EscrowId) = SumOf(Amounts, given)
      /\ SumOf(Amounts, given) \in Int /\ SumOf(Amounts, tied) \in Int
      /\ SumOf(Amounts, sent) \in Int
  BY <1>1, <1>4
<1>9. SumOf(Worths, EscrowId) + SumOf(Amounts, given)
        = SumOf(Amounts, tied) + SumOf(Amounts, sent)
  BY <1>5, <1>6, <1>8
<1> QED
  BY <1>7, <1>8, <1>9 DEF tied, given, sent

\* No credit is lost or made up, in any order of holds, migrations and
\* settlements.
THEOREM CreditsAreConserved == Spec => []CreditsConserved
<1>1. LedgerInv => CreditsConserved
  <2> SUFFICES ASSUME LedgerInv PROVE CreditsConserved
    OBVIOUS
  <2> DEFINE closed == EscrowId \ Open
             confirmed == {e \in closed : paid[e] = 0}
             tied == SumOf(Amounts, Open \cap FundedBy("balance"))
             given == SumOf(Amounts, (closed \ confirmed) \cap FundedBy("voucher"))
             sent == SumOf(Amounts, confirmed \cap FundedBy("balance"))
  <2>1. /\ SumOf(Worths, EscrowId) + given = tied + sent
        /\ SumOf(Worths, EscrowId) \in Int
        /\ given \in Int /\ tied \in Int /\ sent \in Int
    BY WorthBySets
  <2>2. Balances = Money(tables)
    BY DEF Balances, Money, Sum, SumOf, tables
  <2>3. Money(tables) + SumOf(Worths, EscrowId) = minted /\ minted \in Nat
    BY DEF LedgerInv, BooksBalance, TypeOK
  <2>4. Money(tables) \in Int
    BY SumsAreNumbers DEF LedgerInv, Sound
  <2>5. CreditsConserved <=> Balances + tied = minted + given - sent
    BY DEF CreditsConserved, Sum, SumOf
  <2> HIDE DEF tied, given, sent
  <2> QED
    BY <2>1, <2>2, <2>3, <2>4, <2>5
<1> QED
  BY <1>1, LedgerInvariant, PTL

============================================================================
