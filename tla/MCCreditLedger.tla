--------------------------- MODULE MCCreditLedger ---------------------------
(* Small credit databases for TLC.                                         *)
EXTENDS CreditLedger, TLC

CONSTANTS a1, a2, l1, e1, e2, e3, n1

TwoAgents == {a1, a2}
OneName == {l1}
NoNames == {}
OneEscrow == {e1}
ThreeEscrows == {e1, e2, e3}
OneNonce == {n1}

\* Sound where no legacy name can be claimed: Canon then chooses nothing.
Interchangeable == Permutations(TwoAgents) \cup Permutations(ThreeEscrows)

=============================================================================
