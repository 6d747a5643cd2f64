----------------------------- MODULE MCAutonomy -----------------------------
(* One session with two calls at once.                                     *)
EXTENDS Autonomy, TLC

CONSTANTS c1, c2

TwoCalls == {c1, c2}
Prices == 0 .. 3
Limits == {1, 3}

=============================================================================
