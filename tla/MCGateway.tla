----------------------------- MODULE MCGateway -----------------------------
(* A gateway with two requests at once, alone or in one array, for one     *)
(* skill.  The balance pays for both.                                      *)
EXTENDS Gateway, TLC

CONSTANTS h1, h2

TwoHandlers == {h1, h2}

=============================================================================
