---------------------------- MODULE MCServiceLock ----------------------------
(* Two processes that start, one that stops them.                          *)
EXTENDS ServiceLock, TLC

CONSTANTS p1, p2

TwoProcs == {p1, p2}

=============================================================================
