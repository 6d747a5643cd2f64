-------------------------- MODULE MCSessionManager --------------------------
(* Two owners that name each other, or themselves, and two sessions: an    *)
(* agent id is a name under which nobody registers, as a name here may be. *)
EXTENDS SessionManager

CONSTANTS renter, host, s1, s2

Owners == {renter, host}
TwoSessions == {s1, s2}

=============================================================================
