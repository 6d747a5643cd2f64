-------------------------- MODULE MCRelayDispatch --------------------------
(* Two clients with two sockets each and two requests: the attempts of a   *)
(* call, or a daemon's client and one made after it.                       *)
EXTENDS RelayDispatch
=============================================================================
