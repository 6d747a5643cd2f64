--------------------------- MODULE MCRelayServer ---------------------------
(* A relay with two agents, either of which may be the provider of the     *)
(* other, over two sockets.                                                *)
EXTENDS RelayServer, TLC

CONSTANTS provider, requester, k1, s1, s2, r1, r2

Owners == {provider, requester}
OneKey == {k1}
NoKeys == {}
TwoSockets == {s1, s2}
OneRequest == {r1}
TwoRequests == {r1, r2}

Interchangeable ==
    Permutations(Owner) \cup Permutations(Socket) \cup Permutations(Request)

=============================================================================
