----------------------------- MODULE MCPipeline -----------------------------
(* Graphs of three sub-tasks; a match is a cheap agent with a dearer       *)
(* alternative, an agent whose place a dearer member of the team takes on  *)
(* a gateway that takes batches, a member without any match, or nobody.    *)
(* The rule engine knows a chain and a first step that two others follow.  *)
EXTENDS Pipeline, TLC

CONSTANTS t1, t2, t3

ThreeTasks == {t1, t2, t3}

Chain == t1 :> {} @@ t2 :> {t1} @@ t3 :> {t2}
Fork == t1 :> {} @@ t2 :> {t1} @@ t3 :> {t1}
ChainAndFork == {Chain, Fork}

Match(cost, alt, ask, site) == [cost |-> cost, alt |-> alt, ask |-> ask, site |-> site]
Offers == {Match(1, 3, 1, "own"), Match(2, 3, 4, "shared"), Match(0, 0, 2, "own"),
           Match(0, 0, 0, "gone")}

=============================================================================
