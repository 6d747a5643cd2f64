--------------------------- MODULE MCGatewayBatch ---------------------------
(* Batches of three items at two prices, local or relayed.                 *)
EXTENDS GatewayBatch, TLC

=============================================================================
