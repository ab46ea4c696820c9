-------------------------- MODULE MC_GatewayTurns --------------------------
(* Small instances of GatewayTurns.                                           *)
EXTENDS GatewayTurns, TLC

Symmetric ==
    Permutations(Connections) \cup Permutations(Messages) \cup Permutations(Requests)
============================================================================
