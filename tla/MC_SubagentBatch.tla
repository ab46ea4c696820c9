---------------------------- MODULE MC_SubagentBatch ----------------------------
(* Four tasks on two workers, the second without tools. *)
EXTENDS SubagentBatch

Toolless == {2}

=============================================================================
