------------------------------ MODULE MC_McpClient ------------------------------
(* One call with the code's two attempts, over each transport. *)
EXTENDS McpClient
=============================================================================
