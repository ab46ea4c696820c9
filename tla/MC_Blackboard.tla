----------------------------- MODULE MC_Blackboard -----------------------------
(* Two turns that may compete for one scope, two workers each, one slot of the pool. *)
EXTENDS Blackboard
=============================================================================
