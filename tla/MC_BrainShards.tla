----------------------------- MODULE MC_BrainShards -----------------------------
(* Three months, two events and a crash: a month sealed by each party, a seal cut at
   any step and repeated, an archive read before it is overwritten. *)
EXTENDS BrainShards
=============================================================================
