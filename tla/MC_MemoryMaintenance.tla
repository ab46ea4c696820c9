---------------------- MODULE MC_MemoryMaintenance ----------------------
(* A small instance of MemoryMaintenance: an owner who may keep two of three  *)
(* episodes, and both workers on them.                                        *)
EXTENDS MemoryMaintenance, TLC

CONSTANTS o1, e1, e2, e3

OneOwner == (e1 :> o1) @@ (e2 :> o1) @@ (e3 :> o1)
=========================================================================
