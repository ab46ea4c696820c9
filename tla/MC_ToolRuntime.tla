---------------------------- MODULE MC_ToolRuntime ----------------------------
(* A small catalog: a safe read, a write, a fan-out tool counted in batches, and a
   tool the catalog does not have. *)
EXTENDS ToolRuntime

CONSTANTS read, write, fanout, ghost

AllCalls == {read, write, fanout, ghost}
Catalog == {read, write, fanout}
Tool == [c \in AllCalls |-> c]
Reads == {read, fanout}
FanOut == {fanout}
Nothing == {}

=============================================================================
