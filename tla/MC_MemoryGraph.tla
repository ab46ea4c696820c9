------------------------- MODULE MC_MemoryGraph -------------------------
(* Two nodes that resemble each other, a sweep of one row.                    *)
EXTENDS MemoryGraph, TLC

CONSTANTS n1, n2

Pairwise == {<<n1, n2>>, <<n2, n1>>}
OneMatch == {n1}
=========================================================================
