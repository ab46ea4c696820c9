-------------------------------- MODULE Sublists --------------------------------
(* The elements of a sequence at given positions, as Array.prototype.filter and the
   deletion of Map entries leave them: in their order. *)
EXTENDS Naturals, Sequences, FiniteSets

Rank(i, I) == Cardinality({j \in I : j <= i})
Pick(s, I) == [n \in 1..Cardinality(I) |-> s[CHOOSE i \in I : Rank(i, I) = n]]

\* How often an element occurs.
Positions(s, x) == {i \in DOMAIN s : s[i] = x}
Occurrences(s, x) == Cardinality(Positions(s, x))
=============================================================================
