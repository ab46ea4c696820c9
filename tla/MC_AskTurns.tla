------------------------------ MODULE MC_AskTurns ------------------------------
\* Messages of one scope, of none, or of a scope that is recalled, on two request ids.
EXTENDS AskTurns
=============================================================================
