------------------------------ MODULE MCHistory ------------------------------
(* The editor's history on a small document.                                 *)
EXTENDS HistoryProperties, TLC

Symmetry == Permutations(Parts) \union Permutations(Values)
=============================================================================
