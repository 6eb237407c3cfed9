-------------------------------- MODULE MCTeam --------------------------------
(* The team of a workspace on a small instance.                             *)
EXTENDS TeamProperties, TLC

Symmetry == Permutations(Users) \union Permutations(Transfers) \union Permutations(Requests)
=============================================================================
