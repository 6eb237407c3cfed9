------------------------------ MODULE MCDeletion ------------------------------
(* The end of a workspace on a small instance.                              *)
EXTENDS DeletionProperties, TLC

Symmetry == Permutations(Sites) \union Permutations(Deployments) \union Permutations(Subs)
=============================================================================
