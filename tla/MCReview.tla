------------------------------- MODULE MCReview -------------------------------
(* The review of a site on a small instance.                                 *)
EXTENDS ReviewProperties, TLC

Symmetry == Permutations(Requests) \union Permutations(Clients)
=============================================================================
