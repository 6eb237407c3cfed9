------------------------------ MODULE MCBilling ------------------------------
(* The billing of a workspace on a small instance.                         *)
EXTENDS BillingProperties, TLC

Symmetry == Permutations(Handlers) \union Permutations(Subs) \union Permutations(Paid)
=============================================================================
