----------------------------- MODULE MCGeneration -----------------------------
(* The AI site-generation jobs of a workspace on a small instance.         *)
EXTENDS GenerationProperties, TLC

Symmetry == Permutations(Jobs) \union Permutations(Sites)
=============================================================================
