-------------------------- MODULE MCPublishPipeline --------------------------
(* The publish pipeline on a small instance.                               *)
EXTENDS PublishInvariants, TLC

Symmetry == Permutations(Jobs) \union Permutations(Workers)

(* What is left out of the safety run to keep it small: at most one job's   *)
(* request is repeated, and while the site is archived or an unpublish is   *)
(* half way, no request was repeated and at most one worker is busy.        *)
FewAtOnce ==
  /\ \E j \in Jobs : \A k \in Jobs \ {j} : start[k].tries = 0
  /\ unpublish \/ site.status = "ARCHIVED" =>
       /\ \A j \in Jobs : start[j].tries = 0
       /\ \E w \in Workers : worker[w] = Free
=============================================================================
