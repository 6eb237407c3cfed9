-------------------------- MODULE DeletionProperties --------------------------
(* What must be true when a site or a workspace ends.                       *)
EXTENDS WorkspaceDeletion

\* Every variable has its type.
TypeOK ==
  /\ ws \in {"live", "gone", "dropped"}
  /\ schedule \in {"none", "future", "due"}
  /\ billing \in [Subs -> {"none", "untold", "told", "canceled"}]
  /\ row \in Subs \union {None}
  /\ connected \in BOOLEAN
  /\ site \in [Sites -> {"live", "deleted", "purged"}]
  /\ url \in [Sites -> BOOLEAN]
  /\ job \in [Sites -> Job]
  /\ completed \in [Sites -> Seq(Deployments)]
  /\ serving \in SUBSET Deployments
  /\ request \in Request
  /\ downgrade \in SUBSET Sites
  /\ run \in Run
  /\ faults \in 0..MaxFaults
  /\ unrecorded \in SUBSET Deployments
  /\ lost \in SUBSET Deployments
  /\ missed \in SUBSET Deployments
  /\ downgraded \in SUBSET Deployments
  /\ late \in SUBSET Subs
  /\ replaced \in SUBSET Subs

(* The deletion run orphans nothing: once it has deleted a workspace, what *)
(* still serves was never recorded (its worker died), or had lost its      *)
(* record to a purge before.  No cancel, publish or new schedule in the    *)
(* middle of a run, and no run that stopped half way, makes it delete a    *)
(* workspace that serves (workspace-settings.service.ts:252-274).          *)
RunOrphansNothing ==
  ws = "gone" => serving \subseteq lost \union unrecorded

(* A purge loses no deployment that a take-down was well for: what it      *)
(* leaves serving was missed by a call that failed and was only logged     *)
(* (publish.service.ts:878), by a take-down that only asks for the latest  *)
(* one, or by one that a publish landed beside or after; or it belonged to *)
(* a site that a downgrade had unpublished, which takes nothing down       *)
(* (billing.service.ts:285-288).                                           *)
LostWasMissed == lost \subseteq missed \union downgraded

(* A draft is off the web: no deployment of a site whose row says it is    *)
(* not published serves, but those missed or downgraded in the ways above. *)
DraftIsDown ==
  \A s \in Sites : ~url[s] => Completed(s) \intersect serving \subseteq missed \union downgraded

(* A site whose deployment no take-down has tried still says so: status or *)
(* URL tell that it may be serving, a site downgraded for billing included *)
(* (publish.service.ts:823-826, the comment of hasLiveDeployment).         *)
LiveIsSeen ==
  \A s \in Sites : (Completed(s) \intersect serving) \ missed # {} => url[s]

(* Nobody pays for a workspace that the run deleted, unless they paid, or  *)
(* the webhook told of it, after the run had read which subscription to    *)
(* cancel, or their subscription had lost the row to another that was paid *)
(* too (workspace-settings.service.ts:242-251,                             *)
(* stripe-webhook.service.ts:122-137).                                     *)
NobodyPaysForNothing ==
  ws = "gone" => \A c \in Subs : billing[c] \in {"untold", "told"} => c \in late \union replaced

(* A workspace that is due is deleted in the end, or its owner cancels or  *)
(* delays it, as long as Vercel stays connected                            *)
(* (workspace-settings.service.ts:209-217).                                *)
DueIsDeleted ==
  <>[](connected \/ ws # "live") => (schedule = "due" ~> schedule # "due")
=============================================================================
