------------------------ MODULE GenerationProperties ------------------------
(* What must be true of the AI site-generation jobs.                       *)
EXTENDS SiteGeneration

\* Every variable has its type.
TypeOK ==
  /\ request \in [Jobs -> {"idle", "month", "hour", "done"}]
  /\ job \in [Jobs -> Job]
  /\ old \subseteq Created
  /\ dispatch \in [Jobs -> {"none", "sent", "refused", "done"}]
  /\ worker \in [Jobs -> WorkerAt]
  /\ found \in [Jobs -> Sites \union {NoSite}]
  /\ cancel \in [Jobs -> BOOLEAN]
  /\ site \in [Sites -> Site]
  /\ raced \subseteq Jobs
  /\ excused \subseteq Jobs
  /\ overtaken \subseteq Jobs

(* A site that AI wrote is paid for: the job its pages are from says       *)
(* COMPLETED and names that site, so the month counts it.  Only a          *)
(* cancellation that was checked before and written after the worker's     *)
(* transaction, or a worker that did not hear its own commit, leaves a     *)
(* site with a job that counts for nothing (route.ts:21-26, 184-187).      *)
SitesAreBilled ==
  \A s \in Sites :
    LET j == site[s].by IN
      j \in Jobs \ excused => job[j].status = "COMPLETED" /\ job[j].site = s

(* What a cancellation, a reaper or a failure ended stays ended, whatever  *)
(* the worker, the dispatcher and the cron still have to write: no job is  *)
(* resurrected, and only a late cancel, or a catch after a commit nobody   *)
(* heard, changes what an ended job says (route.ts:101-108).               *)
EndedStaysEnded ==
  [][\A j \in Jobs :
       /\ job[j].status = "CANCELLED" => job'[j].status = "CANCELLED"
       /\ job[j].status = "FAILED" => job'[j].status \in {"FAILED", "CANCELLED"}
       /\ job[j].status = "COMPLETED" => job'[j].status = "COMPLETED" \/ j \in excused']_vars

(* The dispatcher only fails jobs no worker claimed: while a worker runs,  *)
(* its job is FAILED only if it is more than an hour old                   *)
(* (ai-generation.service.ts:106-112).                                     *)
ClaimedIsTheWorkers ==
  \A j \in Jobs : job[j].status = "FAILED" /\ worker[j] \in Running => j \in old

(* What a job hands over is its own: the site that has its pages, and       *)
(* nobody's site before unless it was the one to replace, however long ago  *)
(* that was chosen.  The site is there to be seen, except one that was      *)
(* deleted between the read of the worker's transaction and its writes by   *)
(* id, which no deletedAt guards (route.ts:194-224).                        *)
HandsOverItsOwn ==
  [][\A j \in Jobs :
       job[j].status # "COMPLETED" /\ job'[j].status = "COMPLETED" =>
         \E s \in Sites :
           /\ job'[j].site = s /\ site'[s].by = j
           /\ site[s].row # "none" => s = job[j].replace
           /\ site'[s].row = "there" \/ j \in overtaken]_vars

(* The limits hold for every workspace whose requests do not overlap: the  *)
(* jobs in excess are among those that were counted before another one was *)
(* created (ai-generation.service.ts:22-39, 60).                           *)
LimitsHold ==
  /\ Limit # -1 => Cardinality(Counted \ raced) <= Limit
  /\ Cardinality(Recent \ raced) <= Hourly

(* No job is under way for ever, although its dispatch may be lost and its *)
(* worker be killed at any statement (cron ai-job-cleanup/route.ts:8-11).  *)
EveryJobEnds == \A j \in Jobs : job[j].status \in Working ~> job[j].status \in Ended

-----------------------------------------------------------------------------
(* What the worker's comment says of cancelled jobs: no site row, and no    *)
(* consumed quota (route.ts:21-26).                                         *)
CancelledHasNoSite ==
  \A s \in Sites : site[s].by \in Jobs => job[site[s].by].status # "CANCELLED"
=============================================================================
