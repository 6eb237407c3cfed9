---------------------------- MODULE SiteGeneration ----------------------------
(***************************************************************************)
(* The AI site-generation jobs of one workspace.                           *)
(*                                                                         *)
(* A request counts the workspace's jobs against the monthly and hourly    *)
(* limits and creates a job (ai-generation.service.ts).  The server then   *)
(* calls its own worker route and does not wait for it; the worker         *)
(* (workers/ai-generate) claims the job, asks the model for page after     *)
(* page, and writes the site, its pages and COMPLETED in one transaction,  *)
(* which reads the site to replace without a lock and writes it by its id. *)
(* Meanwhile members may cancel the job, the dispatcher fails it when the  *)
(* call is refused or times out, and a cron fails what is an hour old.     *)
(*                                                                         *)
(* Requests, dispatchers, workers, cancellations and the cron interleave   *)
(* at every statement; a job has one of each.  A run stays in one month.   *)
(* Whether a site is published is no part of this: nobody here reads it.   *)
(***************************************************************************)
EXTENDS Integers, FiniteSets

CONSTANTS
  Jobs,     \* the requests, and the jobs they may create
  Sites,    \* the sites of the workspace, those yet to be created included
  NoSite,   \* no site
  Limit,    \* PLAN_LIMITS[plan].aiGenerations, -1 for no limit
  Hourly    \* HOURLY_ANTI_ABUSE_LIMIT

ASSUME JobsAssumption == IsFiniteSet(Jobs)
ASSUME NoSiteAssumption == NoSite \notin Sites \union Jobs
ASSUME LimitAssumption == Limit \in Nat \union {-1} /\ Hourly \in Nat

VARIABLES
  request,  \* per job: how far the request for it is
  job,      \* the AIGenerationJob rows
  old,      \* the jobs created over an hour ago
  dispatch, \* per job: the call of the worker route
  worker,   \* per job: where its worker is
  found,    \* per job: the site to replace, as its worker's transaction read it
  cancel,   \* per job: a cancellation that passed its check
  site,     \* the Site rows, and the job their pages are from
  raced,    \* history: jobs whose request overlapped another's
  excused,  \* history: jobs whose row was overwritten after it said COMPLETED
  overtaken \* history: jobs whose site was deleted between that read and the writes

limits == <<request, old, raced>>
vars == <<limits, job, dispatch, worker, found, cancel, site, excused, overtaken>>

-----------------------------------------------------------------------------
Working == {"QUEUED", "GENERATING_STRUCTURE", "GENERATING_CONTENT", "GENERATING_STYLES"}
Ended == {"COMPLETED", "FAILED", "CANCELLED"}
Job == [status : {"none"} \union Working \union Ended,
        site : Sites \union {NoSite}, replace : Sites \union {NoSite}]
\* The worker has the claim and has not failed.
Running == {"claimed", "content", "model", "styles", "persist", "write"}
WorkerAt == {"none", "read", "threw", "done"} \union Running
Site == [row : {"none", "there", "deleted"}, by : Jobs \union {NoSite}]

Created == {j \in Jobs : job[j].status # "none"}
Counted == {j \in Created : job[j].status \notin {"CANCELLED", "FAILED"}}
Recent == Created \ old
InFlight == {j \in Jobs : request[j] \in {"month", "hour"}}
\* deletedAt is null; nobody asks for the status.
IsThere(s) == s \in Sites /\ site[s].row = "there"

Init ==
  /\ request = [j \in Jobs |-> "idle"]
  /\ job = [j \in Jobs |-> [status |-> "none", site |-> NoSite, replace |-> NoSite]]
  /\ old = {}
  /\ dispatch = [j \in Jobs |-> "none"]
  /\ worker = [j \in Jobs |-> "none"]
  /\ found = [j \in Jobs |-> NoSite]
  /\ cancel = [j \in Jobs |-> FALSE]
  /\ site \in [Sites -> {[row |-> r, by |-> NoSite] : r \in {"none", "there"}}]
  /\ raced = {}
  /\ excused = {}
  /\ overtaken = {}

-----------------------------------------------------------------------------
(* createGenerationJob.                                                    *)

\* Cancelled and failed jobs do not count.
CountMonth(j) ==
  /\ request[j] = "idle"
  /\ Limit = -1 \/ Cardinality(Counted) < Limit
  /\ request' = [request EXCEPT ![j] = "month"]
  /\ UNCHANGED <<old, raced, job, dispatch, worker, found, cancel, site, excused, overtaken>>

\* (mutant) Cancelled and failed jobs do not count against the throttle either.
CountHourAsMonth(j) ==
  /\ request[j] = "month"
  /\ request' = [request EXCEPT ![j] = IF Cardinality(Counted \ old) < Hourly THEN "hour" ELSE "idle"]
  /\ UNCHANGED <<old, raced, job, dispatch, worker, found, cancel, site, excused, overtaken>>

\* Every job of the last hour counts.
CountHour(j) ==
  /\ request[j] = "month"
  /\ request' = [request EXCEPT ![j] = IF Cardinality(Recent) < Hourly THEN "hour" ELSE "idle"]
  /\ UNCHANGED <<old, raced, job, dispatch, worker, found, cancel, site, excused, overtaken>>

\* The site to replace is looked for first: one that is gone meanwhile is gone
\* for the worker too.
Create(j, s) ==
  /\ request[j] = "hour"
  /\ request' = [request EXCEPT ![j] = "done"]
  /\ job' = [job EXCEPT ![j] = [status |-> "QUEUED", site |-> NoSite,
                                replace |-> IF IsThere(s) THEN s ELSE NoSite]]
  /\ dispatch' = [dispatch EXCEPT ![j] = "sent"]
  /\ raced' = IF InFlight = {j} THEN raced ELSE raced \union InFlight
  /\ UNCHANGED <<old, worker, found, cancel, site, excused, overtaken>>

\* An hour passes since the job was created.
HourPasses(j) ==
  /\ j \in Created \ old
  /\ old' = old \union {j}
  /\ UNCHANGED <<request, raced, job, dispatch, worker, found, cancel, site, excused, overtaken>>

-----------------------------------------------------------------------------
(* dispatchAIWorker.                                                       *)

\* CRON_SECRET is not set, the call is refused, nothing answers, or the headers
\* do not come in time: the worker may be at work all the same.
DispatchFails(j) ==
  /\ dispatch[j] = "sent"
  /\ dispatch' = [dispatch EXCEPT ![j] = "refused"]
  /\ UNCHANGED <<limits, job, worker, found, cancel, site, excused, overtaken>>

\* (mutant) The job is failed whether or not a worker claimed it.
FailClaimed(j) ==
  /\ dispatch[j] = "refused"
  /\ dispatch' = [dispatch EXCEPT ![j] = "done"]
  /\ job' = [job EXCEPT ![j].status = IF @ \in Working THEN "FAILED" ELSE @]
  /\ UNCHANGED <<limits, worker, found, cancel, site, excused, overtaken>>

FailUnclaimed(j) ==
  /\ dispatch[j] = "refused"
  /\ dispatch' = [dispatch EXCEPT ![j] = "done"]
  /\ job' = [job EXCEPT ![j].status = IF @ = "QUEUED" THEN "FAILED" ELSE @]
  /\ UNCHANGED <<limits, worker, found, cancel, site, excused, overtaken>>

\* The instance is frozen after its response, or the update fails.
DispatchLost(j) ==
  /\ dispatch[j] \in {"sent", "refused"}
  /\ dispatch' = [dispatch EXCEPT ![j] = "done"]
  /\ UNCHANGED <<limits, job, worker, found, cancel, site, excused, overtaken>>

-----------------------------------------------------------------------------
(* The worker route.                                                       *)

\* What a transaction read does not outlive it.
At(j, pc) ==
  /\ worker' = [worker EXCEPT ![j] = pc]
  /\ found' = [found EXCEPT ![j] = NoSite]

\* The worker is done, and the dispatcher hears of it if it still listens.
Answer(j, ok) ==
  /\ At(j, "done")
  /\ dispatch' = [dispatch EXCEPT ![j] = IF @ # "sent" THEN @ ELSE IF ok THEN "done" ELSE "refused"]

WorkerReads(j) ==
  /\ worker[j] = "none" /\ dispatch[j] = "sent"
  /\ IF job[j].status = "QUEUED" THEN At(j, "read") /\ UNCHANGED dispatch ELSE Answer(j, FALSE)
  /\ UNCHANGED <<limits, job, cancel, site, excused, overtaken>>

\* (mutant) The row that was read is claimed, whatever it says by now.
ClaimRead(j) ==
  /\ worker[j] = "read"
  /\ job' = [job EXCEPT ![j].status = "GENERATING_STRUCTURE"] /\ At(j, "claimed")
  /\ UNCHANGED <<limits, dispatch, cancel, site, excused, overtaken>>

Claim(j) ==
  /\ worker[j] = "read"
  /\ IF job[j].status = "QUEUED"
     THEN /\ job' = [job EXCEPT ![j].status = "GENERATING_STRUCTURE"] /\ At(j, "claimed")
          /\ UNCHANGED dispatch
     ELSE Answer(j, FALSE) /\ UNCHANGED job
  /\ UNCHANGED <<limits, cancel, site, excused, overtaken>>

\* A CancelledError ends the worker with a 200.
Stop(j) == Answer(j, TRUE) /\ UNCHANGED job

Overruled(j) == job[j].status \in {"CANCELLED", "FAILED"}

\* setPhase: never out of CANCELLED or FAILED.
SetPhase(j, status, pc) ==
  IF Overruled(j)
  THEN Stop(j)
  ELSE job' = [job EXCEPT ![j].status = status] /\ At(j, pc) /\ UNCHANGED dispatch

StartContent(j) ==
  /\ worker[j] = "claimed"
  /\ SetPhase(j, "GENERATING_CONTENT", "content")
  /\ UNCHANGED <<limits, cancel, site, excused, overtaken>>

\* assertNotCancelled, before the model is asked for a page.
CheckCancelled(j) ==
  /\ worker[j] = "content"
  /\ IF job[j].status = "CANCELLED" THEN Stop(j) ELSE At(j, "model") /\ UNCHANGED <<job, dispatch>>
  /\ UNCHANGED <<limits, cancel, site, excused, overtaken>>

\* The page is there: on with the next, or with the styles after the last.
PageGenerated(j) ==
  /\ worker[j] = "model"
  /\ \E pc \in {"content", "styles"} : SetPhase(j, "GENERATING_CONTENT", pc)
  /\ UNCHANGED <<limits, cancel, site, excused, overtaken>>

StartStyles(j) ==
  /\ worker[j] = "styles"
  /\ SetPhase(j, "GENERATING_STYLES", "persist")
  /\ UNCHANGED <<limits, cancel, site, excused, overtaken>>

\* (mutant) The site that was there when the job was created.
FindsTheRecorded(j) ==
  /\ worker[j] = "persist"
  /\ worker' = [worker EXCEPT ![j] = "write"]
  /\ found' = [found EXCEPT ![j] = job[j].replace]
  /\ UNCHANGED <<limits, job, dispatch, cancel, site, excused, overtaken>>

\* The transaction begins with a read that locks nothing: the site to replace,
\* if it is still there.
FindsSite(j) ==
  /\ worker[j] = "persist"
  /\ worker' = [worker EXCEPT ![j] = "write"]
  /\ found' = [found EXCEPT ![j] = IF IsThere(job[j].replace) THEN job[j].replace ELSE NoSite]
  /\ UNCHANGED <<limits, job, dispatch, cancel, site, excused, overtaken>>

\* The site the pages are written to: by its id the one that was found, whatever
\* became of it, and otherwise a new one.
Target(j) == IF found[j] \in Sites THEN {found[j]} ELSE {s \in Sites : site[s].row = "none"}

\* Site and pages of the job, in the transaction that says COMPLETED.
Build(j, s) == site' = [site EXCEPT ![s] = [row |-> IF @.row = "none" THEN "there" ELSE @.row, by |-> j]]

\* The site's row is locked by its update, a new one is seen by nobody, and the
\* flip reads the job as it is by now: the writes are one step.
Commit(j) ==
  /\ ~Overruled(j)
  /\ \E s \in Target(j) :
       Build(j, s) /\ job' = [job EXCEPT ![j].status = "COMPLETED", ![j].site = s]

\* (mutant) The flip is not in the transaction of the site.
PersistApart(j) ==
  /\ worker[j] = "write"
  /\ \/ Overruled(j) /\ Stop(j) /\ \E s \in Target(j) : Build(j, s)
     \/ Commit(j) /\ Answer(j, TRUE)
  /\ UNCHANGED <<limits, cancel, excused, overtaken>>

\* A job that was cancelled or failed meanwhile rolls the site back.
Persist(j) ==
  /\ worker[j] = "write"
  /\ \/ Overruled(j) /\ Stop(j) /\ UNCHANGED site
     \/ Commit(j) /\ Answer(j, TRUE)
  /\ UNCHANGED <<limits, cancel, excused, overtaken>>

\* The transaction is committed and its answer is lost.
PersistUnheard(j) ==
  /\ worker[j] = "write"
  /\ Commit(j) /\ At(j, "threw")
  /\ UNCHANGED <<limits, dispatch, cancel, excused, overtaken>>

\* The model, the database or the slug's unique index says no.
Throws(j) ==
  /\ worker[j] \in Running
  /\ At(j, "threw")
  /\ UNCHANGED <<limits, job, dispatch, cancel, site, excused, overtaken>>

\* The catch: FAILED, unless the job is cancelled.
RecordFailure(j) ==
  /\ worker[j] = "threw"
  /\ job' = [job EXCEPT ![j].status = IF @ = "CANCELLED" THEN @ ELSE "FAILED"]
  /\ excused' = IF job[j].status = "COMPLETED" THEN excused \union {j} ELSE excused
  /\ Answer(j, FALSE)
  /\ UNCHANGED <<limits, cancel, site, overtaken>>

\* The worker is killed, by its 300 seconds or with its instance.
Killed(j) ==
  /\ worker[j] \in {"read", "threw"} \union Running
  /\ At(j, "done")
  /\ UNCHANGED <<limits, job, dispatch, cancel, site, excused, overtaken>>

-----------------------------------------------------------------------------
(* cancelJob, the cleanup cron, and the site's own life.                   *)

CheckCancel(j) ==
  /\ ~cancel[j]
  /\ job[j].status \in {"QUEUED", "GENERATING_CONTENT", "GENERATING_STRUCTURE"}
  /\ cancel' = [cancel EXCEPT ![j] = TRUE]
  /\ UNCHANGED <<limits, job, dispatch, worker, found, site, excused, overtaken>>

\* By the job's id, whatever its row says by now.
WriteCancel(j) ==
  /\ cancel[j]
  /\ cancel' = [cancel EXCEPT ![j] = FALSE]
  /\ job' = [job EXCEPT ![j].status = "CANCELLED"]
  /\ excused' = IF job[j].status = "COMPLETED" THEN excused \union {j} ELSE excused
  /\ UNCHANGED <<limits, dispatch, worker, found, site, overtaken>>

\* (mutant) The last phase, which was added to the worker later, is not listed.
StaleListed(j) == j \in old /\ job[j].status \in Working \ {"GENERATING_STYLES"}

\* What ai-job-cleanup calls unfinished.
Stale(j) == j \in old /\ job[j].status \in Working

Cleanup ==
  /\ \E j \in Jobs : Stale(j)
  /\ job' = [j \in Jobs |-> IF Stale(j) THEN [job[j] EXCEPT !.status = "FAILED"] ELSE job[j]]
  /\ UNCHANGED <<limits, dispatch, worker, found, cancel, site, excused, overtaken>>

DeleteSite(s) ==
  /\ IsThere(s)
  /\ site' = [site EXCEPT ![s].row = "deleted"]
  /\ overtaken' = overtaken \union {j \in Jobs : found[j] = s}
  /\ UNCHANGED <<limits, job, dispatch, worker, found, cancel, excused>>

\* Within the thirty days of the trash.
RestoreSite(s) ==
  /\ site[s].row = "deleted"
  /\ site' = [site EXCEPT ![s].row = "there"]
  /\ UNCHANGED <<limits, job, dispatch, worker, found, cancel, excused, overtaken>>

-----------------------------------------------------------------------------
Worker(j) ==
  \/ WorkerReads(j) \/ Claim(j) \/ StartContent(j) \/ CheckCancelled(j) \/ PageGenerated(j)
  \/ StartStyles(j) \/ FindsSite(j) \/ Persist(j) \/ PersistUnheard(j) \/ Throws(j) \/ RecordFailure(j) \/ Killed(j)

Next ==
  \/ \E j \in Jobs :
       \/ CountMonth(j) \/ CountHour(j) \/ \E s \in Sites \union {NoSite} : Create(j, s)
       \/ HourPasses(j)
       \/ DispatchFails(j) \/ FailUnclaimed(j) \/ DispatchLost(j)
       \/ Worker(j)
       \/ CheckCancel(j) \/ WriteCancel(j)
  \/ Cleanup
  \/ \E s \in Sites : DeleteSite(s) \/ RestoreSite(s)

Spec == Init /\ [][Next]_vars

(* Time passes and the cron runs every hour.  No worker is bound to finish, *)
(* no dispatcher to answer and no member to cancel.                         *)
Fairness ==
  /\ \A j \in Jobs : WF_vars(HourPasses(j))
  /\ WF_vars(Cleanup)

FairSpec == Spec /\ Fairness
=============================================================================
