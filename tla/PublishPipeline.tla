--------------------------- MODULE PublishPipeline ---------------------------
(***************************************************************************)
(* The publish pipeline of one site: the rows of publish_build_jobs, the   *)
(* site's row, and everything that writes them concurrently.               *)
(*                                                                         *)
(*   startPublish   one call per job (server/services/publish.service.ts)  *)
(*   worker route   POST api/workers/publish/[jobId], one invocation per   *)
(*                  dispatched request, killed at any moment               *)
(*   cancelPublish  an admin's read, later its unconditional write         *)
(*   cleanup cron   api/cron/publish-job-cleanup, a read then a write      *)
(*   unpublish      unpublishSite: provider first, then the site's row     *)
(*                                                                         *)
(* Every database statement, or $transaction of statements, is one atomic  *)
(* step; nothing is atomic across two of them.  The deploy provider        *)
(* (Vercel) is external: the set of deployments it serves.  Ages are       *)
(* abstracted to the cutoffs that code compares them with.                 *)
(***************************************************************************)
EXTENDS Naturals, FiniteSets

CONSTANTS
  Jobs,         \* attempts to publish the site: a call of startPublish each
  Workers,      \* the worker invocations that can run at the same time
  NoJob,        \* "no job": not a member of Jobs
  MaxAttempts,  \* POSTs dispatchWorker makes before it gives up
  Retained,     \* PUBLISH_HISTORY_RETAINED
  SiteOps       \* bound: which of the site's other writers run

ASSUME NoJobAssumption == NoJob \notin Jobs
ASSUME MaxAttemptsAssumption == MaxAttempts \in Nat \ {0}
ASSUME RetainedAssumption == Retained \in Nat \ {0}
ASSUME SiteOpsAssumption == SiteOps \subseteq {"unpublish", "archive"}

VARIABLES
  row,       \* row[j]: the job's database row
  site,      \* the site's row: status, and whether publishedUrl is set
  start,     \* start[j]: where the startPublish call of j is
  worker,    \* worker[w]: what invocation w is doing, and for which job
  cancel,    \* cancel[j]: a cancelPublish between its read and its write
  sweep,     \* the cleanup cron between its findMany and its transaction
  unpublish, \* an unpublishSite between the provider call and its write
  deployed,  \* (external) the jobs whose deployment the provider serves
  clock      \* the completedAt that was written last

vars == <<row, site, start, worker, cancel, sweep, unpublish, deployed, clock>>

-----------------------------------------------------------------------------
(* The data.                                                               *)

Active == {"QUEUED", "BUILDING", "DEPLOYING"}
JobStatus == Active \union {"NONE", "COMPLETED", "FAILED", "CANCELLED"}
Errors == {"none", "stranded", "dispatch", "worker", "cron"}

\* A row is stale past startPublish's cutoff for its status (5 minutes after
\* createdAt, 15 after startedAt) and expired past the cron's (an hour).
Ages == {"fresh", "stale", "expired"}

\* completedAt is 0 for null, and otherwise orders the completions.
JobRow == [status: JobStatus, started: BOOLEAN, age: Ages,
           payload: BOOLEAN, deploymentId: BOOLEAN, error: Errors,
           completedAt: Nat]

NoRow == [status |-> "NONE", started |-> FALSE, age |-> "fresh", payload |-> FALSE,
          deploymentId |-> FALSE, error |-> "none", completedAt |-> 0]

SiteRow == [status: {"DRAFT", "PUBLISHING", "PUBLISHED", "ARCHIVED"},
            url: BOOLEAN]

StartSteps == {"strand", "gate", "create", "mark", "dispatch", "reclaim"}
StartState == [pc: StartSteps \union {"idle", "returned", "refused"},
               pages: BOOLEAN, url: BOOLEAN, tries: Nat]

\* The steps of an invocation that has claimed its job and still runs it.
HoldingSteps == {"mark", "prepare", "deploy", "record", "verify",
                 "complete", "prune"}
Free == [pc |-> "free", job |-> NoJob, url |-> FALSE]
WorkerState ==
  {Free} \union [pc: HoldingSteps \union {"read", "claim", "catch", "fail"},
                 job: Jobs, url: BOOLEAN]

CancelState == {"none", "url", "nourl"}
NoSweep == [job |-> NoJob, publishing |-> FALSE, url |-> FALSE]
SweepState == {NoSweep} \union [job: Jobs, publishing: BOOLEAN, url: BOOLEAN]

TypeOK ==
  /\ row \in [Jobs -> JobRow]
  /\ site \in SiteRow
  /\ start \in [Jobs -> StartState]
  /\ worker \in [Workers -> WorkerState]
  /\ cancel \in [Jobs -> CancelState]
  /\ sweep \in SweepState
  /\ unpublish \in BOOLEAN
  /\ deployed \subseteq Jobs
  /\ clock \in Nat

Init ==
  /\ row = [j \in Jobs |-> NoRow]
  /\ site = [status |-> "DRAFT", url |-> FALSE]
  /\ start = [j \in Jobs |-> [pc |-> "idle", pages |-> FALSE, url |-> FALSE, tries |-> 0]]
  /\ worker = [w \in Workers |-> Free]
  /\ cancel = [j \in Jobs |-> "none"]
  /\ sweep = NoSweep
  /\ unpublish = FALSE
  /\ deployed = {}
  /\ clock = 0

-----------------------------------------------------------------------------
(* What the handlers share.                                                *)

IsActive(j) == row[j].status \in Active

\* liveJobFilter: an active row that is not past its cutoff.
IsLive(j) == IsActive(j) /\ row[j].age = "fresh"

\* (mutant) the stranded-row cleanup without its cutoffs.
IsStrandedAtOnce(j) == IsActive(j)

\* The rows that startPublish's updateMany fails before it inserts its own.
IsStranded(j) == IsActive(j) /\ row[j].age # "fresh"

\* (mutant) the cron as it was: it looked for a status nobody writes.
IsReapableQueued(j) == row[j].status = "QUEUED" /\ row[j].age = "expired"

\* The rows that the cleanup cron reaps.
IsReapable(j) == IsActive(j) /\ row[j].age = "expired"

\* (mutant) the claim before its WHERE clause: any row that exists.
ClaimableAlways(j) == row[j].status # "NONE"

\* The claim's WHERE clause: a job is claimed out of QUEUED only.
Claimable(j) == row[j].status = "QUEUED"

\* (mutant) no unique index: the precheck alone.
SlotNeverTaken(j) == FALSE

\* publish_build_jobs_active_unique: does another active row of the site
\* make an insert or an update of j to an active status fail (P2002)?
SlotTaken(j) == \E k \in Jobs \ {j} : IsActive(k)

\* What the statements write to a row.  The claim restarts the row's clock
\* (startedAt); a row that fails or is cancelled loses its payload (DbNull).
Queued(pages) == [NoRow EXCEPT !.status = "QUEUED", !.payload = pages]
Building(r) == [r EXCEPT !.status = "BUILDING", !.started = TRUE, !.age = "fresh"]
Deploying(r) == [r EXCEPT !.status = "DEPLOYING"]
Completed(r, at) == [r EXCEPT !.status = "COMPLETED", !.completedAt = at]
Pruned(r) == [r EXCEPT !.payload = FALSE]
Aged(r) == [r EXCEPT !.age = IF r.age = "fresh" THEN "stale" ELSE "expired"]

Failed(r, why) == [r EXCEPT !.status = "FAILED", !.error = why, !.payload = FALSE]

Cancelled(r) == [r EXCEPT !.status = "CANCELLED", !.payload = FALSE]

\* The deployment's id, written as soon as the provider returned.
Recorded(r) == [r EXCEPT !.deploymentId = TRUE]

\* (mutant) a cancelled or failed publish always shows the site as live.
FallbackPublished(url) == "PUBLISHED"

\* The status a site falls back to: PUBLISHED while an earlier deploy serves.
Fallback(url) == IF url THEN "PUBLISHED" ELSE "DRAFT"

StartGoes(j, pc) == start' = [start EXCEPT ![j].pc = pc]
WorkerGoes(w, pc) == worker' = [worker EXCEPT ![w].pc = pc]
WorkerEnds(w) == worker' = [worker EXCEPT ![w] = Free]
Holds(w) == worker[w].pc \in HoldingSteps

-----------------------------------------------------------------------------
(* startPublish.                                                           *)

\* The precheck: refuse while a live job exists.
StartPublish(j) ==
  /\ start[j].pc = "idle"
  /\ \E withPages \in BOOLEAN :
       start' = [start EXCEPT ![j].pages = withPages,
                   ![j].pc = IF \E k \in Jobs : IsLive(k) THEN "refused" ELSE "strand"]
  /\ UNCHANGED <<row, site, worker, cancel, sweep, unpublish, deployed, clock>>

\* rollbackPublish: a new publish of the payload a completed job kept.
RollbackPublish(j, target) ==
  /\ start[j].pc = "idle"
  /\ row[target].status = "COMPLETED"
  /\ row[target].payload
  /\ start' = [start EXCEPT ![j].pages = TRUE,
                 ![j].pc = IF \E k \in Jobs : IsLive(k) THEN "refused" ELSE "strand"]
  /\ UNCHANGED <<row, site, worker, cancel, sweep, unpublish, deployed, clock>>

\* Fail the rows whose worker is taken for dead, to free the slot.
StrandStale(j) ==
  /\ start[j].pc = "strand"
  /\ row' = [k \in Jobs |-> IF IsStranded(k) THEN Failed(row[k], "stranded") ELSE row[k]]
  /\ StartGoes(j, "gate")
  /\ UNCHANGED <<site, worker, cancel, sweep, unpublish, deployed, clock>>

\* Read the site and decide: deleted, workspace being deleted, behind-copy,
\* approval missing, provider not connected (all refusals leave no trace), or
\* go on with the publishedUrl that was read.
GateRefuses(j) ==
  /\ start[j].pc = "gate"
  /\ StartGoes(j, "refused")
  /\ UNCHANGED <<row, site, worker, cancel, sweep, unpublish, deployed, clock>>

GatePasses(j) ==
  /\ start[j].pc = "gate"
  /\ start' = [start EXCEPT ![j].pc = "create", ![j].url = site.url]
  /\ UNCHANGED <<row, site, worker, cancel, sweep, unpublish, deployed, clock>>

\* The insert; the loser of a race is refused by the unique index.
CreateJob(j) ==
  /\ start[j].pc = "create"
  /\ IF SlotTaken(j)
       THEN /\ StartGoes(j, "refused")
            /\ UNCHANGED row
       ELSE /\ StartGoes(j, "mark")
            /\ row' = [row EXCEPT ![j] = Queued(start[j].pages)]
  /\ UNCHANGED <<site, worker, cancel, sweep, unpublish, deployed, clock>>

MarkPublishing(j) ==
  /\ start[j].pc = "mark"
  /\ site' = [site EXCEPT !.status = "PUBLISHING"]
  /\ StartGoes(j, "dispatch")
  /\ UNCHANGED <<row, worker, cancel, sweep, unpublish, deployed, clock>>

\* A request for j reaches the worker route: a new invocation begins.
Invoke(j) ==
  \E w \in Workers :
    /\ worker[w] = Free
    /\ worker' = [worker EXCEPT ![w] = [Free EXCEPT !.pc = "read", !.job = j]]

\* The POST is still open after two seconds, or was answered (not 401, 404).
\* One that hangs and never arrives is an invocation killed before its read.
DispatchTaken(j) ==
  /\ start[j].pc = "dispatch"
  /\ Invoke(j)
  /\ StartGoes(j, "returned")
  /\ UNCHANGED <<row, site, cancel, sweep, unpublish, deployed, clock>>

\* The POST ends in a network error, before or after it reached the worker:
\* the caller cannot tell, retries, and at last takes it for never reached.
DispatchError(j) ==
  /\ start[j].pc = "dispatch"
  /\ Invoke(j) \/ UNCHANGED worker
  /\ start' = [start EXCEPT ![j].tries = @ + 1,
                 ![j].pc = IF start[j].tries + 1 = MaxAttempts THEN "reclaim" ELSE "dispatch"]
  /\ UNCHANGED <<row, site, cancel, sweep, unpublish, deployed, clock>>

\* The POST is answered 401 or 404: reached, but nobody took the job.
DispatchDenied(j) ==
  /\ start[j].pc = "dispatch"
  /\ StartGoes(j, "reclaim")
  /\ UNCHANGED <<row, site, worker, cancel, sweep, unpublish, deployed, clock>>

\* WORKER_DISPATCH_FAILED: job and site together, whatever they are by now,
\* with the publishedUrl that was read before the insert.
Reclaim(j) ==
  /\ start[j].pc = "reclaim"
  /\ row' = [row EXCEPT ![j] = Failed(@, "dispatch")]
  /\ site' = [site EXCEPT !.status = Fallback(start[j].url)]
  /\ StartGoes(j, "refused")
  /\ UNCHANGED <<worker, cancel, sweep, unpublish, deployed, clock>>

\* The server process dies, or a statement throws, between two statements.
StartCrash(j) ==
  /\ start[j].pc \in StartSteps
  /\ StartGoes(j, "refused")
  /\ UNCHANGED <<row, site, worker, cancel, sweep, unpublish, deployed, clock>>

-----------------------------------------------------------------------------
(* The worker route.                                                       *)

\* Only a QUEUED job is taken (else 400); one without pages throws at once.
WorkerRead(w) ==
  LET j == worker[w].job IN
  /\ worker[w].pc = "read"
  /\ IF row[j].status # "QUEUED" THEN WorkerEnds(w)
     ELSE WorkerGoes(w, IF row[j].payload THEN "claim" ELSE "catch")
  /\ UNCHANGED <<row, site, start, cancel, sweep, unpublish, deployed, clock>>

\* updateMany WHERE status = QUEUED.
Claim(w) ==
  LET j == worker[w].job IN
  /\ worker[w].pc = "claim"
  /\ IF Claimable(j)
       THEN /\ row' = [row EXCEPT ![j] = Building(@)]
            /\ WorkerGoes(w, "mark")
       ELSE /\ WorkerEnds(w)
            /\ UNCHANGED row
  /\ UNCHANGED <<site, start, cancel, sweep, unpublish, deployed, clock>>

\* The write of DEPLOYING names only the id: whatever the row's status, and
\* refused only by the unique index.
MarkDeploying(w) ==
  LET j == worker[w].job IN
  /\ worker[w].pc = "mark"
  /\ IF SlotTaken(j)
       THEN /\ WorkerGoes(w, "catch")
            /\ UNCHANGED row
       ELSE /\ WorkerGoes(w, "prepare")
            /\ row' = [row EXCEPT ![j] = Deploying(@)]
  /\ UNCHANGED <<site, start, cancel, sweep, unpublish, deployed, clock>>

\* checkCancelled: only CANCELLED stops a run, FAILED does not.
StopIfCancelled(w, next) ==
  IF row[worker[w].job].status = "CANCELLED" THEN WorkerEnds(w) ELSE WorkerGoes(w, next)

\* Building the files, between checks; the last one is before the deploy.
Prepare(w) ==
  /\ worker[w].pc = "prepare"
  /\ StopIfCancelled(w, "deploy")
  /\ UNCHANGED <<row, site, start, cancel, sweep, unpublish, deployed, clock>>

\* runVercelDeploy: the deployment goes live, and the call returns, or throws
\* after that (a poll or the password call that fails).
Deploy(w) ==
  /\ worker[w].pc = "deploy"
  /\ deployed' = deployed \union {worker[w].job}
  /\ WorkerGoes(w, "record") \/ WorkerGoes(w, "catch")
  /\ UNCHANGED <<row, site, start, cancel, sweep, unpublish, clock>>

Record(w) ==
  /\ worker[w].pc = "record"
  /\ row' = [row EXCEPT ![worker[w].job] = Recorded(@)]
  /\ WorkerGoes(w, "verify")
  /\ UNCHANGED <<site, start, cancel, sweep, unpublish, deployed, clock>>

\* The check after the deploy, the last before the job is completed.
Verify(w) ==
  /\ worker[w].pc = "verify"
  /\ StopIfCancelled(w, "complete")
  /\ UNCHANGED <<row, site, start, cancel, sweep, unpublish, deployed, clock>>

\* completePublish's transaction: job and site, whatever they are by now.
Complete(w) ==
  /\ worker[w].pc = "complete"
  /\ row' = [row EXCEPT ![worker[w].job] = Completed(@, clock + 1)]
  /\ site' = [status |-> "PUBLISHED", url |-> TRUE]
  /\ WorkerGoes(w, "prune")
  /\ clock' = clock + 1
  /\ UNCHANGED <<start, cancel, sweep, unpublish, deployed>>

\* The completed rows that still hold a payload and are newer than j.
NewerVersions(j) ==
  {k \in Jobs : /\ row[k].status = "COMPLETED"
                /\ row[k].payload
                /\ row[k].completedAt > row[j].completedAt}

\* Old versions lose their payload.  What follows (a read for the
\* notification) may still throw, and the handler's catch covers it too.
Prune(w) ==
  /\ worker[w].pc = "prune"
  /\ row' = [j \in Jobs |->
               IF row[j].status = "COMPLETED" /\ Cardinality(NewerVersions(j)) >= Retained
                 THEN Pruned(row[j]) ELSE row[j]]
  /\ WorkerEnds(w) \/ WorkerGoes(w, "catch")
  /\ UNCHANGED <<site, start, cancel, sweep, unpublish, deployed, clock>>

\* Any statement of the try block may throw: the database, the provider, or
\* the rendering of the files.
WorkerThrows(w) ==
  /\ worker[w].pc \in HoldingSteps \union {"claim"}
  /\ WorkerGoes(w, "catch")
  /\ UNCHANGED <<row, site, start, cancel, sweep, unpublish, deployed, clock>>

\* catch: read publishedUrl, then fail the job and settle the site together.
CatchRead(w) ==
  /\ worker[w].pc = "catch"
  /\ worker' = [worker EXCEPT ![w].pc = "fail", ![w].url = site.url]
  /\ UNCHANGED <<row, site, start, cancel, sweep, unpublish, deployed, clock>>

CatchFail(w) ==
  /\ worker[w].pc = "fail"
  /\ row' = [row EXCEPT ![worker[w].job] = Failed(@, "worker")]
  /\ site' = [site EXCEPT !.status = Fallback(worker[w].url)]
  /\ WorkerEnds(w)
  /\ UNCHANGED <<start, cancel, sweep, unpublish, deployed, clock>>

\* The invocation is killed (crash, or maxDuration) without another word.
WorkerCrash(w) ==
  /\ worker[w] # Free
  /\ WorkerEnds(w)
  /\ UNCHANGED <<row, site, start, cancel, sweep, unpublish, deployed, clock>>

-----------------------------------------------------------------------------
(* cancelPublish: only who got the job's id from startPublish can call it.  *)

CancelRead(j) ==
  /\ start[j].pc = "returned"
  /\ cancel[j] = "none"
  /\ row[j].status \in {"QUEUED", "BUILDING"}
  /\ cancel' = [cancel EXCEPT ![j] = IF site.url THEN "url" ELSE "nourl"]
  /\ UNCHANGED <<row, site, start, worker, sweep, unpublish, deployed, clock>>

CancelWrite(j) ==
  /\ cancel[j] # "none"
  /\ row' = [row EXCEPT ![j] = Cancelled(@)]
  /\ site' = [site EXCEPT !.status = Fallback(cancel[j] = "url")]
  /\ cancel' = [cancel EXCEPT ![j] = "none"]
  /\ UNCHANGED <<start, worker, sweep, unpublish, deployed, clock>>

CancelCrash(j) ==
  /\ cancel[j] # "none"
  /\ cancel' = [cancel EXCEPT ![j] = "none"]
  /\ UNCHANGED <<row, site, start, worker, sweep, unpublish, deployed, clock>>

-----------------------------------------------------------------------------
(* The cleanup cron.  The unique index leaves it at most one row per site.  *)

SweepRead ==
  /\ sweep = NoSweep
  /\ \E j \in Jobs :
       /\ IsReapable(j)
       /\ sweep' = [job |-> j, publishing |-> site.status = "PUBLISHING", url |-> site.url]
  /\ UNCHANGED <<row, site, start, worker, cancel, unpublish, deployed, clock>>

SweepWrite ==
  /\ sweep # NoSweep
  /\ row' = [row EXCEPT ![sweep.job] = Failed(@, "cron")]
  /\ site' = IF sweep.publishing THEN [site EXCEPT !.status = Fallback(sweep.url)] ELSE site
  /\ sweep' = NoSweep
  /\ UNCHANGED <<start, worker, cancel, unpublish, deployed, clock>>

SweepCrash ==
  /\ sweep # NoSweep
  /\ sweep' = NoSweep
  /\ UNCHANGED <<row, site, start, worker, cancel, unpublish, deployed, clock>>

-----------------------------------------------------------------------------
(* The site's other writers.                                               *)

\* unpublishSite deletes the newest completed deployment, best-effort.
NewestRecorded ==
  {j \in Jobs : /\ row[j].status = "COMPLETED"
                /\ row[j].deploymentId
                /\ \A k \in Jobs : row[k].status = "COMPLETED" /\ row[k].deploymentId
                                     => row[k].completedAt <= row[j].completedAt}

UnpublishTakeDown ==
  /\ "unpublish" \in SiteOps
  /\ ~unpublish
  /\ deployed' = deployed \ NewestRecorded \/ UNCHANGED deployed
  /\ unpublish' = TRUE
  /\ UNCHANGED <<row, site, start, worker, cancel, sweep, clock>>

UnpublishWrite ==
  /\ unpublish
  /\ site' = [status |-> "DRAFT", url |-> FALSE]
  /\ unpublish' = FALSE
  /\ UNCHANGED <<row, start, worker, cancel, sweep, deployed, clock>>

UnpublishCrash ==
  /\ unpublish
  /\ unpublish' = FALSE
  /\ UNCHANGED <<row, site, start, worker, cancel, sweep, deployed, clock>>

ArchiveSite ==
  /\ "archive" \in SiteOps
  /\ site' = [site EXCEPT !.status = "ARCHIVED"]
  /\ UNCHANGED <<row, start, worker, cancel, sweep, unpublish, deployed, clock>>

UnarchiveSite ==
  /\ "archive" \in SiteOps
  /\ site' = [site EXCEPT !.status = "DRAFT"]
  /\ UNCHANGED <<row, start, worker, cancel, sweep, unpublish, deployed, clock>>

-----------------------------------------------------------------------------
(* Time.  A call of startPublish is over long before its row is stale.  A   *)
(* row ages past a startedAt cutoff (15 minutes, an hour), or a queued one  *)
(* past the cron's, only when no invocation can still run for it: the       *)
(* platform kills them after maxDuration, 5 minutes.                        *)

RunsFor(j) == {w \in Workers : worker[w].job = j}

Age(j) ==
  /\ IsActive(j)
  /\ row[j].age # "expired"
  /\ start[j].pc \in {"returned", "refused"}
  /\ RunsFor(j) = {} \/ (row[j].status = "QUEUED" /\ row[j].age = "fresh")
  /\ row' = [row EXCEPT ![j] = Aged(@)]
  /\ UNCHANGED <<site, start, worker, cancel, sweep, unpublish, deployed, clock>>

-----------------------------------------------------------------------------
StartStep(j) ==
  \/ StrandStale(j) \/ GateRefuses(j) \/ GatePasses(j) \/ CreateJob(j)
  \/ MarkPublishing(j) \/ DispatchTaken(j) \/ DispatchError(j)
  \/ DispatchDenied(j) \/ Reclaim(j) \/ StartCrash(j)

WorkerStep(w) ==
  \/ WorkerRead(w) \/ Claim(w) \/ MarkDeploying(w) \/ Prepare(w) \/ Deploy(w)
  \/ Record(w) \/ Verify(w) \/ Complete(w) \/ Prune(w)
  \/ WorkerThrows(w) \/ CatchRead(w) \/ CatchFail(w) \/ WorkerCrash(w)

CancelStep(j) == CancelRead(j) \/ CancelWrite(j) \/ CancelCrash(j)

SweepStep == SweepRead \/ SweepWrite \/ SweepCrash

SiteStep ==
  UnpublishTakeDown \/ UnpublishWrite \/ UnpublishCrash \/ ArchiveSite \/ UnarchiveSite

Next ==
  \/ \E j \in Jobs : StartPublish(j) \/ StartStep(j) \/ CancelStep(j) \/ Age(j)
  \/ \E j, target \in Jobs : RollbackPublish(j, target)
  \/ \E w \in Workers : WorkerStep(w)
  \/ SweepStep
  \/ SiteStep

Spec == Init /\ [][Next]_vars

\* Users owe nothing: nobody has to publish, cancel or unpublish.  A started
\* call goes on or dies, an invocation goes on or is killed, time passes, the
\* cron keeps running and, although a run may die, not every run does.
Fairness ==
  /\ \A j \in Jobs : WF_vars(StartStep(j)) /\ WF_vars(Age(j))
  /\ \A w \in Workers : WF_vars(WorkerStep(w))
  /\ WF_vars(SweepRead) /\ SF_vars(SweepWrite)

FairSpec == Spec /\ Fairness

-----------------------------------------------------------------------------
(* Safety.                                                                 *)

\* At most one active job per site.  startPublish's precheck cannot give this
\* (two calls pass it together); the index has to stop the insert as well as
\* a late DEPLOYING write of a job that was cancelled or failed meanwhile.
OneActiveJob == \A j, k \in Jobs : IsActive(j) /\ IsActive(k) => j = k

\* A job is built by one invocation, however often dispatchWorker's retries
\* deliver it: the second finds it out of QUEUED, or loses the claim.
ExclusiveClaim ==
  \A v, w \in Workers : Holds(v) /\ Holds(w) /\ worker[v].job = worker[w].job => v = w

\* A job that was cancelled or failed before a worker claimed it is never
\* claimed afterwards, by an invocation that read it as QUEUED before.
EndedUnclaimedStaysUnclaimed ==
  [][\A j \in Jobs : row[j].status \in {"CANCELLED", "FAILED"} /\ ~row[j].started
                       => ~row'[j].started]_vars

\* The cutoffs are sound: a row failed for being too old (by startPublish or
\* by the cron) has no worker that still builds it, and never comes back.
SweptStaysDead ==
  \A j \in Jobs : row[j].error \in {"stranded", "cron"} =>
    /\ row[j].status \in {"FAILED", "CANCELLED"}
    /\ \A w \in Workers : Holds(w) => worker[w].job # j

\* No row keeps its pages' HTML once it failed or was cancelled, whichever of
\* the five writers got it there and in whatever order.
NoHtmlAtRest ==
  \A j \in Jobs : row[j].status \in {"FAILED", "CANCELLED"} => ~row[j].payload

\* A deployment that completed a job is on record, whatever happened to the
\* job since: unpublish, take-down and history find it by deploymentId.
CompletedIsRecorded ==
  \A j \in Jobs : row[j].completedAt > 0 => row[j].deploymentId /\ row[j].started

\* No site is shown as PUBLISHED, or keeps a publishedUrl, that never had a
\* completed publish, although five writers settle its status from a
\* publishedUrl they read earlier.
PublishedWasCompleted ==
  site.status = "PUBLISHED" \/ site.url => \E j \in Jobs : row[j].completedAt > 0

(* Liveness.                                                               *)

\* No job blocks its site for ever: whatever dies, every active job leaves
\* the active statuses (so the index lets the next publish in).
ActiveJobEnds == \A j \in Jobs : IsActive(j) ~> ~IsActive(j)

\* The pipeline implements the slot.
Holder == IF \E j \in Jobs : IsActive(j) THEN CHOOSE j \in Jobs : IsActive(j) ELSE NoJob

Slot == INSTANCE PublishSlot WITH holder <- Holder

ImplementsSlot == Slot!Spec

(* What the repository says of the pipeline and the code does not do: each  *)
(* is the property of a run that ends in a counterexample.                 *)

\* "a crash between the two would otherwise leave the site stuck in
\* PUBLISHING with no active job" (worker route): a site does not stay so.
PublishingEnds == site.status = "PUBLISHING" ~> site.status # "PUBLISHING"

\* "the most-recent (the live version) is always retained" (completePublish):
\* the newest completed job still has its payload.
NewestIsRetained ==
  \A j \in Jobs : row[j].status = "COMPLETED" /\ row[j].completedAt = clock => row[j].payload

\* "Only touch the site if this dead job left it stuck in PUBLISHING" (cron):
\* the sweep leaves alone a site that another job is publishing.
SweepSparesOthers ==
  [][sweep # NoSweep /\ sweep' = NoSweep /\ site' # site
       => \A j \in Jobs : IsActive(j) /\ start[j].pc \in {"dispatch", "returned"}
                          => j = sweep.job]_vars
=============================================================================
