-------------------------- MODULE WorkspaceDeletion --------------------------
(***************************************************************************)
(* The end of a workspace and of its sites: what is taken off the web, and *)
(* out of Stripe, before the rows that know of it are deleted.             *)
(*                                                                         *)
(* A workspace is deleted 30 days after its owner asked, by a daily run    *)
(* (processDueWorkspaceDeletions): cancel billing, take every published    *)
(* site down, delete the row, which cascades.  The owner may change their  *)
(* mind at any moment.  A site is soft-deleted by its owner, who takes it  *)
(* down at best effort, and purged by another cron; an account's deletion  *)
(* deletes the workspace of an owner who has no heir.  Publishing, which   *)
(* puts deployments on Vercel, goes on beside all of it (PublishPipeline   *)
(* has its detail).                                                        *)
(*                                                                         *)
(* One action is one statement on the database or one call of Vercel or    *)
(* Stripe; consecutive reads are one action.                               *)
(***************************************************************************)
EXTENDS Naturals, Sequences, FiniteSets

CONSTANTS
  Sites,        \* the sites of the workspace
  Deployments,  \* the deployments Vercel may come to have of them
  Subs,         \* the subscriptions that may be paid for: one per checkout session
  None,         \* no deployment, no site, no subscription
  MaxFaults     \* bound: calls that fail, disconnections, workers and runs that are killed

ASSUME NoneAssumption == None \notin Sites \union Deployments \union Subs
ASSUME FaultsAssumption == MaxFaults \in Nat

VARIABLES
  ws,         \* the Workspace row: live, gone by the run, dropped with the owner's account
  schedule,   \* deletionScheduledAt, against the clock of the run
  billing,    \* each subscription: told once the webhook has written it to the row
  row,        \* the subscription that the Subscription row names
  connected,  \* an active Vercel connection
  site,       \* each Site row
  url,        \* hasLiveDeployment: PUBLISHED, or a publishedUrl
  job,        \* the site's publish in flight
  completed,  \* the deployments of its COMPLETED jobs, oldest first
  serving,    \* the deployments Vercel serves
  request,    \* the owner's unpublish or delete of a site, one at a time
  downgrade,  \* the sites a downgrade to FREE is about to unpublish
  run,        \* the deletion run
  faults,     \* faults so far
  unrecorded, \* history: the deployments no COMPLETED job was written for
  lost,       \* history: those that served when a purge took the record of them
  missed,     \* history: those a take-down failed on, spared, or could not see
  downgraded, \* history: those that served when a downgrade unpublished their site
  late,       \* history: what was paid, or told of, after the run had read the row
  replaced    \* history: what was still paid when another took its place in the row

siteVars == <<site, url, job, completed, request, downgrade>>
stripe == <<billing, row, late, replaced>>
history == <<faults, unrecorded, lost, missed, downgraded>>
vars == <<ws, schedule, stripe, connected, siteVars, serving, run, history>>

-----------------------------------------------------------------------------
Job == [pc : {"none", "building", "deployed"}, dep : Deployments \union {None}]
NoJob == [pc |-> "none", dep |-> None]
Request == [pc : {"idle", "delete", "write", "remove"}, site : Sites \union {None},
            dep : Deployments \union {None}, removes : BOOLEAN]
NoRequest == [pc |-> "idle", site |-> None, dep |-> None, removes |-> FALSE]
Run == [pc : {"idle", "check", "subscription", "cancel", "list", "sites", "down"},
        sub : Subs \union {None}, todo : SUBSET Sites, site : Sites \union {None}, deps : SUBSET Deployments,
        failed : BOOLEAN, siteFailed : BOOLEAN]
NoRun == [pc |-> "idle", sub |-> None, todo |-> {}, site |-> None, deps |-> {},
          failed |-> FALSE, siteFailed |-> FALSE]

Completed(s) == {completed[s][i] : i \in 1..Len(completed[s])}
Latest(s) == IF completed[s] = <<>> THEN None ELSE completed[s][Len(completed[s])]
\* The deployments something still names or serves: another one is a new one.
Known == serving \union UNION {Completed(s) \union {job[s].dep} : s \in Sites}
           \union {request.dep} \union run.deps
Misses(deps) == missed' = missed \union (deps \intersect serving)
Fault == faults < MaxFaults /\ faults' = faults + 1

Init ==
  /\ ws = "live"
  /\ schedule = "none"
  /\ billing = [c \in Subs |-> "none"]
  /\ row = None
  /\ connected = TRUE
  /\ site = [s \in Sites |-> "live"]
  /\ url = [s \in Sites |-> FALSE]
  /\ job = [s \in Sites |-> NoJob]
  /\ completed = [s \in Sites |-> <<>>]
  /\ serving = {}
  /\ request = NoRequest
  /\ downgrade = {}
  /\ run = NoRun
  /\ faults = 0
  /\ unrecorded = {}
  /\ lost = {}
  /\ missed = {}
  /\ downgraded = {}
  /\ late = {}
  /\ replaced = {}

-----------------------------------------------------------------------------
(* Publishing.                                                             *)

\* startPublish refuses a deleted site and a workspace scheduled for deletion.
StartPublish(s) ==
  /\ ws = "live" /\ schedule = "none" /\ site[s] = "live" /\ job[s].pc = "none"
  /\ job' = [job EXCEPT ![s].pc = "building"]
  /\ UNCHANGED <<ws, schedule, stripe, connected, site, url, completed, request, downgrade,
                 serving, run, history>>

Deploy(s, d) ==
  /\ job[s].pc = "building" /\ connected /\ d \notin Known
  /\ job' = [job EXCEPT ![s] = [pc |-> "deployed", dep |-> d]]
  /\ serving' = serving \union {d}
  /\ UNCHANGED <<ws, schedule, stripe, connected, site, url, completed, request, downgrade,
                 run, history>>

\* Not connected, or Vercel refuses: the job is FAILED and nothing was deployed.
PublishFails(s) ==
  /\ job[s].pc = "building"
  /\ job' = [job EXCEPT ![s] = NoJob]
  /\ UNCHANGED <<ws, schedule, stripe, connected, site, url, completed, request, downgrade,
                 serving, run, history>>

\* completePublish writes the job and the site in one transaction.  It asks
\* neither whether the site was deleted nor whether it is being taken down.
PublishLands(s) ==
  /\ job[s].pc = "deployed"
  /\ completed' = [completed EXCEPT ![s] = Append(@, job[s].dep)]
  /\ url' = [url EXCEPT ![s] = TRUE]
  /\ job' = [job EXCEPT ![s] = NoJob]
  /\ Misses(IF site[s] = "deleted" \/ s \in {request.site, run.site} THEN {job[s].dep} ELSE {})
  /\ UNCHANGED <<ws, schedule, stripe, connected, site, request, downgrade, serving, run,
                 faults, unrecorded, lost, downgraded>>

\* The worker is killed, or gives up waiting, with the deployment on the web.
PublishDies(s) ==
  /\ job[s].pc = "deployed" /\ Fault
  /\ job' = [job EXCEPT ![s] = NoJob]
  /\ unrecorded' = unrecorded \union {job[s].dep}
  /\ UNCHANGED <<ws, schedule, stripe, connected, site, url, completed, request, downgrade,
                 serving, run, lost, missed, downgraded>>

-----------------------------------------------------------------------------
(* unpublishSite, by itself and from deleteSite.                           *)

\* (mutant) A site that is deleted is not taken down first.
RequestRemovesAtOnce(s, removes) ==
  /\ ws = "live" /\ site[s] = "live" /\ request.pc = "idle"
  /\ request' = [site |-> s, removes |-> removes, dep |-> Latest(s),
                 pc |-> IF removes THEN "remove" ELSE IF Latest(s) # None /\ connected THEN "delete" ELSE "write"]
  /\ Misses(IF connected THEN Completed(s) \ {Latest(s)} ELSE Completed(s))
  /\ UNCHANGED <<ws, schedule, stripe, connected, site, url, job, completed, downgrade,
                 serving, run, faults, unrecorded, lost, downgraded>>

\* The last COMPLETED job and the connection are read: a site that is not
\* connected skips the call, and an older deployment is left where it is.  A site
\* that has no live deployment to go by (hasLiveDeployment) is deleted at once.
RequestReads(s, removes) ==
  /\ ws = "live" /\ site[s] = "live" /\ request.pc = "idle"
  /\ request' = [site |-> s, removes |-> removes, dep |-> Latest(s),
                 pc |-> CASE removes /\ ~url[s] -> "remove"
                          [] Latest(s) # None /\ connected -> "delete"
                          [] OTHER -> "write"]
  /\ Misses(CASE removes /\ ~url[s] -> {}
              [] connected -> Completed(s) \ {Latest(s)}
              [] OTHER -> Completed(s))
  /\ UNCHANGED <<ws, schedule, stripe, connected, site, url, job, completed, downgrade,
                 serving, run, faults, unrecorded, lost, downgraded>>

RequestTakesDown ==
  /\ request.pc = "delete"
  /\ serving' = serving \ {request.dep}
  /\ request' = [request EXCEPT !.pc = "write"]
  /\ UNCHANGED <<ws, schedule, stripe, connected, site, url, job, completed, downgrade,
                 run, history>>

\* Vercel fails: the error is logged and the site becomes a draft all the same.
RequestSwallows ==
  /\ request.pc = "delete" /\ Fault
  /\ request' = [request EXCEPT !.pc = "write"]
  /\ Misses({request.dep})
  /\ UNCHANGED <<ws, schedule, stripe, connected, site, url, job, completed, downgrade,
                 serving, run, unrecorded, lost, downgraded>>

RequestWrites ==
  /\ request.pc = "write"
  /\ url' = [url EXCEPT ![request.site] = FALSE]
  /\ request' = IF request.removes THEN [request EXCEPT !.pc = "remove"] ELSE NoRequest
  /\ UNCHANGED <<ws, schedule, stripe, connected, site, job, completed, downgrade, serving,
                 run, history>>

\* deletedAt is set, whatever became of the take-down.
RequestRemoves ==
  /\ request.pc = "remove"
  /\ site' = [site EXCEPT ![request.site] = "deleted"]
  /\ request' = NoRequest
  /\ UNCHANGED <<ws, schedule, stripe, connected, url, job, completed, downgrade, serving,
                 run, history>>

RestoreSite(s) ==
  /\ ws = "live" /\ site[s] = "deleted"
  /\ site' = [site EXCEPT ![s] = "live"]
  /\ UNCHANGED <<ws, schedule, stripe, connected, url, job, completed, request, downgrade,
                 serving, run, history>>

\* The purge cron, past the restore window: no publish of the site runs by then.
PurgeSite(s) ==
  /\ ws = "live" /\ site[s] = "deleted" /\ job[s].pc = "none" /\ request.site # s /\ s \notin downgrade
  /\ site' = [site EXCEPT ![s] = "purged"]
  /\ lost' = lost \union (Completed(s) \intersect serving)
  /\ completed' = [completed EXCEPT ![s] = <<>>]
  /\ url' = [url EXCEPT ![s] = FALSE]
  /\ UNCHANGED <<ws, schedule, stripe, connected, job, request, downgrade, serving, run,
                 faults, unrecorded, missed, downgraded>>

-----------------------------------------------------------------------------
(* reconcileWorkspaceToFreePlan, from the webhook that ends a subscription *)
(* and from the cron that ends one long unpaid.                            *)

\* The published sites beyond the cap, whichever they are: the cap is not modelled.
DowngradeReads ==
  /\ ws = "live" /\ row # None /\ downgrade = {}
  /\ \E excess \in SUBSET {s \in Sites : site[s] = "live" /\ url[s]} : downgrade' = excess
  /\ UNCHANGED <<ws, schedule, stripe, connected, site, url, job, completed, request, serving,
                 run, history>>

\* One updateMany by id: drafts without a URL, and nothing is taken down.
DowngradeWrites ==
  /\ downgrade # {}
  /\ url' = [s \in Sites |-> url[s] /\ s \notin downgrade]
  /\ downgraded' = downgraded \union (serving \intersect UNION {Completed(s) : s \in downgrade})
  /\ downgrade' = {}
  /\ UNCHANGED <<ws, schedule, stripe, connected, site, job, completed, request, serving, run,
                 faults, unrecorded, lost, missed>>

DowngradeDies ==
  /\ downgrade # {}
  /\ downgrade' = {}
  /\ UNCHANGED <<ws, schedule, stripe, connected, site, url, job, completed, request, serving,
                 run, history>>

-----------------------------------------------------------------------------
(* The owner, Stripe and the clock.                                        *)

\* deleteWorkspace: asked again, it starts the 30 days anew.
ScheduleDeletion ==
  /\ ws = "live"
  /\ schedule' = "future"
  /\ UNCHANGED <<ws, stripe, connected, siteVars, serving, run, history>>

CancelDeletion ==
  /\ ws = "live" /\ schedule # "none"
  /\ schedule' = "none"
  /\ UNCHANGED <<ws, stripe, connected, siteVars, serving, run, history>>

\* 30 days outlast any worker, any request and any run.
ComesDue ==
  /\ schedule = "future" /\ run = NoRun
  /\ request = NoRequest /\ \A s \in Sites : job[s] = NoJob
  /\ schedule' = "due"
  /\ UNCHANGED <<ws, stripe, connected, siteVars, serving, run, history>>

\* An admin removes the integration, or its token is found to be revoked.
Disconnect ==
  /\ ws = "live" /\ connected /\ Fault
  /\ connected' = FALSE
  /\ UNCHANGED <<ws, schedule, stripe, siteVars, serving, run, unrecorded, lost, missed,
                 downgraded>>

Connect ==
  /\ ws = "live" /\ ~connected
  /\ connected' = TRUE
  /\ UNCHANGED <<ws, schedule, stripe, siteVars, serving, run, history>>

\* A checkout session stays payable whatever became of the workspace, and beside
\* another one.
Pay(c) ==
  /\ billing[c] = "none"
  /\ billing' = [billing EXCEPT ![c] = "untold"]
  /\ late' = IF ws # "live" \/ run.pc \in {"cancel", "list", "sites", "down"}
             THEN late \union {c} ELSE late
  /\ UNCHANGED <<ws, schedule, row, connected, siteVars, serving, run, replaced, history>>

\* handleCheckoutCompleted: the row of a workspace that is still there; it has
\* one, and the last subscription told of takes it.
PaymentIsTold(c) ==
  /\ ws = "live" /\ billing[c] = "untold"
  /\ billing' = [billing EXCEPT ![c] = "told"]
  /\ row' = c
  /\ replaced' = replaced \union {b \in {row} \intersect Subs : billing[b] = "told"}
  /\ UNCHANGED <<ws, schedule, connected, siteVars, serving, run, late, history>>

-----------------------------------------------------------------------------
(* processDueWorkspaceDeletions.                                           *)

\* The row is deleted: sites, jobs and their deployment ids go with it.
Cascade(state) ==
  /\ ws' = state
  /\ site' = [s \in Sites |-> "purged"]
  /\ url' = [s \in Sites |-> FALSE]
  /\ job' = [s \in Sites |-> NoJob]
  /\ completed' = [s \in Sites |-> <<>>]
  /\ request' = NoRequest
  /\ downgrade' = {}
  /\ row' = None
  /\ schedule' = "none"
  /\ connected' = FALSE

RunStarts ==
  /\ ws = "live" /\ schedule = "due" /\ run.pc = "idle"
  /\ run' = [NoRun EXCEPT !.pc = "check"]
  /\ UNCHANGED <<ws, schedule, stripe, connected, siteVars, serving, history>>

\* hasPublishInFlight.
RunChecks ==
  /\ run.pc = "check"
  /\ run' = IF ws = "live" /\ \A s \in Sites : job[s].pc = "none"
            THEN [run EXCEPT !.pc = "subscription"] ELSE NoRun
  /\ UNCHANGED <<ws, schedule, stripe, connected, siteVars, serving, history>>

\* A subscription the webhook has not told of yet is not found, nor one that
\* another has replaced.
RunReadsSubscription ==
  /\ run.pc = "subscription"
  /\ run' = [run EXCEPT !.pc = IF row = None THEN "list" ELSE "cancel", !.sub = row]
  /\ late' = {c \in Subs : billing[c] = "untold"}
  /\ UNCHANGED <<ws, schedule, billing, row, connected, siteVars, serving, replaced, history>>

\* (mutant) A Stripe that fails is taken for one that cancelled.
RunHopesBillingEnds ==
  /\ run.pc = "cancel"
  /\ billing' \in {billing, [billing EXCEPT ![run.sub] = "canceled"]}
  /\ run' = [run EXCEPT !.pc = "list"]
  /\ UNCHANGED <<ws, schedule, row, connected, siteVars, serving, late, replaced, history>>

\* cancelStripeSubscription: already cancelled counts as done.
RunCancelsBilling ==
  /\ run.pc = "cancel"
  /\ billing' = [billing EXCEPT ![run.sub] = "canceled"]
  /\ run' = [run EXCEPT !.pc = "list"]
  /\ UNCHANGED <<ws, schedule, row, connected, siteVars, serving, late, replaced, history>>

\* Every site with a COMPLETED deployment, deleted sites included.
RunListsSites ==
  /\ run.pc = "list"
  /\ run' = [run EXCEPT !.pc = "sites", !.todo = {s \in Sites : completed[s] # <<>>}]
  /\ UNCHANGED <<ws, schedule, stripe, connected, siteVars, serving, history>>

\* takeDownSiteForDeletion reads its jobs and the connection.
RunReadsSite(s) ==
  /\ run.pc = "sites" /\ s \in run.todo
  /\ LET left == run.todo \ {s} IN
     run' = CASE completed[s] = <<>> -> [run EXCEPT !.todo = left]
              [] completed[s] # <<>> /\ ~connected -> [run EXCEPT !.todo = left, !.failed = TRUE]
              [] OTHER -> [run EXCEPT !.pc = "down", !.todo = left, !.site = s, !.deps = Completed(s),
                                      !.siteFailed = FALSE]
  /\ UNCHANGED <<ws, schedule, stripe, connected, siteVars, serving, history>>

\* (mutant) A deployment that is gone already (404) is a failure.
RunTakesDownOnce(d) ==
  /\ run.pc = "down" /\ d \in run.deps
  /\ serving' = serving \ {d}
  /\ run' = [run EXCEPT !.deps = @ \ {d}, !.siteFailed = @ \/ d \notin serving]
  /\ UNCHANGED <<ws, schedule, stripe, connected, siteVars, history>>

RunTakesDown(d) ==
  /\ run.pc = "down" /\ d \in run.deps
  /\ serving' = serving \ {d}
  /\ run' = [run EXCEPT !.deps = @ \ {d}]
  /\ UNCHANGED <<ws, schedule, stripe, connected, siteVars, history>>

\* One deployment fails: the others are still taken down.
RunFailsToTakeDown(d) ==
  /\ run.pc = "down" /\ d \in run.deps /\ Fault
  /\ run' = [run EXCEPT !.deps = @ \ {d}, !.siteFailed = TRUE]
  /\ UNCHANGED <<ws, schedule, stripe, connected, siteVars, serving, unrecorded, lost,
                 missed, downgraded>>

\* (mutant) The site becomes a draft although a take-down failed.
RunWritesAnyway ==
  /\ run.pc = "down" /\ run.deps = {}
  /\ url' = [url EXCEPT ![run.site] = FALSE]
  /\ run' = [run EXCEPT !.pc = "sites", !.site = None, !.failed = @ \/ run.siteFailed,
                        !.siteFailed = FALSE]
  /\ UNCHANGED <<ws, schedule, stripe, connected, site, job, completed, request, downgrade,
                 serving, history>>

\* The site becomes a draft when all its take-downs were well.
RunWritesSite ==
  /\ run.pc = "down" /\ run.deps = {}
  /\ url' = IF run.siteFailed THEN url ELSE [url EXCEPT ![run.site] = FALSE]
  /\ run' = [run EXCEPT !.pc = "sites", !.site = None, !.failed = @ \/ run.siteFailed,
                        !.siteFailed = FALSE]
  /\ UNCHANGED <<ws, schedule, stripe, connected, site, job, completed, request, downgrade,
                 serving, history>>

\* (mutant) The row is deleted by its id alone.
RunDeletesById ==
  /\ run.pc = "sites" /\ run.todo = {} /\ ~run.failed
  /\ ws = "live"
  /\ Cascade("gone")
  /\ run' = NoRun
  /\ UNCHANGED <<billing, late, replaced, serving, history>>

\* deleteMany asks for the date again.
RunDeletes ==
  /\ run.pc = "sites" /\ run.todo = {} /\ ~run.failed
  /\ ws = "live" /\ schedule = "due"
  /\ Cascade("gone")
  /\ run' = NoRun
  /\ UNCHANGED <<billing, late, replaced, serving, history>>

\* A take-down failed, or the owner cancelled meanwhile: the next run tries again.
RunKeeps ==
  /\ run.pc = "sites" /\ run.todo = {} /\ (run.failed \/ ws # "live" \/ schedule # "due")
  /\ run' = NoRun
  /\ UNCHANGED <<ws, schedule, stripe, connected, siteVars, serving, history>>

\* A statement or Stripe fails, or the run is killed.
RunStops ==
  /\ run.pc # "idle" /\ Fault
  /\ run' = NoRun
  /\ UNCHANGED <<ws, schedule, stripe, connected, siteVars, serving, unrecorded, lost,
                 missed, downgraded>>

\* account-deletion: the owner's account goes, and nobody else is a member.  30
\* days have passed since it was asked for, and nothing is taken down first.
AccountIsDeleted ==
  /\ ws = "live" /\ run.pc = "idle"
  /\ request = NoRequest /\ \A s \in Sites : job[s] = NoJob
  /\ Cascade("dropped")
  /\ UNCHANGED <<billing, late, replaced, serving, run, history>>

-----------------------------------------------------------------------------
RunGoes ==
  \/ RunStarts \/ RunChecks \/ RunReadsSubscription \/ RunCancelsBilling \/ RunListsSites
  \/ \E s \in Sites : RunReadsSite(s)
  \/ \E d \in Deployments : RunTakesDown(d)
  \/ RunWritesSite \/ RunDeletes \/ RunKeeps

WorkerGoes(s) == PublishFails(s) \/ PublishLands(s)
RequestGoes == RequestTakesDown \/ RequestWrites \/ RequestRemoves

Next ==
  \/ \E s \in Sites :
       \/ StartPublish(s) \/ WorkerGoes(s) \/ PublishDies(s)
       \/ \E d \in Deployments : Deploy(s, d)
       \/ \E removes \in BOOLEAN : RequestReads(s, removes)
       \/ RestoreSite(s) \/ PurgeSite(s)
  \/ RequestGoes \/ RequestSwallows
  \/ ScheduleDeletion \/ CancelDeletion \/ ComesDue \/ Disconnect \/ Connect
  \/ DowngradeReads \/ DowngradeWrites \/ DowngradeDies
  \/ \E c \in Subs : Pay(c) \/ PaymentIsTold(c)
  \/ RunGoes \/ RunStops \/ AccountIsDeleted
  \/ \E d \in Deployments : RunFailsToTakeDown(d)

Spec == Init /\ [][Next]_vars

(* The clock passes, the daily run comes and runs on, and so do a worker   *)
(* and a request that are not killed.                                      *)
Fairness ==
  /\ WF_vars(ComesDue)
  /\ WF_vars(RunGoes)
  /\ WF_vars(RequestGoes)
  /\ \A s \in Sites : WF_vars(WorkerGoes(s))

FairSpec == Spec /\ Fairness
=============================================================================
