# Buildrik: a verification project

TLA+ models of the parts of Buildrik where several processes write the same
rows, or where one long sequence of legal calls has to keep its promises; the
TLC runs that check them on small instances; and TLAPS proofs of what holds for
any number of jobs, requests, people, events and faults.

Buildrik is a website builder: a Next.js dashboard (`packages/dashboard`) with a
tRPC API over Postgres (Prisma), an editor (`packages/editor`) that saves to it,
HTTP worker routes that the API dispatches with `fetch`, Vercel crons and
Stripe's webhooks. There is no queue and no lock service. Every coordination is a
row and the statement that updates it, so what matters everywhere is what a
process read before its write, and what it does not check again.

## Inventory

| Component | State | Operations | What is hard | Module |
|---|---|---|---|---|
| Publish pipeline (`server/services/publish.service.ts`, `api/workers/publish`, `api/cron/publish-job-cleanup`) | rows of `publish_build_jobs`; the site's `status`, `publishedUrl` | start, rollback, dispatch with retries, claim, deploy, complete, prune, fail, cancel, sweep, unpublish, archive | five writers of one row with reads before writes; repeated requests; workers killed at `maxDuration`; cutoffs instead of locks; a unique index as the only mutual exclusion | `PublishPipeline`, `PublishSlot` |
| Site save (`sites.service.ts` `saveProjectData`; in the editor `BuildrikSyncProvider.ts`, `useComposerInit.ts`, `useSaveCallback.ts`, `unsavedRecovery.ts`) | `Site.lastEditedAt` as version token, pages; per tab a baseline token, a chain of saves, a held conflict, dirty flag, status, two timers; per browser one kept copy | load, edit, autosave, retry, manual save, overwrite, reload, restore, publish | optimistic concurrency between tabs; a transaction that times out after its commit; requests that land after their tab gave up; a copy kept for later | `SiteSave` |
| Stripe billing (`stripe-webhook.service.ts`, `billing.service.ts`, `api/webhooks/stripe`, `api/cron/billing-downgrade`) | `Subscription`, `Workspace.plan`, claimed event ids, published sites against the plan's cap | five webhook handlers, checkout, cancel, reactivate, downgrade | unordered and repeated events; a claim released when a handler throws; a cron and a request that write what a webhook writes | `StripeBilling` |
| Workspace deletion (`workspace-settings.service.ts`, take-downs in `publish.service.ts`, `sites.service.ts`) | `deletionScheduledAt`, sites, recorded deployments, what Vercel serves, the subscription | schedule, cancel, process; unpublish, delete, restore, purge | external calls, each of which may fail, against a publish in flight | `WorkspaceDeletion` |
| Team and ownership (`team.service.ts`, `workspace-transfer.service.ts`, `api/cron/account-deletion`, `api/cron/workspace-transfer-expiry`) | `Workspace.ownerId`, member rows, transfers, deletion requests | change role, suspend, reactivate, remove, join, transfer, delete an account | checks and writes apart; two records of who the owner is | `WorkspaceTeam` |
| Review and approval (`review.service.ts`, `client-review.service.ts`, `publish-approval.ts`) | review rounds, one link each, kept pages | submit, re-send, supersede, prune, resolve, sign, answer, revoke, publish gate | writes by id over a row that moved on; an approval that goes stale | `ReviewRound` |
| AI generation (`ai-generation.service.ts`, `api/workers/ai-generate`, `api/cron/ai-job-cleanup`) | `ai_generation_jobs`, the draft site | create, dispatch, claim, set phase, persist, cancel, sweep | count-then-create limits; cancel against completion; lost dispatches | `SiteGeneration` |
| Editor history (`packages/editor/src/engine/HistoryManager.ts`) | undo and redo stacks of checkpoints and patches, a cached state, two timers | record, undo, redo, toast, restore an entry, trim, load, clear | edits that wait in a timer; patches whose base must survive | `EditorHistory` |
| Daily quota (`quota.service.ts`) | one counter per workspace and UTC day | reserve, release | release after the day has changed | |
| Scheduled publish (`scheduled-publish.service.ts`) | `scheduled_publishes` | sweep | the start and its mark are two statements | |
| Collaboration (`engine/collaboration`, `collab.service.ts`) | presence, page claims | join, leave, claim, broadcast | lost and reordered messages | |
| Authentication and tokens | sessions, one-use tokens | issue, consume, expire | a token used twice | |
| Content, media, domains, analytics, marketplace, user interface | rows | reads and single-statement edits | little: a role check and one statement | |

How they interact: the editor calls the save and the publish of the API; the
publish creates a job row and POSTs its id to the worker route, which writes job
and site; crons write both as well. The publish reads the approval gate and the
workspace's deletion mark, the deletion run takes down what publishes recorded
and cancels the subscription, Stripe's webhooks set the plan that the limits read,
and a transfer or a deleted account moves the ownership that every role check
reads. All of them meet in the database, one statement (or one `$transaction`)
at a time.

What makes each component right:

- publish: one active job per site, one invocation per job, no blocked slot, no
  HTML kept by a failed job, every completed deployment on record, the site's
  status true to what was published;
- save: no stored edit is undone except by a user's choice, a page's own saves
  never refuse each other, every edit is saved or the user is told, and unsaved
  work that was kept stays kept until the server has it;
- billing: no paid plan without a subscription behind it, every event handled
  once, and once Stripe is quiet the row says what Stripe says;
- deletion: nothing serves, and nobody pays, after the workspace that names it
  is gone, and what is due is deleted;
- team: one owner, whose account exists and who is in charge, but for the overlaps
  named; a settled transfer stays settled;
- review: an answer is about the pages that were answered, a withdrawal is about
  the link that was shown, and a publish that passed the gate keeps the approval it
  passed on, or one of few requests took it;
- AI generation: no site without a job that counts, an ended job stays ended,
  none is stuck, and the limits hold;
- history: what undo restores is what the user saw, and redo gives it back.

## The project

| Run | Module, configuration | Distinct states | Asks |
|---|---|---|---|
| `publish_safety` | `MCPublishPipeline`, `PublishSafety.cfg` | 1.5 million | the slot, the claim, the cutoffs, the site's row |
| `publish_liveness` | `MCPublishPipeline`, `PublishLiveness.cfg` | 195 thousand, fair | every job ends; the pipeline implements the slot |
| `save_race` | `MCSiteSave`, `SaveRace.cfg` | 1.3 million | nothing is lost, and saves do not race |
| `save_recovery` | `MCSiteSave`, `SaveRecovery.cfg` | 350 thousand, fair | every edit is saved or the user is told |
| `billing` | `MCBilling`, `Billing.cfg` | 1.1 million | plan, row and Stripe agree |
| `deletion` | `MCDeletion`, `Deletion.cfg` | 420 thousand, fair | what still serves, who still pays; what is due is deleted |
| `team` | `MCTeam`, `Team.cfg` | 970 thousand | the owner |
| `review` | `MCReview`, `Review.cfg` | 930 thousand | answers, withdrawals, the gate |
| `history` | `MCHistory`, `History.cfg` | 120 thousand | undo and redo, the toast, a stack that outgrows its size |
| `generation` | `MCGeneration`, `Generation.cfg` | 1.1 million | jobs, sites and limits |
| `generation_sites` | `MCGeneration`, `GenerationSites.cfg` | 9 thousand, fair | what a job hands over; every job ends |

One run ends in a counterexample to a sentence of the repository that the code
does not keep: `history_wipes` (`MCHistory`, `HistoryWipes.cfg`).

Some configurations are kept to be run by hand. `DeletionPair.cfg` and
`HistoryLong.cfg` are other bounds of the runs `deletion` and `history`, and pass;
`BillingSettles.cfg` is the liveness of billing. The others end in counterexamples to
sentences of the repository: `StuckPublishing.cfg`, `SweepDemotes.cfg` with
`MCPublishPipeline`; `TornLoad.cfg`, `MarkedClean.cfg`, `SharedRecord.cfg` with
`MCSiteSave`; `DowngradeServes.cfg` with `MCDeletion`, `SoloDeleted.cfg` with `MCTeam`
and `ReviewShown.cfg` with `MCReview`. Each section says what they show.

Conventions. One database statement, or one `$transaction`, is one action; what a
process read and will still use is in its record, next to its program counter.
Consecutive reads are one action where nothing is done between them. A variable
that only remembers (`forsaken`, `cause`, `missed`, `raced`, `shown`, `seen`, ...)
is called history where it is declared, and no guard of the code's actions reads
it. A definition whose comment begins with "(mutant)" is the plausible bug that shows
that a property can fail; `Next` does not use it. Constants have named assumptions
in the module that declares them. Runs say `CHECK_DEADLOCK FALSE` because users may
stop, and because the bounds end a behaviour.

Every safety property of a passing run is a theorem, for all values of the
constants. The proofs assume nothing but the named assumptions, except that two
theorems have a hypothesis: `KeptWorkStays` that no two tabs share a browser
(`OneTabEach`), `UndoStaysReversible` that `CheckpointInterval <= MaxHistory`.
TLC violates either property where its hypothesis does not hold, and
the sections say why the code meets it or does not. Liveness under fairness and
ENABLED are out of the prover's reach and are model-checked only.

All proofs go the same way: an inductive invariant, one lemma per part of it, and
one step per action. The invariants are conjunctions of named parts: what each
record still stands for (`Fits`, `RequestsFit`, `HooksFit`, ...), and what the
property needs beyond itself. Where the argument is an induction over data (the
entries of a stack, the events of a subscription), the proof takes the least
element of the set of naturals at which it would fail: the induction theorems
themselves take an operator as a parameter, which the installed provers cannot
instantiate.

## Plan

1. `PublishPipeline`, with `PublishSlot`, `PublishInvariants` and
   `PublishSafetyProofs`: done.
2. `SiteSave`, with `SiteSaveProperties` and `SiteSaveProofs`: done.
3. `StripeBilling`, `BillingProperties`, `BillingProofs`: done.
4. `WorkspaceDeletion`, `DeletionProperties`, `DeletionProofs`: done.
5. `WorkspaceTeam`, `TeamProperties`, `TeamProofs`: done.
6. `ReviewRound`, `ReviewProperties`, `ReviewProofs`: done.
7. `SiteGeneration`, `GenerationProperties`, `GenerationProofs`: done.
8. `EditorHistory`, `HistoryProperties`, `HistoryProofs`: done.
9. What is left: a versioned register as the abstract specification of saving;
   the publish pipeline composed with the deletion run in full (today the run
   meets a publish as a job with a start, a deploy and an end); invites with the
   seat limit; collaboration; tokens.

## The publish pipeline

### What is modelled

`PublishPipeline.tla` is one site. `row[j]` is the row of job `j` (NONE before
its insert), `site` the two columns that the pipeline writes. `start[j]`,
`worker[w]`, `cancel[j]`, `sweep` and `unpublish` are the program counters of the
processes, each with the values it read and will still use (the `publishedUrl`
of `startPublish`, of the worker's catch, of `cancelPublish` and of the cron).
`deployed` is what Vercel serves, `clock` orders the completions.

One database statement, or one `$transaction` of statements, is one action;
between two of them everybody else may act and the process may die.

| Action | Code |
|---|---|
| `StartPublish`, `StrandStale`, `GateRefuses`, `GatePasses`, `CreateJob`, `MarkPublishing` | `startPublish` up to its dispatch: precheck, stranded rows, the gates (all end in a throw that leaves no trace), the insert against the unique index, the site |
| `DispatchTaken`, `DispatchError`, `DispatchDenied`, `Reclaim` | `dispatchWorker` and what `startPublish` does with its answer |
| `WorkerRead` ... `Prune`, `WorkerThrows`, `CatchRead`, `CatchFail` | the worker route, `runVercelDeployJob` and `completePublish` |
| `CancelRead`, `CancelWrite` | `cancelPublish` |
| `SweepRead`, `SweepWrite` | the cleanup cron |
| `UnpublishTakeDown`, `UnpublishWrite`, `ArchiveSite`, `UnarchiveSite` | the site's other writers |
| `RollbackPublish` | `rollbackPublish`, which starts a publish of a kept payload |
| `StartCrash`, `WorkerCrash`, `CancelCrash`, `SweepCrash`, `UnpublishCrash` | the process ends between two statements |
| `Age` | time passes a cutoff |

Time is the cutoffs that the code compares with: a row is fresh, stale (past
`startPublish`'s 5 or 15 minutes) or expired (past the cron's hour). `Age` says
what the platform's limits say: a `startPublish` call and a worker (5 minutes)
are over before the row that they work on passes a cutoff counted from
`startedAt`, and before a queued row passes the hour. A queued row may become
stale while a late invocation is about to claim it.

`PublishSlot.tla` is what the unique index and the sweeps promise together: a
slot that is taken only when free, never taken over, and always given back. The
mapping sends the pipeline's state to its active job.

### What the runs check

| Run | Instance | Shows |
|---|---|---|
| `publish_safety` | 2 jobs, 2 workers, 2 dispatch attempts, unpublish and archive on | `OneActiveJob`, `ExclusiveClaim`, `SweptStaysDead`, `PublishedWasCompleted` |
| `publish_liveness` | 2 jobs, 1 worker, fairness | `ActiveJobEnds`; the pipeline implements `PublishSlot` with its liveness |

The properties:

- `OneActiveJob`: at most one active job, although `startPublish`'s precheck is
  not atomic and a late DEPLOYING write can revive an ended job: the index
  refuses both.
- `ExclusiveClaim`: one invocation per job, however often it is dispatched.
- `SweptStaysDead`: the cutoffs are sound; a row failed for its age has no worker
  and never comes back.
- `PublishedWasCompleted`: as in the inventory.
- `ActiveJobEnds`: no job holds the slot for ever.

Three more are proved and not run: `EndedUnclaimedStaysUnclaimed` (a cancel or
failure before the claim wins), `NoHtmlAtRest` and `CompletedIsRecorded`.

Two jobs are enough for the races: every property is about one job, or about one
job and the one that replaces it, and a job's call, its two deliveries, its
cancel and the cron all run at once. Two workers are needed for a job that is
delivered twice. The liveness run has one worker and one attempt (which worker
runs does not change whether the row is swept), and with `SiteOps = {}` it leaves
out unpublish and archive, which write only the site. The safety run has all of it,
within `FewAtOnce`: one job's request may be repeated, not both jobs'; and while the
site is archived or an unpublish is half way, no request was repeated and at most one
worker is busy. What unpublish and archive can disturb is the site's row, and who
writes it meanwhile is one worker, the calls, the cancels and the sweep.
`CHECK_DEADLOCK FALSE` because users may stop publishing.

### Fairness

Nothing is owed by users: starting, cancelling, unpublishing are never fair. A
call of `startPublish` and a worker invocation each go on or die (weak fairness of
`StartStep` and `WorkerStep`, each of which includes the crash), time passes (weak
fairness of `Age`), and the cron, which Vercel runs on a schedule, keeps starting
(weak fairness of `SweepRead`). A sweep may die between its read and its write,
and does not do so every time: strong fairness of `SweepWrite`.

### What is proved

`PublishSafetyProofs` proves, for any sets of jobs and workers, any number of attempts
and any `SiteOps`: the type invariant, `OneActiveJob`, `ExclusiveClaim`,
`SweptStaysDead`, `NoHtmlAtRest`, `CompletedIsRecorded`, `PublishedWasCompleted`,
`EndedUnclaimedStaysUnclaimed`, and that the pipeline implements the safety part of
`PublishSlot`. The assumptions are those of `PublishPipeline` on its constants.

The properties are not inductive as they stand. `ExclusiveClaim` is lost if an
invocation is past the claim of a row that is still claimable; `SweptStaysDead` if
a worker still builds an old row; `PublishedWasCompleted` if a cancel holds a
`publishedUrl` that nobody published. `PublishInvariants!References` says who may
still hold which reference: a job without a row is known to its own call only
(`NoRowNoReference`), whoever builds a job has claimed it (`HoldersClaimed`), old
rows are abandoned (`OldRowsAbandoned`, `SweepStillRight`, `SweptRowsOld`), who
goes on after the deploy recorded it (`VerifiedIsRecorded`), and every
`publishedUrl` that anybody read was true (`BeliefIsTrue`). `IInv` is the
conjunction of these, the types and the properties.

The proof classifies steps first. Each row moves in one of ten ways, each
invocation, call, cancel and the sweep in one of a few (`RowMove`, `WorkerMove`,
`StartMove`, `CancelMove`, `SweepMove`), and every step of `Next` is such a move
(`RowMoves`, `InvocationMoves`, `CallMoves`, `CancelMoves`, `SweepMoves`). The
step lemma of each conjunct then looks only at the moves that can disturb it.

Only model-checked: the liveness properties and the liveness of the slot.

### What the code does not keep

Three properties, checked by hand, end in a counterexample, each to a sentence of
the repository:

- `PublishingEnds` (`StuckPublishing.cfg`, `publish.service.ts:357`): a stranded
  row is failed, its site is not settled, and the call that failed it is then
  refused.
- `NewestIsRetained` (as an invariant in `PublishSafety.cfg`; worker route, line 135):
  the DEPLOYING write names the row by id only. A job cancelled after its claim goes
  on, and is completed without the payload that the cancel dropped.
- `SweepSparesOthers` (`SweepDemotes.cfg`, cron, line 50): the site is settled on
  a status read before, while another job is publishing it.

The same behaviours revive a cancelled job and reclaim one that a worker already
builds (a network error does not mean that nobody took it).

### Left out

The simulation path (`PUBLISH_ALLOW_SIMULATION`, a development flag), progress and
step texts, notifications, webhooks and activity (best-effort, written by nobody
else), the readers (status, history, readiness). A second concurrent cancel of
the same job writes what the first writes and is not modelled. A downgrade to FREE
also writes the site's status and URL: it is in `WorkspaceDeletion`.
`takeDownSiteForDeletion` and `hasPublishInFlight` are in `WorkspaceDeletion`, the
approval gate in `ReviewRound`.

## Saving a site

### What is modelled

`SiteSave.tla` is one site, the editor tabs that have it open and the browsers
they run in. A page tree is the set of edits it contains: a save that lacks a
stored edit undoes it. `site` is the sequence of versions; the row holds the last
one, and a token (`lastEditedAt`) is the place of its version. Two writes never
stamp the same token (the code's stamp is a millisecond).

A tab has its copy (`doc`), its `_baselineLastEditedAt` (`base`), its
`_saveChain` (`chain`, with the request of the first save in `flight`), its
`_conflictToken` and the shell's dialog, `isDirty`, `saveState.status`, and the two
timers of autosave. `kept[b]` is the one localStorage record of a browser,
`offScreen` its protection after a load. `orphans` are requests that nobody waits
for and that may still land.

| Action | Code |
|---|---|
| `ReadRow`, `ReadPages`, `Loaded`, `LoadFails` | `loadProject`'s two queries and what the load does with them |
| `Edit`, `AutosaveHeld`, `AutosaveNotLoaded`, `Autosave`, `RetryFires` | the autosave effect: its handler, the debounce, the backoff |
| `ManualSave`, `ManualSaveHeld`, `ManualSaveNotLoaded` | Save and Cmd+S, refused by a held conflict or because the site never loaded |
| `SaveLands`, `SaveConflicts`, `SaveRefused`, `SaveOutran`, `SaveRechecked` | `saveProjectData`: the transaction with its compare-and-swap, the refusals, P2028 and the look at its own stamp |
| `OrphanLands`, `OrphanFails`, `OutsideWrite` | a late request; a rename or a theme push |
| `OnSaved`, `OnConflict`, `OnFailure`, `OnUnauthorized`, `OnNetworkError` | the `then` and `catch` of both save paths, and the next save of the chain |
| `Dismiss`, `Reopen`, `Overwrite`, `ReloadLatest` | the conflict dialog and its way back |
| `Restore`, `Reload` | the kept copy, and a page that goes away |
| `PublishSends`, `PublishRefused`, `PublishAccepted` | the freshness check that publish shares with saving |

The server's transaction is one step: the first statement is the compare-and-swap,
which locks the row, and a loser rolls back. Everything between a request and its
answer, and between an answer and what the tab does, is a step of its own.

`forsaken` is history: what was left out by an Overwrite (the version adopted,
against the copy sent and the saves queued before it), by a torn load (the row's
version against the pages read), by restoring a kept copy.

### What the runs check

| Run | Instance | Shows |
|---|---|---|
| `save_race` | 2 tabs, 1 browser, a reload, a fault | `SavesCover`, `SavesDoNotRace`, `NoUnaccountedLoss` |
| `save_recovery` | 1 tab, fairness; a manual save, a publish, a dashboard write, a reload, a fault and a refusal, up to three kinds in one history | `NothingForgotten`, `KeptUntilSaved`, `SavedOrTold` |

- `NoUnaccountedLoss`: whatever lands, what it takes off the site was left out by
  one of the three ways above.
- `SavesDoNotRace`: while no fault has lost an answer, the version that refuses a
  save was not written by the same page.
- `NothingForgotten`: a tab that shows no trouble has no unsaved work, or its save
  is scheduled or on its way.
- `KeptUntilSaved`: an autosave's success drops the kept copy only when its edits
  are on the server or in a queued save.
- `SavedOrTold`: every edit reaches the server, or the tab says that it did not.

All runs have two edits, which is what it takes to tell an older copy from a newer
one, or one tab's work from the other's. Two tabs are the two sides of a
compare-and-swap; a third would be one more winner. What one tab does alone
(recovery, liveness) is checked with one tab and more faults. `Limit` bounds the
rare events (manual saves, publishes, dashboard writes, reloads, faults, refusals)
per run as `MCSiteSave` lists, and `MaxKinds` how many different kinds one history
has; edits are bounded by `Edits`, autosaves by the changes and retries before
them. `SavesDoNotRace` is about the states before a fault and before a publish: a
connection that dies after its request landed does make a page refuse itself, and
so does a publish whose token an autosave overtook. The edits are
symmetric in `save_race`. `CHECK_DEADLOCK FALSE` because users may stop.

### Fairness

Timers fire (`Fires`, `RetryFires`), a request that was sent is run and answered,
and the answer is handled (`Answered`). Nothing is assumed of users, of faults or
of refusals. Weak fairness is enough: each of these stays enabled until it happens
or the page goes away.

### What is proved

`SiteSaveProofs` proves, for any sets of tabs, browsers and edits and any `Limit`:
the types (`SiteSaveTyped`), `SavesCover` (`SavesAlwaysCover`),
`NoUnaccountedLoss` (`NothingElseIsLost`), `NothingForgotten`
(`NothingIsForgotten`), `SavesDoNotRace` (`OwnSavesDoNotRace`) and, with a
hypothesis, `KeptUntilSaved` (`KeptWorkStays`), from `BrowserAssumption`,
`LimitAssumption` and `TabsAssumption` (a tab is none of the other names for who
wrote a version).

`NoUnaccountedLoss` speaks of a step and needs to know what may be written. A
write is accepted because its token names the newest version, so it is enough that
every copy that could be written has all that the version named by its token had,
but for `Forsaken`. That has to hold of the request in flight, of the requests that
nobody waits for, of each save in the chain against the baseline it will leave
with, of each later save against each earlier one (because the baseline advances
to the version that the earlier one wrote), and of the screen, which the next
autosave will send. `SavesCover` is that, with what tokens name (`TokensName`) and
which pages may have saves, conflicts and publishes at all (`OnlyWhenOpen`), and it
is inductive. The proof has a lemma for each way a step moves the chain
(`EnqueueCovers`, `SettleCovers`, `ChangedCovers`), one for tabs and requests that a
step does not touch (`UntouchedTab`), and one case per action in `CoverStep`.

`NothingForgotten` rests on `WorkScheduled`: the save at the end of a chain
carries what is on screen, or the debounce is running; with no chain, work that is
not saved has a timer or a status that says so. A save marked as the newest is
that only as long as nothing is edited, which is what `Outdated` undoes.

`SavesDoNotRace` rests on `OwnWrites`: as long as nothing faulted and nothing was
published, no version that a page wrote is newer than the token the page will send
next, in each place where that token may be at the time: the load's read, the
baseline, the request, the answer, the conflict held (`Knows`). No request of its
own is left behind, so that nothing it wrote can surprise it.

`KeptWorkStays` assumes `OneTabEach`: the record is one per browser and site, and
a second tab of the browser drops it (`KeptCopyIsWork` below). Then the copy kept
is on screen unless it waits to be restored, and the save that is still the
newest carries it (`KeptShown`).

Only model-checked: the liveness, `SavedOrTold`.

### What the code does not keep

- `BehindCopyIsDetected` (`TornLoad.cfg`, `BuildrikSyncProvider.ts:740`): the load
  reads the token and the pages in two queries; a save between them goes
  unnoticed.
- `CleanMeansSaved` (`MarkedClean.cfg`, `useSaveCallback.ts:219`): the manual path
  calls an edit saved that was made while it travelled.
- `KeptCopyIsWork` (`SharedRecord.cfg`, `unsavedRecovery.ts:119`): tabs of one
  browser drop each other's kept work.

The model reaches, without a configuration of their own: a restored copy saved under the
token of the copy it replaced on screen (this is `forsaken["restored"]`); a publish
refused over the tab's own autosave; a landed save answered as a timeout because
another write stamped the row before the recheck (`sites.service.ts:1237`); a 401
that autosave meets without keeping a copy (`useComposerInit.ts:820`); a manual save
that a held conflict refuses after it ended the kept copy's protection, which is why
`KeptUntilSaved` excludes a held conflict.

### Left out

The FORBIDDEN redirect to view mode and view mode itself; TOKENS_INVALID and the
tokens held after it; brand-format conflicts; the mirror of Site columns; saves
without a token and partial snapshots (the editor sends neither); deleted sites;
applying a template, which replaces the pages. "Retry now" and the `online` event
run the handler that the backoff runs. The `discarded` latch matters only when the
reload of "Reload latest" is cancelled: here it is one step. A save that joins the
chain while a publish waits for it is left out: the publish waits for an empty
chain.

## The plan of a workspace (Stripe billing)

### What is modelled

`StripeBilling.tla` is one workspace. `stripe` is Stripe's own record of its
subscriptions, `events` what Stripe emitted, each with the subscription as it was
then, `settled` the events answered 2xx. `row` is the `Subscription` row, `plan` is
`Workspace.plan`, `over` says that more sites are published than FREE allows. Each
`hook[h]` is an instance of the webhook route with its event and the plan that it
retrieved from Stripe; `mirror` is a cancel or reactivate request, `cron` the
downgrade run.

| Action | Code |
|---|---|
| `OpenSession`, `PaySession`, `PortalPlan`, `PortalCancel`, `PaymentFails`, `PaymentSucceeds`, `SubscriptionEnds` | `createCheckoutSession`; Stripe and its customer (external): each changes the record and emits events |
| `Deliver` | the route's insert of the event's id: the claim, or the answer to a duplicate |
| `Retrieve`, `WriteCheckout` | `handleCheckoutCompleted`: the call of Stripe, then the upsert with the plan |
| `FindRow`, `RowMissing`, `Ignore`, `WriteUpdated`, `WritePaymentFailed`, `NotifyOwner`, `WriteDeleted`, `RowTaken`, `WriteInvoice` | the other four handlers, statement by statement |
| `FindExcess`, `NoExcess`, `Unpublish`; `CronFindExcess`, `CronUnpublish` | `reconcileWorkspaceToFreePlan`, in a webhook and in the cron |
| `Release`, `HandlerFails`, `ClaimStrands` | the route's catch; a throw; an instance killed, or a claim that cannot be deleted |
| `MirrorRead`, `MirrorCall`, `MirrorReplayed`, `MirrorRefused`, `MirrorWrite`, `MirrorWriteFails` | `cancelSubscription` and `reactivateSubscription` with their idempotency key |
| `CronRead`, `CronWrite`, `CronDies` | the downgrade cron, which writes only rows it read as ended |
| `PublishMore` | a member publishes another site: `startPublish` looks at no cap |

`cause` is history: each way in which the code lets the row differ from Stripe's
record is noted when it happens. An event's write is *overtaken* when a newer event
of the same subscription was written before it; an event is *stranded* when its claim
stays although its handler threw or died; a cancel request is *replayed* when Stripe
answers it from its idempotency key, and *late* when it writes after the row
moved; the cron *downgraded* a row that Stripe has not ended; a reconciliation died
(*unreconciled*); a member published again (*republished*).

### What the run checks

`billing`: two subscriptions (a replacement after an end), two instances (a
redelivery beside the first delivery), two plans, three events, a fault.

- `EntitlementIsBacked`: a paid plan has a row on that plan that is not cancelled.
- `HandledOnce`: no event is handled by two instances, or again once its handler
  returned.
- `SettledIsHandled`: an event answered 2xx was handled or is being handled, but
  for the stranded.
- `RowFollowsStripe`: when all is quiet, row and plan say what Stripe says, or one
  of the causes is noted.
- `FreeIsWithinCap`: a workspace on FREE is within its cap or somebody is about to
  bring it there, but for the three causes named.

Three events are a subscription and a failed payment, which is two; or one
subscription's end between another's events. A second fault, by hand, is a throw and
then a failed release of its claim (2.1 million states).
`BillingSettles.cfg`, by hand, shows `EventsSettle`: every event is settled, but for
updates and invoices of a subscription that the row is never of (two events, two
faults).

Fairness, of that configuration: Stripe retries what it has no 2xx for, to an
instance that may be busy now and free later (strong fairness of the delivery of
each event); an instance, a request and a cron run that are not killed go on (weak
fairness). Buying, cancelling and publishing are never fair.

### What is proved

`BillingProofs`, for any sets of subscriptions, instances and plans and any bounds
(`PaidAssumption`, `BoundsAssumption`, `RowAssumption`): the types, `HandledOnce`,
`SettledIsHandled`, `EntitlementIsBacked`, `FreeIsWithinCap`. The types need to know
that a subscription somebody asked for is on a paid plan (`StripeFits`), that
events say the same (`EventsFit`), and what an instance and a request past a step
still hold (`HooksFit`, `MirrorFits`). `HandledOnce` is inductive with them.
`EntitlementIsBacked` follows from the few ways in which a step moves row and plan
(`RowWrites`): always together, in one transaction.

`RowFollowsStripe` speaks of a quiet state and has to be told from every other. Its
invariant is `TellsAll`. Of a subscription, the checkout is the first event, and the
newest event that changes the row says what Stripe has now (`EventsTell`). A handler
that is past its write has written, and the checkout of a subscription is written
before its updates find the row (`HandlersTell`); a cancel or reactivate request that
has its answer holds what Stripe has (`MirrorTells`). And the row says what Stripe
says, or the newest event that would make it say so has yet to be handled, or a cause
is noted (`RowTells`). When all is quiet there is no such event (`QuietFollows`). The
proof separates what Stripe does, which adds an event and so adds something untold,
from what the handlers do, which tells it (`StripeKeepsRow`, `WriteKeepsTelling`,
`OthersKeepTelling`). Only model-checked: `EventsSettle`.

### What the code does not keep

The causes are what the model found: each is a history after which the row differs
from Stripe's record until the next event, if there is one. Nothing compares an
event's time with the row's (overtaken); a duplicate is answered 2xx although the
first handler may yet throw (stranded, `api/webhooks/stripe/route.ts:79`);
cancel, reactivate and cancel within the life of an idempotency key leaves Stripe
as it was (replayed). An update of a subscription that was replaced throws
SUBSCRIPTION_NOT_FOUND for as long as Stripe retries.

Left out: notifications and mails, the dunning cron (mails only), invoices' texts.

## The end of a workspace and of its sites

### What is modelled

`WorkspaceDeletion.tla` is one workspace with its sites, what Vercel serves of them,
and the subscriptions that are paid for. A publish is three steps (start, deploy,
completion or failure, or the death of its worker in between): what `PublishPipeline`
has in detail. `schedule` is `deletionScheduledAt` against the run's clock; `completed[s]`
are the deployments that the site's COMPLETED jobs name, `serving` those on the web.
`run` is the daily run with the sites and deployments it read, `request` the
owner's unpublish or delete, `downgrade` the sites that a fall back to FREE is about to
unpublish. Each subscription in `billing` is one checkout session: more than one may
be paid, and `row` is the one that the Subscription row names, the last that the
webhook told of.

| Action | Code |
|---|---|
| `StartPublish`, `Deploy`, `PublishLands`, `PublishFails`, `PublishDies` | `startPublish`'s refusals of a deleted site and of a scheduled workspace; the worker |
| `RequestReads`, `RequestTakesDown`, `RequestSwallows`, `RequestWrites`, `RequestRemoves` | `unpublishSite` and `deleteSite`, whose failed take-down is only logged |
| `RestoreSite`, `PurgeSite` | `restoreSite`, the soft-delete purge |
| `ScheduleDeletion`, `CancelDeletion`, `ComesDue` | `deleteWorkspace`, `cancelWorkspaceDeletion`, 30 days |
| `RunStarts`, `RunChecks`, `RunReadsSubscription`, `RunCancelsBilling`, `RunListsSites`, `RunReadsSite`, `RunTakesDown`, `RunFailsToTakeDown`, `RunWritesSite`, `RunDeletes`, `RunKeeps`, `RunStops` | `processDueWorkspaceDeletions` with `takeDownSiteForDeletion` |
| `DowngradeReads`, `DowngradeWrites`, `DowngradeDies` | `reconcileWorkspaceToFreePlan`: the published sites beyond the cap become drafts without a URL |
| `Disconnect`, `Connect` | the Vercel connection |
| `Pay`, `PaymentIsTold` | Stripe, and `handleCheckoutCompleted` |
| `AccountIsDeleted` | the account-deletion cron on a workspace without an heir |

The cap is not modelled: a downgrade may take any of the published sites, and come at
any time while there is a row. That Stripe ends a subscription by itself only makes
fewer pay, and is left out.

`unrecorded`, `lost` and `missed` are history: deployments whose worker died before
it recorded them, those still serving when a purge took their record, and those that
a take-down failed on, did not ask for (`unpublishSite` names the latest only) or
could not see because a publish landed beside it. So are `downgraded`, those that
served when a downgrade made their site a draft; `late`, the subscriptions paid or
told of after the run had read the row; and `replaced`, those that were still paid
when another took the row (`stripe-webhook.service.ts:122-137`).

### What the runs check

`deletion`: one site, one deployment, two subscriptions that may both be paid, told of
in either order or not at all, a fault (a failed call or a killed run), and fairness.

- `RunOrphansNothing`: a workspace that the run deleted serves only what was
  unrecorded or lost before.
- `LostWasMissed`, `DraftIsDown`: a purge forgets, and a draft serves, only what a
  take-down missed or a downgrade left.
- `NobodyPaysForNothing`: who pays for a workspace that the run deleted came late or
  had lost the row to another.
- `DueIsDeleted`: what is due is deleted, cancelled or put off, if Vercel stays
  connected in the end.

`DeletionPair.cfg`, by hand, has two deployments (a live one and its replacement, or a
leftover) and two faults, with one subscription and no fairness: 730 thousand states,
and the first three hold. Every property is about one site, one subscription, or the
run's pass over them; a second site, by hand, changes none. Fairness: time passes, the
cron comes daily and the run goes on unless it is stopped, and so do a worker and a
request (weak fairness of each). Nothing is owed by users, by Stripe, by a downgrade
or by the connection.

### What is proved

`DeletionProofs`, for any sets of sites, deployments and subscriptions and any number
of faults (`NoneAssumption`, `FaultsAssumption`): the types (`Linked`: what is under
way knows its site), and the four safety properties. `NobodyPaysForNothing` needs what
the run has settled of every subscription at each step (`Settled`), `DraftIsDown` that
a site's row and its recorded deployments agree except while somebody is between the
two (`Down`), and `RunOrphansNothing` that a run that has passed a site left nothing
of it serving, nor may a publish start again, as the conditional delete says at the
end (`Swept`). Only model-checked: `DueIsDeleted`.

### What the code does not keep

- `LiveIsSeen` (`DowngradeServes.cfg`, by hand; `publish.service.ts:823-824`, "A
  deployment may still be serving: status alone misses an ARCHIVED or
  billing-downgraded site"): a downgrade clears the URL too and takes nothing down
  (`billing.service.ts:285-288`), so neither tells; a delete skips the take-down, and
  a purge forgets the deployment.
- Of two sessions that are both paid, the row names the last, and the run cancels
  that one only (`replaced`).
- The account-deletion cron deletes a workspace without an heir
  (`account-deletion/route.ts:56`) and takes nothing down, and cancels no billing: in
  the model its `ws` is "dropped", and no property speaks of it.

Left out: custom domains, mails, audit rows.

## Who owns a workspace

### What is modelled

`WorkspaceTeam.tla` is one workspace. The owner is named twice, by `ownerId` and by a
member row with the role OWNER. A request is its reads with their checks (`Check...`)
and its write (`Write...`); in between everybody else may act, and `Fails` ends it.

| Action | Code |
|---|---|
| `CheckInitiate`, `CheckAccept`, `CheckCancel`, `WriteInitiate`, `WriteAccept`, `WriteCancel` | `initiateTransfer`, `acceptTransfer`, `cancelTransfer` |
| `CheckChangeRole`, `CheckRevoke`, `CheckDelete`, `WriteChangeRole`, `WriteRevoke`, `WriteDelete`, `Reactivate`, `Join` | `changeRole`, `revokeMember`, `deleteMember`, `reactivateMember`, `acceptInvite` |
| `RequestAccountDeletion`, `CancelAccountDeletion`, `AccountComesDue`, `SweepReads`, `DepartureBegins`, `DepartureFindsHeir`, `DepartureWrites`, `SweepStops` | an account's deletion and its cron: one transaction per request it read, two reads and the writes |
| `TransferLapses`, `ExpireTransfers` | 48 hours, and the expiry cron |

`departure` is what the transaction that deletes an account has read: whether its user
owns the workspace, and who inherits. It is READ COMMITTED, its reads lock nothing, and
its writes go by id, so everybody else may act between them. The writes are one step:
they lock the rows that an acceptance and an invite write too. A member row is
identified by its user: somebody removed and invited again between a check and its
write counts as the same row, which only adds behaviour.

### What the runs check

`team`: three people (an owner, a new owner and a third who acts or inherits), one
transfer, two requests at a time, one who leaves; people and requests are symmetric.

- `OwnerIsKept`: no step leaves the workspace to an account that is gone, or members
  in a workspace that is, except the deletion of somebody who took it over after the
  cron had read what they own (`DepartsUnread`).
- `OwnerStaysInCharge`: exactly one member is OWNER, is the `ownerId`, and is
  active; only the writes listed in `Overlooks` and `DepartsOnStaleReads` end that.
- `SettledTransferStays`: a settled transfer stays settled, but for an acceptance
  that had read it PENDING.

Two requests are the shape of every race here: a check, another's write, the first
one's write. The cron runs beside them.

### What is proved

`TeamProofs`, for any number of people, transfers and requests
(`GoneAssumption`, `BoundAssumption`): the types and all three. They need what a
pending transfer, a request and the departure name (`TransfersFit`, `RequestsFit`,
`DepartureFits`). The steps are split into what a write does (`WriteKeepsOwner`,
`WriteKeepsCharge`) and what the sweep does (`SweepKeepsOwner`, `SweepKeepsCharge`).

### What the code does not keep

`OnlySoloDeleted` (`SoloDeleted.cfg`, by hand; `account-deletion/route.ts:38-41`,
"only delete solo workspaces"): a member who joins after the transaction found no heir
is a member of the workspace it deletes.

`Overlooks`, `DepartsUnread` and `DepartsOnStaleReads` list the rest, each found by the
model:

- the departing user accepts a transfer after the transaction read what they own
  (`account-deletion/route.ts:42`): `ownerId` has no foreign key, and names nobody;
- the workspace changes hands after that read: it is given to the heir, or deleted,
  all the same, with two OWNER rows, or the new owner's row is not the `ownerId`; or
  the heir was suspended meanwhile, and is an owner without access;
- a transfer to oneself is accepted, and the demotion that follows leaves no OWNER,
  against "Ensure new owner has OWNER role in workspace"
  (`workspace-transfer.service.ts:79`);
- a suspended member accepts, and is an OWNER without access;
- a transfer whose sender has ceased to be the owner is accepted: two OWNER rows;
- a change of role, a suspension or a removal, checked before, is written to a
  member who has become the owner (`team.service.ts:188`, 204, 242).

An account deletion that is withdrawn after the cron read it is carried out
(`account-deletion/route.ts:24`). Left out: invitations before they are accepted,
the seat limit, site permissions.

## Reviews and the publish gate

### What is modelled

`ReviewRound.tla` is one site. `round[i]` are its `ReviewRequest` rows in the order
of `createdAt`, with their link, kept pages and verdict; `version` is the site's
content, which `lastEditedAt` dates. Every request reads, decides and updates the
row by id; `fresh` in its record says whether the row is still as it was read.

| Action | Code |
|---|---|
| `Submit`, `SubmitCreates`, `SubmitRefinds`, `SubmitUpdates` | `submitReview`, with the unique index on PENDING and its P2002 |
| `IssueReviewToken`, `Supersede`, `PruneReadsLatest`, `Prune` | the link, the newer round's death to older links, the pruning of older pages |
| `ResolveReads`, `ResolveWrites` | `resolveReview`, an admin's answer |
| `SignReads`, `SignWrites`, `AnswerReads`, `AnswerWrites` | `identifyReviewer`, `resolveReviewByToken`, a client's answer |
| `RevokeReads`, `RevokeWrites` | `revokeReviewRound`, the one write that compares a revision |
| `PublishReadsSite`, `Gate`, `PublishQueues` | `startPublish` from its site to its job, with `isApprovalStale` |
| `Edit`, `Fails` | a save; a request that ends between two statements |

### What the run checks

`review`: two members, one of whom is OWNER and exempt from the gate, a client, two
rounds, two requests at a time out of four in a history, two versions, two
links.

- `SoundnessKept`: an answer is by somebody other than the submitter, a client's
  is signed, and the pages kept are those that were answered; only a write over a
  row that changed since it was read makes an answer unsound.
- `WithdrawalIsFresh`: a withdrawal kills the link that was shown, not a re-send's.
- `NewestKeepsPages`: the newest round's pages are taken only by a pruning that
  read before the round was there.
- `ClearedStaysCovered`: from the gate to its job, a publish rests on an approval that
  covers it (`Covers`), and only the requests in `TakesAway` take that: the round is
  withdrawn, a newer one is created, revived by a re-send or kills its link, or an
  answer read before is written over the approval.

Two requests overlap in all ways; four in a history are a submission, an answer, and
two that interfere. No request is fair: nothing has to happen here.

### What is proved

`ReviewProofs`, for any sets of people, clients and requests and any bounds
(`BoundsAssumption`, `PeopleAssumption`): the types with at most one PENDING round,
and the four properties (`ClearedStaysCovered` as `ApprovalIsKept`). `IInv` says what
each request holds and what of it is true as long as its row is fresh (`Fits`), that a
PENDING round has a submitter and no resolver (`Waiting`), that it is alone (`Alone`),
and that rounds are numbered without gaps (`Numbered`, `Blank`). `RowsWritten`
classifies every step that writes a row (`Rewrites`); the action properties are read
off it. For `ClearedStaysCovered` the steps are told apart by whether the publish
passes the gate in them or waits for its job (`Waits`): the first is covered by what
the gate read (`GateCovers`), and what writes the rounds under the second takes the
approval away or leaves it (`ApprovalStays`).

### What the code does not keep

- `PublishedWasShown` (`ReviewShown.cfg`, by hand; `publish-approval.ts:18-21`, "An
  approval covers the version that was approved, not later edits"): staleness
  is measured from the answer, so an edit between the pages a client was shown and
  the client's answer is published on that approval.
- What `TakesAway` lists does happen: nothing asks again between the gate and the job
  (`publish.service.ts:445-506`), so a withdrawal that lands there does not stop the
  publish.
- What `SoundnessKept` lists does happen: two answers to one round, the second over
  the first; a re-send that lands on an answered round and changes its submitter
  or pages; an answer written to a round that was revoked.
- A re-send leaves the earlier client's signature on the row; an internal re-send of
  a revoked PENDING round stays revoked; of two rounds created together, the older
  one's submission may kill the newer one's link, or prune its pages; revoking the
  newest round puts an older approval in force.

Left out: comments, notifications, mails, the expiry of links, the checks that an
invited address is not a member's.

## AI site generation

### What is modelled

`SiteGeneration.tla` is one workspace in one month. A job has one request, one
dispatch, one worker and one cancellation; `site[s].by` is the job whose pages a site
has. `old` are the jobs created over an hour ago. A site's row is there or deleted:
neither the request (`ai-generation.service.ts:53`) nor the worker (route, line 195)
asks for its status, so a published site is generated anew like a draft. The worker's
transaction is two steps: `FindsSite` reads the site to replace without a lock, and
`Persist` writes what was found by its id, whatever became of it.

| Action | Code |
|---|---|
| `CountMonth`, `CountHour`, `Create` | `createGenerationJob`: two counts, then the insert and the dispatch |
| `DispatchFails`, `FailUnclaimed`, `DispatchLost` | `dispatchAIWorker`; its instance dies |
| `WorkerReads`, `Claim`, `StartContent`, `CheckCancelled`, `PageGenerated`, `StartStyles` | the worker route up to its transaction |
| `FindsSite`, `Persist` | the transaction: its `findFirst` (195), and its writes of site, pages and COMPLETED (201-245) |
| `Stop`, `Throws`, `PersistUnheard`, `RecordFailure`, `Killed` | its catch, a commit whose answer is lost, and the platform |
| `CheckCancel`, `WriteCancel` | `cancelJob` |
| `HourPasses`, `Cleanup` | time, and the cron |
| `DeleteSite`, `RestoreSite` | `deleteSite` and `restoreSite` of the site's row |

The writes are one step because the site's update locks its row until the commit, a
new site is seen by nobody before it, and the flip (241) reads the job afresh. Two
regenerations of one site may also meet in `@@unique([siteId, slug])`: `Throws`.
`raced`, `excused` and `overtaken` are history: jobs whose request overlapped
another's, whose COMPLETED was overwritten, and whose site was deleted between that
read and those writes.

### What the runs check

`generation`: two jobs, one site, that may be there before, a limit of one job a
month and one an hour; 1.1 million states with symmetry.

- `SitesAreBilled`: a site's pages are those of a COMPLETED job that names it, so
  the month counts it, but for the excused.
- `ClaimedIsTheWorkers`: a running worker's job is failed only after an hour.
- `EndedStaysEnded`: no ended job is resurrected; what may still overwrite one is
  named.
- `LimitsHold`: of jobs whose requests did not overlap, none exceeds a limit.

`generation_sites`: one job, two sites, so that a job whose site is gone has a new
one to write; 9,487 states.

- `HandsOverItsOwn`: the site of a job that completes has its pages; it was nobody's
  before, or the one to replace; and it is there, unless it was deleted between the
  read and the writes of the transaction. Deletions and restorations before that, in
  the minutes of generating, are seen by the read.
- `EveryJobEnds`: under weak fairness of time and of the hourly cron alone.

Two jobs at a limit of one are the smallest overlap, and a regeneration of the
other's site. No worker, dispatcher or member is fair: the cron alone ends jobs.

### What is proved

`GenerationProofs`, for any finite set of jobs, any sites and any limits
(`JobsAssumption`, `NoSiteAssumption`, `LimitAssumption`): the types, the four
safety properties and `HandsOverItsOwn`. `Fits` says how a job's row, request,
dispatch, worker and cancellation agree; `AllSteps` lists the moves of a status;
`SitesFollow` ties a site to its job; `Held` says of the site a transaction found
that it is the job's to replace and is there or was deleted since; `Limited` counts:
what is charged fits in what was counted, plus the requests still in flight
(`Charged`, `Throttled`, `Room`). Only model-checked: `EveryJobEnds`.

### What the code does not keep

- `CancelledHasNoSite` (by hand, as an invariant in `GenerationSites.cfg`; the
  worker's comment, `api/workers/ai-generate/[jobId]/route.ts:21-26`): `cancelJob`
  checks the status and then writes by id, so that it overwrites COMPLETED: a
  cancelled job with a site, and no quota used.
- A site that is deleted between the read and the writes of the transaction is
  written all the same: the job completes, and is counted, for a site in the trash.
- A worker that does not hear its own commit marks the job FAILED; overlapping
  requests exceed the limits; a regeneration deletes the pages of a site that was
  edited, or published, since the job was created (route, line 204).

Left out: what the model is asked and answers, the daily prompt allowance, the
purge of deleted sites, and the turn of the month.

## Undo and redo

### What is modelled

`EditorHistory.tla` is `HistoryManager` in one editor. The document is a value for
each part; a patch says what to set. The undo stack holds checkpoints and patches,
`stacks.cache` the state as last recorded; `timer` is which of the two timers of the
coalescing chain is set. The editor has one thread: an action is a callback.

| Action | Code |
|---|---|
| `Edit`, `TimerFires`, `CoalesceFires`, `RecordNow` | `PROJECT_CHANGED` and its timers; `record` called at once |
| `Undo`, `Redo`, `CaptureUndo`, `ToastUndo`, `RestoreEntry` | `undo`, `redo`, `captureUndo`, `restoreEntry` |
| `WriteUntracked`, `NoteUnrecordedAction` | `runWithoutTracking`, and actions without an entry |
| `Load`, `Clear` | `PROJECT_LOADED`, `clear` |

`Recorded`, `Flushed`, `Trimmed`, `Undone`, `Redone` and `Reconstructed` are
`record`, `flushPending`, `trimHistory`, the two moves, and `reconstructState`.
`Trimmed` says in one step what the loop of `trimHistory` leaves: the newest entries
(`Kept`), the oldest of them made a checkpoint.
`seen` and `sound` on an entry are history: the document the user saw when it was
recorded, and whether a checkpoint's snapshot is that document.

### What the run checks

`history`: two parts of two values, a history of two with a checkpoint every second
entry, and three rare events: loads, clears, untracked writes, and restorations on a
full stack. `restoreEntry` trims nothing, so that restoring the newest entry again and
again lets the stack outgrow its size (here to five entries), until the next record
trims all that is too many at once. `HistoryLong.cfg`, by hand, has a history of three
with a checkpoint every third entry, and nothing rare (95 thousand states): a patch
that rests on a patch, and the same holds. The code has 10 and 100: the smaller
numbers reach trimming, a checkpoint converted and every mix of undo and redo around
them, and nothing in the code depends on more. One toast stands at a time.

- `TypeOK`: also that the stack is not empty and that its oldest entry is a
  checkpoint.
- `StackIsFaithful`: an entry that rests on a sound checkpoint reconstructs what the
  user saw, after any mix of operations.
- `EditsAreRecorded`: with no timer set, nothing is left out of the history.
- `UndoIsReversible`: what an undo takes, redo gives back.
- `ToastUndoesItsOwn`: a toast undoes its own action or nothing.

`history_wipes` disproves `UndoNeverWipes` ("so undo always has a baseline",
`HistoryManager.ts:132-135`): `trimHistory` (line 694) shifts the oldest checkpoint
off the stack before it computes the state of the entry that replaces it. That state
is `{}`, and undoing back to it empties the project. This is why the properties
above speak of sound checkpoints.

### What is proved

`HistoryProofs`, for any parts and values, any `MaxHistory`, `CheckpointInterval` and
`MaxRare`, and for a stack as long as restorations make it (`SizeAssumption`, and
`EmptyAssumption`: the wiped project and a reconstruction that throws are no
documents): the types, `StackIsFaithful`, `EditsAreRecorded` and `ToastUndoesItsOwn`;
and `UndoIsReversible` where checkpoints are no further apart than the history is
long. The code has 10 and 100, and its setters for both have no callers. Where they
are further apart (4 and 2, say), TLC shows an undo that redo does not give back.

`HistoryInvariant` is inductive. From its first sound checkpoint upwards the stack is
a chain: a snapshot is what the user saw, and a patch leads from what he saw to what
he saw next (`Chained`); what was undone leads on from there (`LeadsOn`); a checkpoint
is never further down than the counter says (`CheckpointNear`), so that an undo finds
one; only the oldest entry may be a snapshot of the wiped project (`SnapshotsHeld`),
and it is the recorded one exactly when it is the live one (`EmptyIsShown`). A record
that trims moves every entry down by the surplus, however large (`KeptIs`,
`TrimmedIs`, `TrimmedKeeps`). That a chain reconstructs to what was seen is an
induction over its patches: `ReconstructedIsSeen` takes the lowest entry of which it
would be false. `EditsAreRecorded` is inductive beside it.

Left out: `recordForCollaboration` and `applyRemoteOperation` (which overwrites an edit
that waits in the coalescing window), pause and resume, labels.

## Not modelled

- Daily prompt quota: one conditional increment and one decrement of a row, whose
  key is computed at each call. A reservation released after midnight UTC is taken
  from the next day (`quota.service.ts:124`), as can be read off the code.
- Scheduled publish: `schedulePublish` refuses every request today, so the sweep
  has no rows; it would be one more caller of `startPublish`.
- Collaboration: operations over a realtime channel whose delivery is the
  provider's; their transformation would be a project of its own.
- Authentication, sessions and tokens: one-use tokens, consumed by one statement.
- Invites before they are accepted, with the seat limit: a count before an insert,
  as in `SiteGeneration`.
- Content (pages, CMS, folders, redirects, themes, components), analytics,
  marketplace, partners, help and learning: row edits behind a role check, one
  statement each.
- Media, domains and integrations: object storage and polled external services, with
  no protocol beyond one request.
- The user interface, rendering, styles, drag and drop, export: layout and wording,
  or pure functions of the document.
