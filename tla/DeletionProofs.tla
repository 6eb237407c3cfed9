----------------------------- MODULE DeletionProofs -----------------------------
(* What holds when a site or a workspace ends, for any number of sites and    *)
(* deployments and any number of faults.                                      *)
EXTENDS DeletionProperties, TLAPS

\* What is under way knows its deployment or its site.
Linked ==
  /\ \A s \in Sites : job[s].pc = "deployed" => job[s].dep \in Deployments
  /\ request.pc # "idle" => request.site \in Sites
  /\ run.pc = "down" => run.site \in Sites

\* The inductive invariant of the types.
Typed == TypeOK /\ Linked

LEMMA InitTyped == Init => Typed
  BY FaultsAssumption
     DEF Init, Typed, TypeOK, Linked, stripe, Job, NoJob, Request, NoRequest, Run, NoRun

\* The last deployment is one of those that were completed.
LEMMA LatestTyped ==
  ASSUME Typed, NEW s \in Sites
  PROVE  /\ Completed(s) \subseteq Deployments
         /\ Latest(s) \in Deployments \union {None}
         /\ completed[s] = <<>> => Completed(s) = {} /\ Latest(s) = None
         /\ completed[s] # <<>> => Latest(s) \in Completed(s)
  <1>0. completed[s] \in Seq(Deployments)
    BY DEF Typed, TypeOK
  <1>1. completed[s] \in Seq(Deployments) /\ Len(completed[s]) \in Nat
    BY <1>0
  <1>2. \A i \in 1..Len(completed[s]) : completed[s][i] \in Deployments
    BY <1>1
  <1>3. completed[s] # <<>> => Len(completed[s]) \in 1..Len(completed[s])
    BY <1>1
  <1> QED BY <1>1, <1>2, <1>3 DEF Completed, Latest

\* A fault is counted.
LEMMA FaultTyped == Typed /\ Fault => faults' \in 0..MaxFaults
  <1> SUFFICES ASSUME Typed, Fault PROVE faults' \in 0..MaxFaults
    OBVIOUS
  <1>1. faults \in 0..MaxFaults
    BY DEF Typed, TypeOK
  <1> QED BY <1>1, FaultsAssumption DEF Fault

\* The steps of a publish.
LEMMA PublishTyped ==
  ASSUME Typed, NEW s \in Sites,
         \/ StartPublish(s) \/ WorkerGoes(s) \/ PublishDies(s)
         \/ \E d \in Deployments : Deploy(s, d)
  PROVE  Typed'
  <1>1. CASE StartPublish(s)
    BY <1>1 DEF StartPublish, Typed, TypeOK, Linked, stripe, Job, siteVars, history
  <1>2. ASSUME NEW d \in Deployments, Deploy(s, d) PROVE Typed'
    BY <1>2 DEF Deploy, Typed, TypeOK, Linked, stripe, Job, history
  <1>3. CASE PublishFails(s)
    BY <1>3 DEF PublishFails, Typed, TypeOK, Linked, stripe, Job, NoJob, history
  <1>4. CASE PublishLands(s)
    <2>1. job[s].dep \in Deployments
      BY <1>4 DEF PublishLands, Typed, Linked, stripe
    <2>2. completed' \in [Sites -> Seq(Deployments)]
      <3>1. completed \in [Sites -> Seq(Deployments)] /\ completed[s] \in Seq(Deployments)
        BY DEF Typed, TypeOK
      <3>2. Append(completed[s], job[s].dep) \in Seq(Deployments)
        BY <2>1, <3>1
      <3> QED BY <1>4, <3>1, <3>2 DEF PublishLands
    <2>3. missed' \in SUBSET Deployments
      BY <1>4 DEF PublishLands, Misses, Typed, TypeOK
    <2> QED BY <1>4, <2>2, <2>3 DEF PublishLands, Typed, TypeOK, Linked, stripe, Job, NoJob
  <1>5. CASE PublishDies(s)
    <2>1. job[s].dep \in Deployments /\ faults' \in 0..MaxFaults
      BY <1>5, FaultTyped DEF PublishDies, Typed, Linked, stripe
    <2> QED BY <1>5, <2>1 DEF PublishDies, Typed, TypeOK, Linked, stripe, Job, NoJob
  <1> QED BY <1>1, <1>2, <1>3, <1>4, <1>5 DEF WorkerGoes

\* The steps of an unpublish or a delete, of a restore and of the purge.
LEMMA RequestTyped ==
  ASSUME Typed,
         \/ \E s \in Sites : (\E removes \in BOOLEAN : RequestReads(s, removes)) \/ RestoreSite(s) \/ PurgeSite(s)
         \/ RequestGoes \/ RequestSwallows
  PROVE  Typed'
  <1>1. ASSUME NEW s \in Sites, NEW removes \in BOOLEAN, RequestReads(s, removes) PROVE Typed'
    <2>1. request' \in Request /\ request'.site = s
      BY <1>1, LatestTyped DEF RequestReads, Request
    <2>2. missed' \in SUBSET Deployments
      BY <1>1 DEF RequestReads, Misses, Typed, TypeOK
    <2> QED BY <1>1, <2>1, <2>2 DEF RequestReads, Typed, TypeOK, Linked, stripe
  <1>2. ASSUME NEW s \in Sites, RestoreSite(s) PROVE Typed'
    BY <1>2 DEF RestoreSite, Typed, TypeOK, Linked, stripe, history
  <1>3. ASSUME NEW s \in Sites, PurgeSite(s) PROVE Typed'
    <2>1. completed' \in [Sites -> Seq(Deployments)] /\ lost' \in SUBSET Deployments
      <3>1. completed \in [Sites -> Seq(Deployments)]
        BY DEF Typed, TypeOK
      <3>2. <<>> \in Seq(Deployments)
        OBVIOUS
      <3> QED BY <1>3, <3>1, <3>2, LatestTyped DEF PurgeSite, Typed, TypeOK
    <2>2. site' \in [Sites -> {"live", "deleted", "purged"}] /\ url' \in [Sites -> BOOLEAN]
      BY <1>3 DEF PurgeSite, Typed, TypeOK
    <2> QED BY <1>3, <2>1, <2>2 DEF PurgeSite, Typed, TypeOK, Linked, stripe
  <1>4. CASE RequestTakesDown
    BY <1>4 DEF RequestTakesDown, Typed, TypeOK, Linked, stripe, Request, history
  <1>5. CASE RequestWrites
    BY <1>5 DEF RequestWrites, Typed, TypeOK, Linked, stripe, Request, NoRequest, history
  <1>6. CASE RequestRemoves
    BY <1>6 DEF RequestRemoves, Typed, TypeOK, Linked, stripe, Request, NoRequest, history
  <1>7. CASE RequestSwallows
    <2>1. faults' \in 0..MaxFaults /\ missed' \in SUBSET Deployments
      BY <1>7, FaultTyped DEF RequestSwallows, Misses, Typed, TypeOK
    <2>2. request' \in Request /\ request'.site = request.site
      BY <1>7 DEF RequestSwallows, Typed, TypeOK, Request
    <2> QED BY <1>7, <2>1, <2>2 DEF RequestSwallows, Typed, TypeOK, Linked, stripe
  <1> QED BY <1>1, <1>2, <1>3, <1>4, <1>5, <1>6, <1>7 DEF RequestGoes

\* The owner, Stripe and the clock.
LEMMA OwnerTyped ==
  ASSUME Typed,
         \/ ScheduleDeletion \/ CancelDeletion \/ ComesDue \/ Disconnect \/ Connect
         \/ \E c \in Subs : Pay(c) \/ PaymentIsTold(c)
  PROVE  Typed'
  <1>1. UNCHANGED <<ws, siteVars, serving, run, unrecorded, lost, missed, downgraded>>
    BY DEF ScheduleDeletion, CancelDeletion, ComesDue, Disconnect, Connect, Pay, PaymentIsTold, history
  <1>2. /\ schedule' \in {"none", "future", "due"} /\ connected' \in BOOLEAN
        /\ billing' \in [Subs -> {"none", "untold", "told", "canceled"}]
        /\ row' \in Subs \union {None} /\ late' \in SUBSET Subs /\ replaced' \in SUBSET Subs
    BY DEF stripe, ScheduleDeletion, CancelDeletion, ComesDue, Disconnect, Connect, Pay, PaymentIsTold,
           Typed, TypeOK
  <1>3. faults' \in 0..MaxFaults
    <2>1. Fault \/ UNCHANGED faults
      BY DEF ScheduleDeletion, CancelDeletion, ComesDue, Disconnect, Connect, Pay, PaymentIsTold, history
    <2> QED BY <2>1, FaultTyped DEF Typed, TypeOK
  <1> QED BY <1>1, <1>2, <1>3 DEF Typed, TypeOK, Linked, stripe, siteVars

\* A downgrade writes sites it has read.
LEMMA DowngradeTyped ==
  ASSUME Typed, DowngradeReads \/ DowngradeWrites \/ DowngradeDies
  PROVE  Typed'
  <1>1. downgrade' \in SUBSET Sites
    BY DEF DowngradeReads, DowngradeWrites, DowngradeDies, Typed, TypeOK
  <1>2. CASE DowngradeReads \/ DowngradeDies
    BY <1>1, <1>2 DEF DowngradeReads, DowngradeDies, Typed, TypeOK, Linked, stripe, history
  <1>3. CASE DowngradeWrites
    <2>1. url' \in [Sites -> BOOLEAN] /\ downgraded' \in SUBSET Deployments
      BY <1>3 DEF DowngradeWrites, Typed, TypeOK
    <2> QED BY <1>1, <1>3, <2>1 DEF DowngradeWrites, Typed, TypeOK, Linked, stripe
  <1> QED BY <1>2, <1>3

\* The deletion run, and an account's deletion.
LEMMA RunTyped ==
  ASSUME Typed,
         RunGoes \/ RunStops \/ AccountIsDeleted \/ \E d \in Deployments : RunFailsToTakeDown(d)
  PROVE  Typed'
  <1>1. CASE RunStarts \/ RunChecks \/ RunListsSites \/ RunKeeps
    <2>1. NoRun \in Run /\ NoRun.pc # "down" /\ [NoRun EXCEPT !.pc = "check"] \in Run
      BY DEF NoRun, Run
    <2>2. run \in Run
      BY DEF Typed, TypeOK
    <2>3. ASSUME run.pc = "list" PROVE [run EXCEPT !.pc = "sites", !.todo = {s \in Sites : completed[s] # <<>>}] \in Run
      BY <2>2 DEF Run
    <2>4. [run EXCEPT !.pc = "subscription"] \in Run
      BY <2>2 DEF Run
    <2>5. run' \in Run
      BY <1>1, <2>1, <2>3, <2>4 DEF RunStarts, RunChecks, RunListsSites, RunKeeps
    <2>6. run'.pc # "down"
      BY <1>1, <2>1, <2>2 DEF RunStarts, RunChecks, RunListsSites, RunKeeps, Run, NoRun
    <2> QED BY <1>1, <2>5, <2>6
        DEF RunStarts, RunChecks, RunListsSites, RunKeeps, Typed, TypeOK, Linked, stripe, siteVars, history
  <1>2. CASE RunReadsSubscription \/ RunCancelsBilling
    <2>1. /\ run' \in Run /\ run'.pc # "down"
          /\ billing' \in [Subs -> {"none", "untold", "told", "canceled"}]
          /\ row' \in Subs \union {None} /\ late' \in SUBSET Subs /\ replaced' \in SUBSET Subs
      BY <1>2 DEF RunReadsSubscription, RunCancelsBilling, Typed, TypeOK, Run
    <2> QED BY <1>2, <2>1
        DEF RunReadsSubscription, RunCancelsBilling, Typed, TypeOK, Linked, stripe, siteVars, history
  <1>3. ASSUME NEW s \in Sites, RunReadsSite(s) PROVE Typed'
    <2>1. run' \in Run /\ (run'.pc = "down" => run'.site \in Sites)
      BY <1>3, LatestTyped DEF RunReadsSite, Typed, TypeOK, Run
    <2> QED BY <1>3, <2>1 DEF RunReadsSite, Typed, TypeOK, Linked, stripe, siteVars, history
  <1>4. ASSUME NEW d \in Deployments, RunTakesDown(d) PROVE Typed'
    BY <1>4 DEF RunTakesDown, Typed, TypeOK, Linked, stripe, Run, siteVars, history
  <1>5. ASSUME NEW d \in Deployments, RunFailsToTakeDown(d) PROVE Typed'
    <2>1. faults' \in 0..MaxFaults
      BY <1>5, FaultTyped DEF RunFailsToTakeDown
    <2>2. run' \in Run /\ run'.pc = run.pc /\ run'.site = run.site
      BY <1>5 DEF RunFailsToTakeDown, Typed, TypeOK, Run
    <2> QED BY <1>5, <2>1, <2>2 DEF RunFailsToTakeDown, Typed, TypeOK, Linked, stripe, siteVars
  <1>6. CASE RunWritesSite
    <2>1. run \in Run
      BY DEF Typed, TypeOK
    <2>2. run' \in Run /\ run'.pc = "sites"
      BY <1>6, <2>1 DEF RunWritesSite, Run
    <2>3. url' \in [Sites -> BOOLEAN]
      BY <1>6 DEF RunWritesSite, Typed, TypeOK
    <2> QED BY <1>6, <2>2, <2>3 DEF RunWritesSite, Typed, TypeOK, Linked, stripe, history
  <1>7. CASE RunDeletes \/ AccountIsDeleted
    <2>1. /\ ws' \in {"gone", "dropped"} /\ Cascade(ws') /\ run' \in {NoRun, run}
          /\ UNCHANGED <<billing, late, replaced, serving, history>>
      BY <1>7 DEF RunDeletes, AccountIsDeleted, Cascade
    <2>2. /\ site' \in [Sites -> {"live", "deleted", "purged"}] /\ url' \in [Sites -> BOOLEAN]
          /\ job' \in [Sites -> Job] /\ completed' \in [Sites -> Seq(Deployments)]
          /\ request' = NoRequest /\ \A s \in Sites : job'[s] = NoJob
      BY <2>1 DEF Cascade, Job, NoJob
    <2>3. request' \in Request /\ request'.pc = "idle" /\ \A s \in Sites : job'[s].pc = "none"
      BY <2>2 DEF Request, NoRequest, NoJob
    <2>4. NoRun \in Run /\ NoRun.pc = "idle"
      BY DEF Run, NoRun
    <2>5. run' \in Run /\ (run'.pc = "down" => run'.site \in Sites)
      BY <2>1, <2>4 DEF Typed, TypeOK, Linked, stripe
    <2>6. TypeOK'
      BY <2>1, <2>2, <2>3, <2>5 DEF Typed, TypeOK, Cascade, history
    <2> QED BY <2>3, <2>5, <2>6 DEF Typed, Linked, stripe
  <1>8. CASE RunStops
    <2>1. faults' \in 0..MaxFaults
      BY <1>8, FaultTyped DEF RunStops
    <2>2. NoRun \in Run /\ NoRun.pc = "idle"
      BY DEF Run, NoRun
    <2> QED BY <1>8, <2>1, <2>2 DEF RunStops, Typed, TypeOK, Linked, stripe, siteVars
  <1> QED BY <1>1, <1>2, <1>3, <1>4, <1>5, <1>6, <1>7, <1>8 DEF RunGoes

LEMMA StepTyped == Typed /\ [Next]_vars => Typed'
  <1> SUFFICES ASSUME Typed, [Next]_vars PROVE Typed'
    OBVIOUS
  <1>1. CASE UNCHANGED vars
    BY <1>1 DEF vars, siteVars, history, Typed, TypeOK, Linked, stripe
  <1> QED BY <1>1, PublishTyped, RequestTyped, OwnerTyped, DowngradeTyped, RunTyped DEF Next

LEMMA AlwaysTyped == Spec => []Typed
  BY InitTyped, StepTyped, PTL DEF Spec

\* Every variable has its type, whatever fails and whoever is killed.
THEOREM DeletionTypes == Spec => []TypeOK
  <1>1. Typed => TypeOK
    BY DEF Typed
  <1> QED BY <1>1, AlwaysTyped, PTL

-----------------------------------------------------------------------------
(* Billing.  What the webhook has told of is in the row, or has lost it to   *)
(* another; so the one the run reads there is all it has to cancel, but for  *)
(* what comes later.                                                         *)

Paid(c) == billing[c] \in {"untold", "told"}
Excepted == late \union replaced
Settled ==
  /\ ws = "live" => \A c \in Subs : billing[c] = "told" => c = row \/ c \in replaced
  /\ run.pc # "idle" => ws = "live"
  /\ run.pc = "cancel" => \A c \in Subs : Paid(c) => c = run.sub \/ c \in Excepted
  /\ run.pc \in {"list", "sites", "down"} => \A c \in Subs : Paid(c) => c \in Excepted
  /\ ws = "gone" => \A c \in Subs : Paid(c) => c \in Excepted

\* A step that leaves Stripe alone, and a run that was past it or is not yet.
LEMMA QuietSettled ==
  ASSUME Settled, UNCHANGED <<ws, stripe>>,
         \/ run' = run
         \/ run'.pc \in {"idle", "check", "subscription"} /\ (run'.pc # "idle" => ws = "live")
         \/ run.pc \in {"list", "sites", "down"} /\ run'.pc \in {"sites", "down"}
  PROVE  Settled'
  BY DEF Settled, Paid, Excepted, stripe

\* The payments.
LEMMA PaymentSettled ==
  ASSUME Typed, Settled, NEW c \in Subs, Pay(c) \/ PaymentIsTold(c)
  PROVE  Settled'
  <1> USE DEF Settled, Paid, Excepted
  <1>0. billing \in [Subs -> {"none", "untold", "told", "canceled"}] /\ run \in Run
        /\ row \in Subs \union {None}
    BY DEF Typed, TypeOK
  <1>1. CASE Pay(c)
    <2>1. /\ \A b \in Subs \ {c} : billing'[b] = billing[b]
          /\ billing'[c] = "untold" /\ late \subseteq late'
          /\ UNCHANGED <<ws, run, row, replaced>>
          /\ ws # "live" \/ run.pc \in {"cancel", "list", "sites", "down"} => c \in late'
      BY <1>0, <1>1 DEF Pay
    <2> QED BY <2>1
  <1>2. CASE PaymentIsTold(c)
    <2>1. /\ \A b \in Subs \ {c} : billing'[b] = billing[b]
          /\ billing[c] = "untold" /\ billing'[c] = "told" /\ row' = c
          /\ replaced \subseteq replaced' /\ UNCHANGED <<ws, run, late>>
          /\ ws = "live"
      BY <1>0, <1>2 DEF PaymentIsTold
    <2>2. row \in Subs /\ billing[row] = "told" => row \in replaced'
      BY <1>2 DEF PaymentIsTold
    <2> QED BY <2>1, <2>2
  <1> QED BY <1>1, <1>2

\* The run reads the row, and cancels what it names.
LEMMA RunSettles ==
  ASSUME Typed, Settled, RunReadsSubscription \/ RunCancelsBilling
  PROVE  Settled'
  <1> USE DEF Settled, Paid, Excepted
  <1>0. billing \in [Subs -> {"none", "untold", "told", "canceled"}] /\ run \in Run
    BY DEF Typed, TypeOK
  <1>1. CASE RunReadsSubscription
    <2>1. /\ run.pc = "subscription" /\ ws = "live" /\ UNCHANGED <<ws, billing, row, replaced>>
          /\ late' = {c \in Subs : billing[c] = "untold"}
          /\ run'.sub = row /\ run'.pc \in {"list", "cancel"} /\ (run'.pc = "list" => row = None)
      BY <1>0, <1>1 DEF RunReadsSubscription, Run
    <2>2. \A c \in Subs : c # None
      BY NoneAssumption
    <2>3. \A c \in Subs : Paid(c)' => c = row \/ c \in Excepted'
      BY <2>1
    <2> QED BY <2>1, <2>2, <2>3
  <1>2. CASE RunCancelsBilling
    <2>1. /\ run.pc = "cancel" /\ ws = "live" /\ UNCHANGED <<ws, row, late, replaced>>
          /\ run'.pc = "list"
      BY <1>0, <1>2 DEF RunCancelsBilling, Run
    <2>2. \A c \in Subs : billing'[c] = IF c = run.sub THEN "canceled" ELSE billing[c]
      BY <1>0, <1>2 DEF RunCancelsBilling
    <2> QED BY <2>1, <2>2
  <1> QED BY <1>1, <1>2

LEMMA StepSettled == Typed /\ Settled /\ [Next]_vars => Settled'
  <1> SUFFICES ASSUME Typed, Settled, [Next]_vars PROVE Settled'
    OBVIOUS
  <1>0. run \in Run
    BY DEF Typed, TypeOK
  <1>1. CASE UNCHANGED <<ws, stripe, run>>
    BY <1>1, QuietSettled
  <1>2. ASSUME NEW s \in Sites,
               \/ StartPublish(s) \/ WorkerGoes(s) \/ PublishDies(s)
               \/ \E d \in Deployments : Deploy(s, d)
               \/ \E removes \in BOOLEAN : RequestReads(s, removes)
               \/ RestoreSite(s) \/ PurgeSite(s)
        PROVE  Settled'
    BY <1>1, <1>2 DEF StartPublish, WorkerGoes, PublishFails, PublishLands, PublishDies, Deploy,
                      RequestReads, RestoreSite, PurgeSite
  <1>3. CASE RequestGoes \/ RequestSwallows \/ ScheduleDeletion \/ CancelDeletion \/ ComesDue
             \/ Disconnect \/ Connect \/ DowngradeReads \/ DowngradeWrites \/ DowngradeDies
    BY <1>1, <1>3 DEF RequestGoes, RequestTakesDown, RequestWrites, RequestRemoves, RequestSwallows,
                      ScheduleDeletion, CancelDeletion, ComesDue, Disconnect, Connect,
                      DowngradeReads, DowngradeWrites, DowngradeDies
  <1>4. CASE \E c \in Subs : Pay(c) \/ PaymentIsTold(c)
    BY <1>4, PaymentSettled
  <1>5. CASE RunStarts \/ RunChecks \/ RunStops \/ RunKeeps
    <2>1. /\ run'.pc \in {"idle", "check", "subscription"} /\ UNCHANGED <<ws, stripe>>
          /\ run'.pc # "idle" => ws = "live"
      BY <1>0, <1>5 DEF RunStarts, RunChecks, RunStops, RunKeeps, NoRun, Run
    <2> QED BY <2>1, QuietSettled
  <1>6. CASE RunReadsSubscription \/ RunCancelsBilling
    BY <1>6, RunSettles
  <1>7. ASSUME NEW s \in Sites, RunReadsSite(s) PROVE Settled'
    <2>1. run.pc = "sites" /\ run'.pc \in {"sites", "down"} /\ UNCHANGED <<ws, stripe>>
      BY <1>0, <1>7 DEF RunReadsSite, Run
    <2> QED BY <2>1, QuietSettled
  <1>8. ASSUME NEW d \in Deployments, RunTakesDown(d) \/ RunFailsToTakeDown(d) PROVE Settled'
    <2>1. run.pc = "down" /\ run'.pc = "down" /\ UNCHANGED <<ws, stripe>>
      BY <1>0, <1>8 DEF RunTakesDown, RunFailsToTakeDown, Run
    <2> QED BY <2>1, QuietSettled
  <1>9. CASE RunListsSites \/ RunWritesSite
    <2>1. run.pc \in {"list", "down"} /\ run'.pc = "sites" /\ UNCHANGED <<ws, stripe>>
      BY <1>0, <1>9 DEF RunListsSites, RunWritesSite, Run
    <2> QED BY <2>1, QuietSettled
  <1>10. CASE RunDeletes \/ AccountIsDeleted
    <2>1. run'.pc = "idle" /\ ws' \in {"gone", "dropped"} /\ UNCHANGED <<billing, late, replaced>>
      BY <1>10 DEF RunDeletes, AccountIsDeleted, Cascade, NoRun
    <2>2. ws' = "gone" => run.pc = "sites"
      BY <1>10 DEF RunDeletes, AccountIsDeleted, Cascade
    <2> QED BY <2>1, <2>2 DEF Settled, Paid, Excepted
  <1>11. CASE UNCHANGED vars
    BY <1>1, <1>11 DEF vars
  <1> QED BY <1>2, <1>3, <1>4, <1>5, <1>6, <1>7, <1>8, <1>9, <1>10, <1>11 DEF Next, RunGoes

\* Nobody pays for a workspace the run has deleted, however many subscriptions were
\* paid for it, but those that came after its read or had lost the row.
THEOREM NobodyPays == Spec => []NobodyPaysForNothing
  <1>1. Init => Settled
    BY DEF Init, Settled, Paid, NoRun
  <1>2. Settled => NobodyPaysForNothing
    BY DEF Settled, Paid, Excepted, NobodyPaysForNothing
  <1> QED BY <1>1, <1>2, StepSettled, AlwaysTyped, PTL DEF Spec

-----------------------------------------------------------------------------
(* Take-downs: whoever is about to make a site a draft, or has deleted it,   *)
(* leaves serving what it missed or is about to take down.                   *)

Web(s) == Completed(s) \intersect serving
Excused == missed \union downgraded

Down ==
  /\ \A s \in Sites : ~url[s] \/ site[s] = "deleted" => Web(s) \subseteq Excused
  /\ request.pc = "delete" => Web(request.site) \subseteq Excused \union {request.dep}
  /\ request.pc \in {"write", "remove"} => Web(request.site) \subseteq Excused
  /\ run.pc = "down" /\ ~run.siteFailed => Web(run.site) \subseteq Excused \union run.deps
  /\ lost \subseteq Excused

\* Completed deployments are those of before where no job completes.
LEMMA SameCompleted == completed' = completed => \A s \in Sites : Completed(s)' = Completed(s)
  BY DEF Completed

LEMMA NoneCompleted == ASSUME NEW s \in Sites, completed[s] = <<>> PROVE Completed(s) = {}
  BY DEF Completed

\* A publish that lands adds its own deployment.
LEMMA LandedCompleted ==
  ASSUME Typed, NEW s \in Sites, PublishLands(s)
  PROVE  /\ Completed(s)' = Completed(s) \union {job[s].dep}
         /\ \A t \in Sites \ {s} : Completed(t)' = Completed(t)
  <1>1. completed \in [Sites -> Seq(Deployments)] /\ completed[s] \in Seq(Deployments)
    BY DEF Typed, TypeOK
  <1>2. completed'[s] = Append(completed[s], job[s].dep)
        /\ \A t \in Sites \ {s} : completed'[t] = completed[t]
    BY <1>1 DEF PublishLands
  <1>3. Len(completed[s]) \in Nat /\ Len(completed'[s]) = Len(completed[s]) + 1
    BY <1>1, <1>2
  <1>4. /\ \A i \in 1..Len(completed[s]) : completed'[s][i] = completed[s][i]
        /\ completed'[s][Len(completed[s]) + 1] = job[s].dep
    BY <1>1, <1>2
  <1>5. 1..Len(completed'[s]) = (1..Len(completed[s])) \union {Len(completed[s]) + 1}
    BY <1>3
  <1>6. Completed(s)' = Completed(s) \union {job[s].dep}
    BY <1>4, <1>5 DEF Completed
  <1> QED BY <1>2, <1>6 DEF Completed

\* A step that only takes down, or notes as missed, keeps drafts down.
LEMMA QuietDown ==
  ASSUME Typed, Down, UNCHANGED completed, serving' \subseteq serving, Excused \subseteq Excused', lost' = lost,
         UNCHANGED <<site, url>>,
         UNCHANGED request \/ request'.pc = "idle",
         UNCHANGED run \/ run'.pc # "down"
  PROVE  Down'
  <1>1. \A s \in Sites : Web(s)' \subseteq Web(s)
    BY SameCompleted DEF Web
  <1> QED BY <1>1 DEF Down, Typed, Linked

LEMMA PublishDown ==
  ASSUME Typed, Down, NEW s \in Sites,
         \/ StartPublish(s) \/ WorkerGoes(s) \/ PublishDies(s)
         \/ \E d \in Deployments : Deploy(s, d)
  PROVE  Down'
  <1>1. CASE StartPublish(s) \/ PublishFails(s) \/ PublishDies(s)
    BY <1>1, QuietDown DEF Excused, StartPublish, PublishFails, PublishDies, history
  <1>2. ASSUME NEW d \in Deployments, Deploy(s, d) PROVE Down'
    <2>1. ASSUME NEW t \in Sites PROVE d \notin Completed(t)
      <3>1. Completed(t) \union {job[t].dep} \in {Completed(u) \union {job[u].dep} : u \in Sites}
        OBVIOUS
      <3> QED BY <1>2, <3>1 DEF Deploy, Known
    <2>2. \A t \in Sites : Web(t)' = Web(t)
      BY <1>2, <2>1, SameCompleted DEF Web, Deploy
    <2> QED BY <1>2, <2>2 DEF Excused, Deploy, Down, Typed, Linked, history
  <1>3. CASE PublishLands(s)
    <2>1. /\ Web(s)' \subseteq Web(s) \union ({job[s].dep} \intersect serving)
          /\ \A t \in Sites \ {s} : Web(t)' = Web(t)
      BY <1>3, LandedCompleted DEF Web, PublishLands
    <2>2. /\ Excused \subseteq Excused' /\ lost' = lost /\ url'[s] /\ \A t \in Sites \ {s} : url'[t] = url[t]
          /\ UNCHANGED <<site, request, run>>
          /\ (site[s] = "deleted" \/ s \in {request.site, run.site} =>
                {job[s].dep} \intersect serving \subseteq Excused')
      BY <1>3 DEF Excused, PublishLands, Misses, Typed, TypeOK
    <2>3. \A t \in Sites : ~url'[t] \/ site'[t] = "deleted" => Web(t)' \subseteq Excused'
      BY <2>1, <2>2 DEF Down
    <2>4. /\ request.pc = "delete" => Web(request.site)' \subseteq Excused' \union {request.dep}
          /\ request.pc \in {"write", "remove"} => Web(request.site)' \subseteq Excused'
      BY <2>1, <2>2 DEF Down, Typed, Linked
    <2>5. run.pc = "down" /\ ~run.siteFailed => Web(run.site)' \subseteq Excused' \union run.deps
      BY <2>1, <2>2 DEF Down, Typed, Linked
    <2> QED BY <2>2, <2>3, <2>4, <2>5 DEF Down, Web
  <1> QED BY <1>1, <1>2, <1>3 DEF WorkerGoes

LEMMA RequestDown ==
  ASSUME Typed, Down,
         \/ \E s \in Sites : (\E removes \in BOOLEAN : RequestReads(s, removes)) \/ RestoreSite(s) \/ PurgeSite(s)
         \/ RequestGoes \/ RequestSwallows
  PROVE  Down'
  <1>0. request \in Request
    BY DEF Typed, TypeOK
  <1>1. ASSUME NEW s \in Sites, NEW removes \in BOOLEAN, RequestReads(s, removes) PROVE Down'
    <2>1. /\ \A t \in Sites : Web(t)' = Web(t)
          /\ Excused \subseteq Excused' /\ UNCHANGED <<site, url, run, lost>>
      BY <1>1, SameCompleted DEF Excused, Web, RequestReads, Misses
    <2>2. request'.site = s /\ request'.dep = Latest(s)
      BY <1>1 DEF RequestReads
    <2>3. request'.pc = "delete" => Web(s) \subseteq Excused' \union {Latest(s)}
      BY <1>1 DEF Excused, RequestReads, Misses, Web
    <2>4. request'.pc = "write" => Web(s) \subseteq Excused'
      BY <1>1, LatestTyped, NoneAssumption DEF Excused, RequestReads, Misses, Web
    <2>5. request'.pc = "remove" => Web(s) \subseteq Excused'
      BY <1>1 DEF Excused, RequestReads, Misses, Down
    <2> QED BY <2>1, <2>2, <2>3, <2>4, <2>5 DEF Down, Web, Typed, Linked
  <1>2. ASSUME NEW s \in Sites, RestoreSite(s) PROVE Down'
    <2>1. \A t \in Sites : Web(t)' = Web(t) /\ (site'[t] = "deleted" => site[t] = "deleted")
      BY <1>2, SameCompleted DEF Web, RestoreSite, Typed, TypeOK
    <2> QED BY <1>2, <2>1 DEF Excused, RestoreSite, Down, Typed, Linked, history, Web
  <1>3. ASSUME NEW s \in Sites, PurgeSite(s) PROVE Down'
    <2>1. /\ completed'[s] = <<>> /\ site'[s] = "purged"
          /\ \A t \in Sites \ {s} : completed'[t] = completed[t] /\ url'[t] = url[t] /\ site'[t] = site[t]
          /\ UNCHANGED <<request, run, serving, Excused>>
      BY <1>3 DEF Excused, PurgeSite, Typed, TypeOK
    <2>2. Web(s)' = {} /\ \A t \in Sites \ {s} : Web(t)' = Web(t)
      BY <2>1 DEF Web, Completed
    <2>3. lost' \subseteq Excused'
      BY <1>3 DEF Excused, PurgeSite, Down, Web
    <2>4. \A t \in Sites : ~url'[t] \/ site'[t] = "deleted" => Web(t)' \subseteq Excused'
      BY <2>1, <2>2 DEF Down
    <2>5. \A t \in Sites : Web(t)' \subseteq Web(t)
      BY <2>2
    <2> QED BY <2>1, <2>3, <2>4, <2>5 DEF Down, Typed, Linked, Web
  <1>4. CASE RequestTakesDown \/ RequestSwallows
    <2>1. /\ \A t \in Sites : Web(t)' \subseteq Web(t)
          /\ Excused \subseteq Excused' /\ UNCHANGED <<site, url, run, lost>>
      BY <1>4, SameCompleted DEF Excused, Web, RequestTakesDown, RequestSwallows, Misses, history
    <2>2. request.pc = "delete" /\ request'.pc = "write" /\ request'.site = request.site
      BY <1>0, <1>4 DEF RequestTakesDown, RequestSwallows, Request
    <2>3. request.site \in Sites
      BY <2>2 DEF Typed, Linked
    <2>4. Web(request.site)' \subseteq Excused'
      BY <1>4, <2>1, <2>2, <2>3, SameCompleted
         DEF Excused, Down, Web, RequestTakesDown, RequestSwallows, Misses, history
    <2> QED BY <2>1, <2>2, <2>3, <2>4 DEF Down, Typed, Linked, Web
  <1>5. CASE RequestWrites
    <2>1. /\ \A t \in Sites : Web(t)' = Web(t) /\ (~url'[t] => ~url[t] \/ t = request.site)
          /\ UNCHANGED <<site, run, lost, Excused>>
      BY <1>5, SameCompleted DEF Excused, Web, RequestWrites, Typed, TypeOK, history
    <2>2. /\ request.pc = "write" /\ request'.pc \in {"remove", "idle"}
          /\ request'.pc = "remove" => request'.site = request.site
      BY <1>0, <1>5 DEF RequestWrites, Request, NoRequest
    <2>3. request.site \in Sites /\ Web(request.site) \subseteq Excused
      BY <2>2 DEF Typed, Linked, Down
    <2> QED BY <2>1, <2>2, <2>3 DEF Down, Typed, Linked, Web
  <1>6. CASE RequestRemoves
    <2>1. /\ \A t \in Sites : Web(t)' = Web(t) /\ (site'[t] = "deleted" => site[t] = "deleted" \/ t = request.site)
          /\ UNCHANGED <<url, run, lost, Excused>>
      BY <1>6, SameCompleted DEF Excused, Web, RequestRemoves, Typed, TypeOK, history
    <2>2. request.pc = "remove" /\ request'.pc = "idle"
      BY <1>6 DEF RequestRemoves, NoRequest
    <2>3. request.site \in Sites /\ Web(request.site) \subseteq Excused
      BY <2>2 DEF Typed, Linked, Down
    <2> QED BY <2>1, <2>2, <2>3 DEF Down, Typed, Linked, Web
  <1> QED BY <1>1, <1>2, <1>3, <1>4, <1>5, <1>6 DEF RequestGoes

\* A downgrade accounts for what serves of the sites it makes drafts.
LEMMA DowngradeDown ==
  ASSUME Typed, Down, DowngradeReads \/ DowngradeWrites \/ DowngradeDies
  PROVE  Down'
  <1>1. CASE DowngradeReads \/ DowngradeDies
    BY <1>1, QuietDown DEF Excused, DowngradeReads, DowngradeDies, history
  <1>2. CASE DowngradeWrites
    <2>1. /\ \A t \in Sites : Web(t)' = Web(t) /\ (~url'[t] => ~url[t] \/ t \in downgrade)
          /\ UNCHANGED <<site, request, run, lost>>
      BY <1>2, SameCompleted DEF Web, DowngradeWrites
    <2>2. Excused \subseteq Excused' /\ \A t \in downgrade : Web(t) \subseteq Excused'
      BY <1>2 DEF Excused, Web, DowngradeWrites
    <2> QED BY <2>1, <2>2 DEF Down, Typed, Linked, Web
  <1> QED BY <1>1, <1>2

LEMMA OwnerDown ==
  ASSUME Typed, Down,
         \/ ScheduleDeletion \/ CancelDeletion \/ ComesDue \/ Disconnect \/ Connect
         \/ \E c \in Subs : Pay(c) \/ PaymentIsTold(c)
  PROVE  Down'
  <1>1. UNCHANGED <<siteVars, serving, run, lost, Excused>>
    BY DEF Excused, ScheduleDeletion, CancelDeletion, ComesDue, Disconnect, Connect, Pay, PaymentIsTold, history
  <1> QED BY <1>1, QuietDown DEF siteVars

LEMMA RunDown ==
  ASSUME Typed, Down,
         RunGoes \/ RunStops \/ AccountIsDeleted \/ \E d \in Deployments : RunFailsToTakeDown(d)
  PROVE  Down'
  <1>0. run \in Run
    BY DEF Typed, TypeOK
  <1>1. CASE RunStarts \/ RunChecks \/ RunReadsSubscription \/ RunCancelsBilling \/ RunListsSites
             \/ RunKeeps \/ RunStops
    <2>1. run'.pc # "down"
      <3>1. CASE RunStarts \/ RunKeeps \/ RunStops
        BY <3>1 DEF RunStarts, RunKeeps, RunStops, NoRun
      <3>2. CASE RunChecks
        BY <1>0, <3>2 DEF RunChecks, Run, NoRun
      <3>3. CASE RunReadsSubscription \/ RunCancelsBilling \/ RunListsSites
        BY <1>0, <3>3 DEF RunReadsSubscription, RunCancelsBilling, RunListsSites, Run
      <3> QED BY <1>1, <3>1, <3>2, <3>3
    <2>2. UNCHANGED <<siteVars, serving, lost, Excused>>
      BY <1>1
         DEF Excused, RunStarts, RunChecks, RunReadsSubscription, RunCancelsBilling, RunListsSites, RunKeeps,
             RunStops, history
    <2> QED BY <2>1, <2>2, QuietDown DEF siteVars
  <1>2. ASSUME NEW s \in Sites, RunReadsSite(s) PROVE Down'
    <2>1. UNCHANGED <<siteVars, serving, lost, Excused>>
      BY <1>2 DEF Excused, RunReadsSite, history
    <2>2. run'.pc # "down" \/ (run'.site = s /\ run'.deps = Completed(s))
      BY <1>0, <1>2 DEF RunReadsSite, Run
    <2>3. CASE run'.pc # "down"
      BY <2>1, <2>3, QuietDown DEF siteVars
    <2>4. CASE run'.site = s /\ run'.deps = Completed(s)
      <3>1. \A t \in Sites : Web(t)' = Web(t)
        BY <2>1, SameCompleted DEF Web, siteVars
      <3>2. Web(s) \subseteq Completed(s)
        BY DEF Web
      <3> QED BY <2>1, <2>4, <3>1, <3>2 DEF Down, siteVars, Typed, Linked, Web
    <2> QED BY <2>2, <2>3, <2>4
  <1>3. ASSUME NEW d \in Deployments, RunTakesDown(d) \/ RunFailsToTakeDown(d) PROVE Down'
    <2>1. UNCHANGED <<siteVars, lost, Excused>> /\ run.pc = "down"
      BY <1>3 DEF Excused, RunTakesDown, RunFailsToTakeDown, history
    <2>2. \A t \in Sites : Web(t)' \subseteq Web(t) \ (IF RunTakesDown(d) THEN {d} ELSE {})
      BY <1>3, <2>1, SameCompleted DEF Web, siteVars, RunTakesDown, RunFailsToTakeDown
    <2>3. /\ run'.site = run.site
          /\ run'.siteFailed \/ (RunTakesDown(d) /\ run'.deps = run.deps \ {d} /\ run'.siteFailed = run.siteFailed)
      BY <1>0, <1>3 DEF RunTakesDown, RunFailsToTakeDown, Run
    <2>4. run.site \in Sites
      BY <2>1 DEF Typed, Linked
    <2>5. ~run'.siteFailed => Web(run.site)' \subseteq Excused \union run'.deps
      BY <2>1, <2>2, <2>3, <2>4 DEF Down
    <2> QED BY <2>1, <2>2, <2>3, <2>4, <2>5 DEF Down, siteVars, Typed, Linked, Web
  <1>4. CASE RunWritesSite
    <2>1. /\ \A t \in Sites : Web(t)' = Web(t)
          /\ run.pc = "down" /\ run.deps = {} /\ run.site \in Sites /\ run'.pc # "down"
          /\ UNCHANGED <<site, request, lost, Excused>>
      BY <1>0, <1>4, SameCompleted DEF Excused, Web, RunWritesSite, history, Run, Typed, Linked
    <2>2. \A t \in Sites : ~url'[t] => ~url[t] \/ (t = run.site /\ ~run.siteFailed)
      BY <1>4 DEF RunWritesSite, Typed, TypeOK
    <2> QED BY <2>1, <2>2 DEF Down, Typed, Linked, Web
  <1>5. CASE RunDeletes \/ AccountIsDeleted
    <2>1. /\ Cascade(ws') /\ UNCHANGED <<serving, lost, Excused>>
          /\ run'.pc # "down"
      BY <1>5 DEF Excused, RunDeletes, AccountIsDeleted, Cascade, history, NoRun
    <2>2. request'.pc = "idle" /\ \A t \in Sites : Web(t)' = {}
      BY <2>1 DEF Cascade, Web, Completed, NoRequest
    <2> QED BY <2>1, <2>2 DEF Down
  <1> QED BY <1>1, <1>2, <1>3, <1>4, <1>5 DEF RunGoes

LEMMA StepDown == Typed /\ Down /\ [Next]_vars => Down'
  <1> SUFFICES ASSUME Typed, Down, [Next]_vars PROVE Down'
    OBVIOUS
  <1>1. CASE UNCHANGED vars
    BY <1>1, QuietDown DEF Excused, vars, siteVars, history
  <1> QED BY <1>1, PublishDown, RequestDown, DowngradeDown, OwnerDown, RunDown DEF Next

LEMMA AlwaysDown == Spec => []Down
  <1>1. Init => Down
    BY DEF Init, Down, NoRequest, NoRun, Web, Completed
  <1> QED BY <1>1, StepDown, AlwaysTyped, PTL DEF Spec

\* No deployment of a draft serves, but those a take-down missed or a downgrade left.
THEOREM DraftsAreDown == Spec => []DraftIsDown
  <1>1. Down => DraftIsDown
    BY DEF Down, DraftIsDown, Web, Excused
  <1> QED BY <1>1, AlwaysDown, PTL

\* A purge loses no deployment but those a take-down missed or a downgrade left.
THEOREM PurgesLoseTheMissed == Spec => []LostWasMissed
  <1>1. Down => LostWasMissed
    BY DEF Down, LostWasMissed, Excused
  <1> QED BY <1>1, AlwaysDown, PTL

-----------------------------------------------------------------------------
(* Records: what serves is recorded, or its worker died, or its record was   *)
(* purged.  While a due run goes on no publish is in flight, and the sites   *)
(* it has done serve nothing.                                                *)

Recorded(d) ==
  \/ \E s \in Sites : d \in Completed(s) \/ (job[s].pc = "deployed" /\ d = job[s].dep)
  \/ d \in lost \union unrecorded

Swept ==
  /\ ws = "live" => \A d \in serving : Recorded(d)
  /\ ws = "gone" => serving \subseteq lost \union unrecorded
  /\ ws # "live" \/ schedule = "due" => \A s \in Sites : job[s].pc = "none"
  /\ ws # "live" => run.pc = "idle"
  /\ schedule = "due" /\ run.pc \in {"sites", "down"} /\ ~run.failed =>
       \A s \in Sites \ run.todo : (run.pc = "down" /\ s = run.site) \/ Web(s) = {}
  /\ schedule = "due" /\ run.pc = "down" /\ ~run.siteFailed => Web(run.site) \subseteq run.deps

LEMMA StepRecorded ==
  ASSUME Typed, Swept, ws = "live", ws' = "live", [Next]_vars, NEW d \in serving'
  PROVE  Recorded(d)'
  <1>1. CASE UNCHANGED <<job, completed, lost, unrecorded>> /\ serving' \subseteq serving
    BY <1>1, SameCompleted DEF Swept, Recorded
  <1>2. ASSUME NEW s \in Sites, StartPublish(s) \/ PublishFails(s) PROVE Recorded(d)'
    <2>1. /\ UNCHANGED <<completed, lost, unrecorded, serving>>
          /\ \A t \in Sites : job[t].pc = "deployed" => job'[t] = job[t]
      BY <1>2 DEF StartPublish, PublishFails, history, Typed, TypeOK
    <2>2. Recorded(d)
      BY <2>1 DEF Swept
    <2> QED BY <2>1, <2>2, SameCompleted DEF Recorded
  <1>3. ASSUME NEW s \in Sites, NEW e \in Deployments, Deploy(s, e) PROVE Recorded(d)'
    <2>1. /\ UNCHANGED <<completed, lost, unrecorded>> /\ serving' = serving \union {e}
          /\ job'[s].pc = "deployed" /\ job'[s].dep = e
          /\ \A t \in Sites : job[t].pc = "deployed" => job'[t] = job[t]
      BY <1>3 DEF Deploy, history, Typed, TypeOK
    <2>2. d = e \/ Recorded(d)
      BY <2>1 DEF Swept
    <2> QED BY <2>1, <2>2, SameCompleted DEF Recorded
  <1>4. ASSUME NEW s \in Sites, PublishLands(s) PROVE Recorded(d)'
    <2>1. /\ UNCHANGED <<lost, unrecorded, serving>>
          /\ \A t \in Sites \ {s} : job'[t] = job[t]
          /\ Completed(s)' = Completed(s) \union {job[s].dep}
          /\ \A t \in Sites \ {s} : Completed(t)' = Completed(t)
      BY <1>4, LandedCompleted DEF PublishLands, Typed, TypeOK
    <2>2. Recorded(d)
      BY <2>1 DEF Swept
    <2> QED BY <2>1, <2>2 DEF Recorded
  <1>5. ASSUME NEW s \in Sites, PublishDies(s) PROVE Recorded(d)'
    <2>1. /\ UNCHANGED <<completed, lost, serving>>
          /\ \A t \in Sites \ {s} : job'[t] = job[t]
          /\ unrecorded' = unrecorded \union {job[s].dep}
      BY <1>5 DEF PublishDies, Typed, TypeOK
    <2>2. Recorded(d)
      BY <2>1 DEF Swept
    <2> QED BY <2>1, <2>2, SameCompleted DEF Recorded
  <1>6. ASSUME NEW s \in Sites, PurgeSite(s) PROVE Recorded(d)'
    <2>1. /\ UNCHANGED <<unrecorded, serving, job>> /\ lost' = lost \union (Completed(s) \intersect serving)
          /\ \A t \in Sites \ {s} : completed'[t] = completed[t]
      BY <1>6 DEF PurgeSite, Typed, TypeOK
    <2>2. Recorded(d) /\ \A t \in Sites \ {s} : Completed(t)' = Completed(t)
      BY <2>1 DEF Swept, Completed
    <2> QED BY <2>1, <2>2 DEF Recorded
  <1>7. CASE \E s \in Sites : (\E removes \in BOOLEAN : RequestReads(s, removes)) \/ RestoreSite(s)
    BY <1>1, <1>7 DEF RequestReads, RestoreSite, history
  <1>8. CASE RequestGoes \/ RequestSwallows \/ ScheduleDeletion \/ CancelDeletion \/ ComesDue
             \/ Disconnect \/ Connect \/ (\E c \in Subs : Pay(c) \/ PaymentIsTold(c))
             \/ DowngradeReads \/ DowngradeWrites \/ DowngradeDies
    BY <1>1, <1>8
       DEF RequestGoes, RequestTakesDown, RequestWrites, RequestRemoves, RequestSwallows, siteVars, history,
           ScheduleDeletion, CancelDeletion, ComesDue, Disconnect, Connect, Pay, PaymentIsTold,
           DowngradeReads, DowngradeWrites, DowngradeDies
  <1>9. CASE RunGoes \/ RunStops \/ AccountIsDeleted \/ \E e \in Deployments : RunFailsToTakeDown(e)
    <2>1. ~RunDeletes /\ ~AccountIsDeleted
      BY DEF RunDeletes, AccountIsDeleted, Cascade
    <2> QED BY <1>1, <1>9, <2>1
        DEF RunGoes, RunStarts, RunChecks, RunReadsSubscription, RunCancelsBilling, RunListsSites,
            RunReadsSite, RunTakesDown, RunWritesSite, RunKeeps, RunStops, RunFailsToTakeDown,
            siteVars, history
  <1>10. CASE UNCHANGED vars
    BY <1>1, <1>10 DEF vars, siteVars, history
  <1> QED BY <1>2, <1>3, <1>4, <1>5, <1>6, <1>7, <1>8, <1>9, <1>10 DEF Next, WorkerGoes

\* The other parts, where neither the workspace, the schedule nor the run moves:
\* no job starts while a deletion is due, and nothing comes to serve.
LEMMA BesideSwept ==
  ASSUME Typed, Swept, [Next]_vars, UNCHANGED <<ws, run>>, schedule' = "due" => schedule = "due",
         ws # "live" \/ schedule = "due" => \A s \in Sites : job'[s].pc = "none" /\ Web(s)' \subseteq Web(s),
         ws # "live" => serving' \subseteq serving /\ lost \subseteq lost' /\ unrecorded \subseteq unrecorded'
  PROVE  Swept'
  <1>1. ws' = "live" => \A d \in serving' : Recorded(d)'
    BY StepRecorded
  <1>2. ws' = "gone" => serving' \subseteq lost' \union unrecorded'
    BY DEF Swept
  <1>3. ws' # "live" \/ schedule' = "due" => \A s \in Sites : job'[s].pc = "none"
    BY DEF Swept
  <1>4. schedule' = "due" /\ run.pc \in {"sites", "down"} /\ ~run.failed =>
          \A s \in Sites \ run.todo : (run.pc = "down" /\ s = run.site) \/ Web(s)' = {}
    BY DEF Swept
  <1>5. schedule' = "due" /\ run.pc = "down" /\ ~run.siteFailed => Web(run.site)' \subseteq run.deps
    BY DEF Swept, Typed, Linked
  <1> QED BY <1>1, <1>2, <1>3, <1>4, <1>5 DEF Swept, Web

LEMMA PublishSwept ==
  ASSUME Typed, Swept, [Next]_vars, NEW s \in Sites,
         \/ StartPublish(s) \/ WorkerGoes(s) \/ PublishDies(s)
         \/ \E d \in Deployments : Deploy(s, d)
  PROVE  Swept'
  <1>1. ws = "live" /\ schedule # "due" /\ UNCHANGED <<ws, schedule, run>>
    BY DEF StartPublish, WorkerGoes, PublishFails, PublishLands, PublishDies, Deploy, Swept
  <1> QED BY <1>1, BesideSwept

LEMMA RequestSwept ==
  ASSUME Typed, Swept, [Next]_vars,
         \/ \E s \in Sites : (\E removes \in BOOLEAN : RequestReads(s, removes)) \/ RestoreSite(s) \/ PurgeSite(s)
         \/ RequestGoes \/ RequestSwallows
  PROVE  Swept'
  <1>1. /\ UNCHANGED <<ws, schedule, run, job>> /\ serving' \subseteq serving
        /\ lost \subseteq lost' /\ UNCHANGED unrecorded
    BY DEF RequestReads, RestoreSite, PurgeSite, RequestGoes, RequestTakesDown, RequestWrites,
           RequestRemoves, RequestSwallows, history
  <1>2. \A t \in Sites : Completed(t)' \subseteq Completed(t)
    <2>1. CASE UNCHANGED completed
      BY <2>1, SameCompleted
    <2>2. ASSUME NEW s \in Sites, PurgeSite(s) PROVE \A t \in Sites : Completed(t)' \subseteq Completed(t)
      <3>1. completed'[s] = <<>> /\ \A t \in Sites \ {s} : completed'[t] = completed[t]
        BY <2>2 DEF PurgeSite, Typed, TypeOK
      <3> QED BY <3>1 DEF Completed
    <2> QED BY <2>1, <2>2
        DEF RequestReads, RestoreSite, RequestGoes, RequestTakesDown, RequestWrites, RequestRemoves,
            RequestSwallows
  <1> QED BY <1>1, <1>2, BesideSwept DEF Web, Swept

LEMMA OwnerSwept ==
  ASSUME Typed, Swept, [Next]_vars,
         \/ ScheduleDeletion \/ CancelDeletion \/ ComesDue \/ Disconnect \/ Connect
         \/ \E c \in Subs : Pay(c) \/ PaymentIsTold(c)
  PROVE  Swept'
  <1>1. UNCHANGED <<ws, run, job, completed, serving, lost, unrecorded>>
    BY DEF ScheduleDeletion, CancelDeletion, ComesDue, Disconnect, Connect, Pay, PaymentIsTold,
           siteVars, history
  <1>2. \A t \in Sites : Web(t)' = Web(t)
    BY <1>1, SameCompleted DEF Web
  <1>3. CASE ComesDue
    <2>1. run.pc = "idle" /\ \A s \in Sites : job[s].pc = "none"
      BY <1>3 DEF ComesDue, NoRun, NoJob
    <2> QED BY <1>1, <2>1, StepRecorded DEF Swept
  <1>4. CASE ~ComesDue
    <2>1. schedule' = "due" => schedule = "due"
      BY <1>4 DEF ScheduleDeletion, CancelDeletion, Disconnect, Connect, Pay, PaymentIsTold
    <2> QED BY <1>1, <1>2, <2>1, BesideSwept DEF Swept
  <1> QED BY <1>3, <1>4

LEMMA DowngradeSwept ==
  ASSUME Typed, Swept, [Next]_vars, DowngradeReads \/ DowngradeWrites \/ DowngradeDies
  PROVE  Swept'
  <1>1. UNCHANGED <<ws, schedule, run, job, completed, serving, lost, unrecorded>>
    BY DEF DowngradeReads, DowngradeWrites, DowngradeDies, history
  <1>2. \A t \in Sites : Web(t)' = Web(t)
    BY <1>1, SameCompleted DEF Web
  <1> QED BY <1>1, <1>2, BesideSwept DEF Swept

LEMMA RunSwept ==
  ASSUME Typed, Swept, [Next]_vars,
         RunGoes \/ RunStops \/ AccountIsDeleted \/ \E d \in Deployments : RunFailsToTakeDown(d)
  PROVE  Swept'
  <1>0. run \in Run
    BY DEF Typed, TypeOK
  <1>1. ASSUME UNCHANGED <<ws, schedule, job, completed, lost, unrecorded>>, serving' \subseteq serving,
               ws = "live",
               schedule = "due" /\ run'.pc \in {"sites", "down"} /\ ~run'.failed =>
                 \A s \in Sites \ run'.todo : (run'.pc = "down" /\ s = run'.site) \/ Web(s)' = {},
               schedule = "due" /\ run'.pc = "down" /\ ~run'.siteFailed => Web(run.site)' \subseteq run'.deps
        PROVE  Swept'
    BY <1>1, StepRecorded DEF Swept, Web
  <1>2. CASE RunStarts \/ RunChecks \/ RunReadsSubscription \/ RunCancelsBilling \/ RunKeeps \/ RunStops
    <2>1. run'.pc \notin {"sites", "down"}
      <3>1. CASE RunStarts \/ RunKeeps \/ RunStops
        BY <3>1 DEF RunStarts, RunKeeps, RunStops, NoRun
      <3>2. CASE RunChecks
        BY <1>0, <3>2 DEF RunChecks, Run, NoRun
      <3>3. CASE RunReadsSubscription \/ RunCancelsBilling
        BY <1>0, <3>3 DEF RunReadsSubscription, RunCancelsBilling, Run
      <3> QED BY <1>2, <3>1, <3>2, <3>3
    <2>2. UNCHANGED <<ws, schedule, job, completed, lost, unrecorded, serving>> /\ ws = "live"
      BY <1>2
         DEF RunStarts, RunChecks, RunReadsSubscription, RunCancelsBilling, RunKeeps, RunStops, Swept,
             siteVars, history
    <2> QED BY <1>1, <2>1, <2>2
  <1>3. CASE RunListsSites
    <2>1. /\ run'.pc = "sites" /\ run'.todo = {s \in Sites : completed[s] # <<>>}
          /\ UNCHANGED <<ws, schedule, job, completed, lost, unrecorded, serving>> /\ ws = "live"
      BY <1>0, <1>3 DEF RunListsSites, Run, Swept, siteVars, history
    <2>2. \A s \in Sites \ run'.todo : Web(s)' = {}
      BY <2>1, NoneCompleted, SameCompleted DEF Web
    <2> QED BY <1>1, <2>1, <2>2
  <1>4. ASSUME NEW s \in Sites, RunReadsSite(s) PROVE Swept'
    <2>1. /\ UNCHANGED <<ws, schedule, job, completed, lost, unrecorded, serving>> /\ ws = "live"
          /\ run.pc = "sites"
      BY <1>4 DEF RunReadsSite, Swept, siteVars, history
    <2>2. \A t \in Sites : Web(t)' = Web(t)
      BY <2>1, SameCompleted DEF Web
    <2>3. /\ run'.todo = run.todo \ {s}
          /\ \/ run'.pc = "sites" /\ run'.failed
             \/ run'.pc = "sites" /\ run'.failed = run.failed /\ completed[s] = <<>>
             \/ run'.pc = "down" /\ run'.site = s /\ run'.failed = run.failed /\ run'.deps = Completed(s)
      BY <1>0, <1>4, <2>1 DEF RunReadsSite, Run
    <2>4. completed[s] = <<>> => Web(s) = {}
      BY NoneCompleted DEF Web
    <2>5. schedule = "due" /\ run'.pc \in {"sites", "down"} /\ ~run'.failed =>
            \A t \in Sites \ run'.todo : (run'.pc = "down" /\ t = run'.site) \/ Web(t)' = {}
      BY <2>1, <2>2, <2>3, <2>4 DEF Swept
    <2>6. run'.pc = "down" => Web(run.site)' \subseteq run'.deps
      BY <2>2, <2>3 DEF Web
    <2> QED BY <1>1, <2>1, <2>5, <2>6
  <1>5. ASSUME NEW d \in Deployments, RunTakesDown(d) \/ RunFailsToTakeDown(d) PROVE Swept'
    <2>1. /\ UNCHANGED <<ws, schedule, job, completed, lost, unrecorded>> /\ ws = "live"
          /\ serving' \subseteq serving /\ run.pc = "down"
      BY <1>5 DEF RunTakesDown, RunFailsToTakeDown, Swept, siteVars, history
    <2>2. \A t \in Sites : Web(t)' \subseteq Web(t) \ (IF RunTakesDown(d) THEN {d} ELSE {})
      BY <1>5, <2>1, SameCompleted DEF Web, RunTakesDown, RunFailsToTakeDown
    <2>3. /\ run'.pc = "down" /\ run'.todo = run.todo /\ run'.site = run.site /\ run'.failed = run.failed
          /\ run'.siteFailed \/ (RunTakesDown(d) /\ run'.deps = run.deps \ {d} /\ run'.siteFailed = run.siteFailed)
      BY <1>0, <1>5, <2>1 DEF RunTakesDown, RunFailsToTakeDown, Run
    <2>4. run.site \in Sites
      BY <2>1 DEF Typed, Linked
    <2>5. schedule = "due" /\ ~run'.failed => \A t \in Sites \ run'.todo : t = run'.site \/ Web(t)' = {}
      BY <2>1, <2>2, <2>3 DEF Swept
    <2>6. schedule = "due" /\ ~run'.siteFailed => Web(run.site)' \subseteq run'.deps
      BY <2>1, <2>2, <2>3, <2>4 DEF Swept
    <2> QED BY <1>1, <2>1, <2>3, <2>5, <2>6
  <1>6. CASE RunWritesSite
    <2>1. /\ UNCHANGED <<ws, schedule, job, completed, lost, unrecorded, serving>> /\ ws = "live"
          /\ run.pc = "down" /\ run.deps = {}
      BY <1>6 DEF RunWritesSite, Swept, history
    <2>2. \A t \in Sites : Web(t)' = Web(t)
      BY <2>1, SameCompleted DEF Web
    <2>3. /\ run'.pc = "sites" /\ run'.todo = run.todo
          /\ ~run'.failed => ~run.failed /\ ~run.siteFailed
      BY <1>0, <1>6 DEF RunWritesSite, Run
    <2>4. schedule = "due" /\ ~run'.failed => \A t \in Sites \ run'.todo : Web(t)' = {}
      BY <2>1, <2>2, <2>3 DEF Swept
    <2> QED BY <1>1, <2>1, <2>3, <2>4
  <1>7. CASE RunDeletes
    <2>1. /\ ws = "live" /\ schedule = "due" /\ run.pc = "sites" /\ run.todo = {} /\ ~run.failed
          /\ ws' = "gone" /\ run' = NoRun /\ \A s \in Sites : job'[s] = NoJob
          /\ schedule' = "none" /\ UNCHANGED <<serving, lost, unrecorded>>
      BY <1>7 DEF RunDeletes, Cascade, history
    <2>2. \A d \in serving : d \in lost \union unrecorded
      BY <2>1 DEF Swept, Recorded, Web
    <2> QED BY <2>1, <2>2 DEF Swept, NoRun, NoJob
  <1>8. CASE AccountIsDeleted
    BY <1>8 DEF AccountIsDeleted, Cascade, Swept, NoJob
  <1> QED BY <1>2, <1>3, <1>4, <1>5, <1>6, <1>7, <1>8 DEF RunGoes

LEMMA StepSwept == Typed /\ Swept /\ [Next]_vars => Swept'
  <1> SUFFICES ASSUME Typed, Swept, [Next]_vars PROVE Swept'
    OBVIOUS
  <1>1. CASE UNCHANGED vars
    <2>1. UNCHANGED <<ws, run, job, completed, serving, lost, unrecorded, schedule>>
      BY <1>1 DEF vars, siteVars, history
    <2>2. \A t \in Sites : Web(t)' = Web(t)
      BY <2>1, SameCompleted DEF Web
    <2> QED BY <2>1, <2>2, BesideSwept DEF Swept
  <1> QED BY <1>1, PublishSwept, RequestSwept, OwnerSwept, DowngradeSwept, RunSwept DEF Next

\* The run deletes no workspace that serves what somebody could have taken down.
THEOREM RunsOrphanNothing == Spec => []RunOrphansNothing
  <1>1. Init => Swept
    BY DEF Init, Swept, NoRun, NoJob
  <1>2. Swept => RunOrphansNothing
    BY DEF Swept, RunOrphansNothing
  <1> QED BY <1>1, <1>2, StepSwept, AlwaysTyped, PTL DEF Spec
=============================================================================
