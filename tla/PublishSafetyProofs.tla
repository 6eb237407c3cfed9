------------------------- MODULE PublishSafetyProofs -------------------------
(***************************************************************************)
(* The types and the safety of the publish pipeline for any number of jobs, *)
(* workers and attempts.  First the types; then what one step can do to a   *)
(* row, to an invocation, and to a call; then the inductive invariant from  *)
(* these alone; then what follows.                                          *)
(***************************************************************************)
EXTENDS PublishInvariants, TLAPS

-----------------------------------------------------------------------------
(* The updates of one record keep its type.                                *)

\* Every statement on a row writes a row: the typed value of each of the
\* updates of startPublish, the worker, cancelPublish and the cron.
LEMMA RowUpdates ==
  ASSUME NEW r \in JobRow
  PROVE  /\ Building(r) \in JobRow /\ Deploying(r) \in JobRow /\ Recorded(r) \in JobRow
         /\ \A n \in Nat : Completed(r, n) \in JobRow
         /\ \A e \in Errors : Failed(r, e) \in JobRow
         /\ Pruned(r) \in JobRow /\ Cancelled(r) \in JobRow /\ Aged(r) \in JobRow
  <1> USE DEF JobRow, JobStatus, Active
  <1>1. Building(r) \in JobRow
    BY DEF Building, Ages
  <1>2. Deploying(r) \in JobRow /\ Recorded(r) \in JobRow
    BY DEF Deploying, Recorded
  <1>3. \A n \in Nat : Completed(r, n) \in JobRow
    BY DEF Completed
  <1>4. \A e \in Errors : Failed(r, e) \in JobRow
    BY DEF Failed
  <1>5. Pruned(r) \in JobRow /\ Cancelled(r) \in JobRow
    BY DEF Pruned, Cancelled
  <1>6. Aged(r) \in JobRow
    <2>1. \A a \in Ages : [r EXCEPT !.age = a] \in JobRow
      OBVIOUS
    <2>2. (IF r.age = "fresh" THEN "stale" ELSE "expired") \in Ages
      BY DEF Ages
    <2> QED BY <2>1, <2>2 DEF Aged
  <1> QED BY <1>1, <1>2, <1>3, <1>4, <1>5, <1>6

\* The row before its insert, and the row that the insert writes.
LEMMA NewRow ==
  /\ NoRow \in JobRow
  /\ \A b \in BOOLEAN : Queued(b) \in JobRow
  BY DEF Queued, NoRow, JobRow, JobStatus, Active, Ages, Errors

StartPcs == StartSteps \union {"idle", "returned", "refused"}

\* What a step of a startPublish call writes keeps the call's own state typed.
LEMMA StartUpdates ==
  ASSUME NEW s \in StartState, NEW pc \in StartPcs
  PROVE  /\ [s EXCEPT !.pc = pc] \in StartState
         /\ \A b \in BOOLEAN : [s EXCEPT !.pages = b, !.pc = pc] \in StartState
         /\ \A b \in BOOLEAN : [s EXCEPT !.pc = pc, !.url = b] \in StartState
         /\ [s EXCEPT !.tries = @ + 1, !.pc = pc] \in StartState
  <1>1. \A n \in Nat : [s EXCEPT !.tries = n, !.pc = pc] \in StartState
    BY DEF StartState, StartPcs
  <1>2. s.tries + 1 \in Nat
    BY DEF StartState
  <1> QED BY <1>1, <1>2 DEF StartState, StartPcs

BusyPcs == HoldingSteps \union {"read", "claim", "catch", "fail"}

\* An invocation that goes on keeps its job, and its state typed.
LEMMA WorkerUpdates ==
  ASSUME NEW s \in WorkerState, s # Free \/ s.pc # "free", NEW pc \in BusyPcs
  PROVE  /\ s.pc \in BusyPcs /\ s.job \in Jobs /\ s.url \in BOOLEAN
         /\ [s EXCEPT !.pc = pc] \in WorkerState
         /\ \A b \in BOOLEAN : [s EXCEPT !.pc = pc, !.url = b] \in WorkerState
  <1> DEFINE Busy == [pc: BusyPcs, job: Jobs, url: BOOLEAN]
  <1>1. WorkerState = {Free} \union Busy
    BY DEF WorkerState, BusyPcs
  <1>2. Free.pc = "free"
    BY DEF Free
  <1>3. s \in Busy
    BY <1>1, <1>2
  <1>4. s.pc \in BusyPcs /\ s.job \in Jobs /\ s.url \in BOOLEAN
    BY <1>3
  <1>5. [s EXCEPT !.pc = pc] \in Busy /\ \A b \in BOOLEAN : [s EXCEPT !.pc = pc, !.url = b] \in Busy
    BY <1>3
  <1> HIDE DEF Busy
  <1> QED BY <1>1, <1>4, <1>5

\* A free invocation slot, and one that a request has just taken.
LEMMA InvocationBegins ==
  /\ Free \in WorkerState
  /\ \A j \in Jobs : [Free EXCEPT !.pc = "read", !.job = j] \in WorkerState
  BY DEF WorkerState, Free

\* What the five writers put in the site's row is a site row.
LEMMA SiteUpdates ==
  ASSUME NEW s \in SiteRow
  PROVE  /\ \A st \in {"DRAFT", "PUBLISHING", "PUBLISHED", "ARCHIVED"} :
              [s EXCEPT !.status = st] \in SiteRow
         /\ \A b \in BOOLEAN : [s EXCEPT !.status = Fallback(b)] \in SiteRow
  BY DEF SiteRow, Fallback

-----------------------------------------------------------------------------
(* Type correctness.                                                       *)

\* The type invariant holds before anybody has published.
LEMMA InitType == Init => TypeOK
  <1> SUFFICES ASSUME Init PROVE TypeOK
    OBVIOUS
  <1> USE DEF Init
  <1>1. row \in [Jobs -> JobRow]
    BY NewRow
  <1>2. site \in SiteRow /\ cancel \in [Jobs -> CancelState] /\ sweep \in SweepState
    BY DEF SiteRow, CancelState, SweepState, NoSweep
  <1>3. start \in [Jobs -> StartState]
    BY DEF StartState
  <1>4. worker \in [Workers -> WorkerState]
    BY DEF WorkerState, Free
  <1> QED BY <1>1, <1>2, <1>3, <1>4 DEF TypeOK

\* No statement of startPublish leaves the types.
LEMMA StartTypes ==
  ASSUME TypeOK, NEW j \in Jobs, StartStep(j) \/ StartPublish(j)
  PROVE  TypeOK'
  <1> USE DEF TypeOK, StartGoes, StartPcs, StartSteps
  <1>1. CASE StartPublish(j)
    <2>1. PICK b \in BOOLEAN, pc \in {"refused", "strand"} :
            start' = [start EXCEPT ![j].pages = b, ![j].pc = pc]
      BY <1>1 DEF StartPublish
    <2> QED BY <1>1, <2>1, StartUpdates DEF StartPublish
  <1>2. CASE StrandStale(j)
    BY <1>2, StartUpdates, RowUpdates DEF StrandStale, Errors
  <1>3. CASE GateRefuses(j)
    BY <1>3, StartUpdates DEF GateRefuses
  <1>4. CASE GatePasses(j)
    BY <1>4, StartUpdates DEF GatePasses, SiteRow
  <1>5. CASE CreateJob(j)
    <2>1. start[j].pages \in BOOLEAN
      BY DEF StartState
    <2>2. row' \in [Jobs -> JobRow]
      BY <1>5, <2>1, NewRow DEF CreateJob
    <2>3. PICK pc \in {"refused", "mark"} : start' = [start EXCEPT ![j].pc = pc]
      BY <1>5 DEF CreateJob
    <2>4. start' \in [Jobs -> StartState]
      BY <2>3, StartUpdates
    <2> QED BY <1>5, <2>2, <2>4 DEF CreateJob
  <1>6. CASE MarkPublishing(j)
    BY <1>6, StartUpdates, SiteUpdates DEF MarkPublishing
  <1>7. CASE DispatchTaken(j)
    BY <1>7, StartUpdates, InvocationBegins DEF DispatchTaken, Invoke
  <1>8. CASE DispatchError(j)
    BY <1>8, StartUpdates, InvocationBegins DEF DispatchError, Invoke
  <1>9. CASE DispatchDenied(j)
    BY <1>9, StartUpdates DEF DispatchDenied
  <1>10. CASE Reclaim(j)
    <2>1. start[j].url \in BOOLEAN
      BY DEF StartState
    <2> QED BY <1>10, <2>1, StartUpdates, RowUpdates, SiteUpdates DEF Reclaim, Errors
  <1>11. CASE StartCrash(j)
    BY <1>11, StartUpdates DEF StartCrash
  <1> QED BY <1>1, <1>2, <1>3, <1>4, <1>5, <1>6, <1>7, <1>8, <1>9, <1>10, <1>11 DEF StartStep

\* An invocation that is busy has a job, and moves keep its type.
LEMMA WorkerMoves ==
  ASSUME TypeOK, NEW w \in Workers, worker[w] # Free \/ worker[w].pc # "free"
  PROVE  /\ worker[w].job \in Jobs
         /\ WorkerEnds(w) => worker' \in [Workers -> WorkerState]
         /\ \A pc \in BusyPcs : WorkerGoes(w, pc) => worker' \in [Workers -> WorkerState]
         /\ \A pc \in BusyPcs :
              StopIfCancelled(w, pc) => worker' \in [Workers -> WorkerState]
  <1>1. worker[w] \in WorkerState /\ worker \in [Workers -> WorkerState]
    BY DEF TypeOK
  <1>2. WorkerEnds(w) => worker' \in [Workers -> WorkerState]
    BY <1>1, InvocationBegins DEF WorkerEnds
  <1>3. \A pc \in BusyPcs : WorkerGoes(w, pc) => worker' \in [Workers -> WorkerState]
    BY <1>1, WorkerUpdates DEF WorkerGoes
  <1>4. worker[w].job \in Jobs
    <2>1. "read" \in BusyPcs
      BY DEF BusyPcs
    <2> QED BY <1>1, <2>1, WorkerUpdates
  <1> QED BY <1>2, <1>3, <1>4 DEF StopIfCancelled

\* No statement of the worker route leaves the types.
LEMMA WorkerTypes ==
  ASSUME TypeOK, NEW w \in Workers, WorkerStep(w)
  PROVE  TypeOK'
  <1> DEFINE j == worker[w].job
  <1>pcs. {"claim", "catch", "mark", "prepare", "deploy", "record", "verify",
           "complete", "prune", "fail"} \subseteq BusyPcs
    BY DEF BusyPcs, HoldingSteps
  <1>busy. worker[w] # Free \/ worker[w].pc # "free"
    BY DEF WorkerStep, WorkerRead, Claim, MarkDeploying, Prepare, Deploy, Record, Verify,
           Complete, Prune, WorkerThrows, HoldingSteps, CatchRead, CatchFail, WorkerCrash
  <1>job. j \in Jobs
    BY <1>busy, WorkerMoves
  <1>row. row \in [Jobs -> JobRow] /\ row[j] \in JobRow
    BY <1>job DEF TypeOK
  <1>1. CASE WorkerRead(w) \/ Prepare(w) \/ Verify(w) \/ WorkerThrows(w) \/ WorkerCrash(w)
    <2>1. worker' \in [Workers -> WorkerState]
      BY <1>1, <1>busy, <1>pcs, WorkerMoves DEF WorkerRead, Prepare, Verify, WorkerThrows, WorkerCrash
    <2> QED BY <1>1, <2>1 DEF WorkerRead, Prepare, Verify, WorkerThrows, WorkerCrash, TypeOK
  <1>2. CASE Claim(w)
    <2>1. worker' \in [Workers -> WorkerState]
      BY <1>2, <1>busy, <1>pcs, WorkerMoves DEF Claim
    <2>2. CASE Claimable(j)
      <3>1. row' = [row EXCEPT ![j] = Building(row[j])]
        BY <1>2, <2>2, <1>row, <1>job DEF Claim
      <3>2. row' \in [Jobs -> JobRow]
        BY <3>1, <1>row, <1>job, RowUpdates
      <3> QED BY <1>2, <2>1, <3>2 DEF Claim, TypeOK
    <2>3. CASE ~Claimable(j)
      BY <1>2, <2>1, <2>3 DEF Claim, TypeOK
    <2> QED BY <2>2, <2>3
  <1>3. CASE MarkDeploying(w)
    <2>1. worker' \in [Workers -> WorkerState]
      BY <1>3, <1>busy, <1>pcs, WorkerMoves DEF MarkDeploying
    <2>2. CASE ~SlotTaken(j)
      <3>1. row' = [row EXCEPT ![j] = Deploying(row[j])]
        BY <1>3, <2>2, <1>row, <1>job DEF MarkDeploying
      <3>2. row' \in [Jobs -> JobRow]
        BY <3>1, <1>row, <1>job, RowUpdates
      <3> QED BY <1>3, <2>1, <3>2 DEF MarkDeploying, TypeOK
    <2>3. CASE SlotTaken(j)
      BY <1>3, <2>1, <2>3 DEF MarkDeploying, TypeOK
    <2> QED BY <2>2, <2>3
  <1>4. CASE Deploy(w)
    <2>1. worker' \in [Workers -> WorkerState]
      BY <1>4, <1>busy, <1>pcs, WorkerMoves DEF Deploy
    <2>2. deployed' \subseteq Jobs
      BY <1>4, <1>job DEF Deploy, TypeOK
    <2> QED BY <1>4, <2>1, <2>2 DEF Deploy, TypeOK
  <1>5. CASE Record(w)
    <2>1. worker' \in [Workers -> WorkerState]
      BY <1>5, <1>busy, <1>pcs, WorkerMoves DEF Record
    <2>2. row' \in [Jobs -> JobRow]
      BY <1>5, <1>row, RowUpdates DEF Record
    <2> QED BY <1>5, <2>1, <2>2 DEF Record, TypeOK
  <1>6. CASE Complete(w)
    <2>1. worker' \in [Workers -> WorkerState]
      BY <1>6, <1>busy, <1>pcs, WorkerMoves DEF Complete
    <2>2. clock + 1 \in Nat
      BY DEF TypeOK
    <2>3. row' = [row EXCEPT ![j] = Completed(row[j], clock + 1)]
      BY <1>6, <1>row, <1>job DEF Complete
    <2>4. row' \in [Jobs -> JobRow]
      BY <2>3, <1>row, <2>2, RowUpdates
    <2>5. site' \in SiteRow
      BY <1>6 DEF Complete, SiteRow
    <2> QED BY <1>6, <2>1, <2>2, <2>4, <2>5 DEF Complete, TypeOK
  <1>7. CASE Prune(w)
    <2>1. worker' \in [Workers -> WorkerState]
      BY <1>7, <1>busy, <1>pcs, WorkerMoves DEF Prune
    <2>2. row' \in [Jobs -> JobRow]
      BY <1>7, <1>row, RowUpdates DEF Prune
    <2> QED BY <1>7, <2>1, <2>2 DEF Prune, TypeOK
  <1>8. CASE CatchRead(w)
    <2>1. worker[w] \in WorkerState /\ site.url \in BOOLEAN
      BY DEF TypeOK, SiteRow
    <2>2. worker' \in [Workers -> WorkerState]
      BY <1>8, <2>1, <1>busy, <1>pcs, WorkerUpdates DEF CatchRead, TypeOK
    <2> QED BY <1>8, <2>2 DEF CatchRead, TypeOK
  <1>9. CASE CatchFail(w)
    <2>1. worker' \in [Workers -> WorkerState]
      BY <1>9, <1>busy, <1>pcs, WorkerMoves DEF CatchFail
    <2>2. row' \in [Jobs -> JobRow]
      BY <1>9, <1>row, RowUpdates DEF CatchFail, Errors
    <2>3. worker[w].url \in BOOLEAN
      BY <1>busy, <1>pcs, WorkerUpdates DEF TypeOK
    <2>4. site' \in SiteRow
      BY <1>9, <2>3, SiteUpdates DEF CatchFail, TypeOK
    <2> QED BY <1>9, <2>1, <2>2, <2>4 DEF CatchFail, TypeOK
  <1> QED BY <1>1, <1>2, <1>3, <1>4, <1>5, <1>6, <1>7, <1>8, <1>9 DEF WorkerStep

\* Nor do a rollback, a cancel, the cron, the site's other writers, or time.
LEMMA OtherTypes ==
  ASSUME TypeOK, \/ \E j, target \in Jobs : RollbackPublish(j, target)
                 \/ \E j \in Jobs : CancelStep(j) \/ Age(j)
                 \/ SweepStep \/ SiteStep
  PROVE  TypeOK'
  <1> USE DEF TypeOK
  <1>1. ASSUME NEW j \in Jobs, NEW target \in Jobs, RollbackPublish(j, target)
        PROVE  TypeOK'
    <2>1. PICK pc \in {"refused", "strand"} :
            start' = [start EXCEPT ![j].pages = TRUE, ![j].pc = pc]
      BY <1>1 DEF RollbackPublish
    <2>2. start' \in [Jobs -> StartState]
      BY <2>1, StartUpdates DEF StartPcs, StartSteps
    <2> QED BY <1>1, <2>2 DEF RollbackPublish
  <1>2. ASSUME NEW j \in Jobs, CancelStep(j)
        PROVE  TypeOK'
    <2>1. CASE CancelRead(j)
      BY <2>1 DEF CancelRead, CancelState
    <2>2. CASE CancelWrite(j)
      <3>1. row' \in [Jobs -> JobRow]
        BY <2>2, RowUpdates DEF CancelWrite
      <3>2. site' \in SiteRow
        BY <2>2, SiteUpdates DEF CancelWrite
      <3> QED BY <2>2, <3>1, <3>2 DEF CancelWrite, CancelState
    <2>3. CASE CancelCrash(j)
      BY <2>3 DEF CancelCrash, CancelState
    <2> QED BY <1>2, <2>1, <2>2, <2>3 DEF CancelStep
  <1>3. ASSUME NEW j \in Jobs, Age(j)
        PROVE  TypeOK'
    BY <1>3, RowUpdates DEF Age
  <1>4. CASE SweepRead
    <2>1. site.url \in BOOLEAN
      BY DEF SiteRow
    <2>2. sweep' \in SweepState
      BY <1>4, <2>1 DEF SweepRead, SweepState
    <2> QED BY <1>4, <2>2 DEF SweepRead
  <1>5. CASE SweepWrite
    <2>1. sweep.job \in Jobs /\ sweep.url \in BOOLEAN
      BY <1>5 DEF SweepWrite, SweepState
    <2>2. row' \in [Jobs -> JobRow]
      BY <1>5, <2>1, RowUpdates DEF SweepWrite, Errors
    <2>3. site' \in SiteRow
      BY <1>5, <2>1, SiteUpdates DEF SweepWrite
    <2> QED BY <1>5, <2>2, <2>3 DEF SweepWrite, SweepState
  <1>6. CASE SweepCrash
    BY <1>6 DEF SweepCrash, SweepState
  <1>7. CASE UnpublishTakeDown
    <2>1. deployed' \subseteq Jobs /\ unpublish' \in BOOLEAN
      BY <1>7 DEF UnpublishTakeDown
    <2> QED BY <1>7, <2>1 DEF UnpublishTakeDown
  <1>8. CASE UnpublishWrite
    BY <1>8 DEF UnpublishWrite, SiteRow
  <1>9. CASE UnpublishCrash
    BY <1>9 DEF UnpublishCrash
  <1>10. CASE ArchiveSite \/ UnarchiveSite
    BY <1>10, SiteUpdates DEF ArchiveSite, UnarchiveSite
  <1> QED BY <1>1, <1>2, <1>3, <1>4, <1>5, <1>6, <1>7, <1>8, <1>9, <1>10
          DEF SweepStep, SiteStep

\* The type invariant is inductive on its own.
LEMMA TypeStep == TypeOK /\ [Next]_vars => TypeOK'
  <1> SUFFICES ASSUME TypeOK, [Next]_vars PROVE TypeOK'
    OBVIOUS
  <1>1. CASE Next
    BY <1>1, StartTypes, WorkerTypes, OtherTypes DEF Next
  <1>2. CASE UNCHANGED vars
    BY <1>2 DEF vars, TypeOK
  <1> QED BY <1>1, <1>2

\* Every variable keeps its type, whatever the processes do: for one, no
\* writer leaves a row in a status that is not one of the schema's.
THEOREM TypeCorrect == Spec => []TypeOK
  BY InitType, TypeStep, PTL DEF Spec

-----------------------------------------------------------------------------
(* The columns of an updated row.                                          *)

\* What each statement writes to the columns of a row.
LEMMA RowColumns ==
  ASSUME NEW r \in JobRow
  PROVE  /\ Building(r).status = "BUILDING" /\ Building(r).started
         /\ Building(r).age = "fresh"
         /\ Deploying(r).status = "DEPLOYING"
         /\ \A n : Completed(r, n).status = "COMPLETED" /\ Completed(r, n).completedAt = n
         /\ Recorded(r).deploymentId
         /\ Recorded(r).status = r.status /\ Pruned(r).status = r.status /\ Aged(r).status = r.status
         /\ ~Pruned(r).payload
         /\ \A e : Failed(r, e).status = "FAILED" /\ Failed(r, e).error = e /\ ~Failed(r, e).payload
         /\ Cancelled(r).status = "CANCELLED" /\ ~Cancelled(r).payload
         /\ Aged(r).age = IF r.age = "fresh" THEN "stale" ELSE "expired"
  BY DEF JobRow, Building, Deploying, Completed, Recorded, Pruned, Failed, Cancelled, Aged

\* What the statements on an active row leave alone.
LEMMA RowColumnsKept ==
  ASSUME NEW r \in JobRow
  PROVE  /\ Building(r).payload = r.payload /\ Building(r).deploymentId = r.deploymentId
         /\ Building(r).error = r.error /\ Building(r).completedAt = r.completedAt
         /\ Deploying(r).started = r.started /\ Deploying(r).age = r.age
         /\ Deploying(r).payload = r.payload /\ Deploying(r).deploymentId = r.deploymentId
         /\ Deploying(r).error = r.error /\ Deploying(r).completedAt = r.completedAt
         /\ Recorded(r).started = r.started /\ Recorded(r).age = r.age
         /\ Recorded(r).payload = r.payload
         /\ Recorded(r).error = r.error /\ Recorded(r).completedAt = r.completedAt
         /\ Pruned(r).started = r.started /\ Pruned(r).age = r.age
         /\ Pruned(r).deploymentId = r.deploymentId
         /\ Pruned(r).error = r.error /\ Pruned(r).completedAt = r.completedAt
         /\ Cancelled(r).started = r.started /\ Cancelled(r).age = r.age
         /\ Cancelled(r).deploymentId = r.deploymentId
         /\ Cancelled(r).error = r.error /\ Cancelled(r).completedAt = r.completedAt
         /\ Aged(r).started = r.started /\ Aged(r).payload = r.payload
         /\ Aged(r).deploymentId = r.deploymentId
         /\ Aged(r).error = r.error /\ Aged(r).completedAt = r.completedAt
  BY DEF JobRow, Building, Deploying, Recorded, Pruned, Cancelled, Aged

\* What the statements that end a row, and time, leave alone.
LEMMA RowColumnsKept2 ==
  ASSUME NEW r \in JobRow, NEW x
  PROVE  /\ Completed(r, x).started = r.started /\ Completed(r, x).age = r.age
         /\ Completed(r, x).payload = r.payload /\ Completed(r, x).deploymentId = r.deploymentId
         /\ Completed(r, x).error = r.error
         /\ Failed(r, x).started = r.started /\ Failed(r, x).age = r.age
         /\ Failed(r, x).deploymentId = r.deploymentId
         /\ Failed(r, x).completedAt = r.completedAt
  BY DEF JobRow, Completed, Failed

\* The columns of a row before and after its insert.
LEMMA NewRowColumns ==
  ASSUME NEW b \in BOOLEAN
  PROVE  /\ NoRow.status = "NONE" /\ ~NoRow.started /\ NoRow.age = "fresh" /\ ~NoRow.deploymentId
         /\ NoRow.error = "none" /\ NoRow.completedAt = 0
         /\ Queued(b).status = "QUEUED" /\ ~Queued(b).started /\ Queued(b).age = "fresh"
         /\ ~Queued(b).deploymentId /\ Queued(b).error = "none" /\ Queued(b).completedAt = 0
  BY DEF NoRow, Queued

-----------------------------------------------------------------------------
(* What a step can do to the row of a job.                                 *)

At(w, pc, j) == worker[w].pc = pc /\ worker[w].job = j
OthersSame(j) == \A k \in Jobs \ {j} : row'[k] = row[k]

RowQueued(j) ==
  /\ start[j].pc = "create" /\ start'[j].pc = "mark" /\ ~SlotTaken(j)
  /\ row'[j] = Queued(start[j].pages) /\ OthersSame(j)
RowClaimed(j) ==
  /\ Claimable(j) /\ row'[j] = Building(row[j])
  /\ \E w \in Workers : At(w, "claim", j)
RowDeploying(j) ==
  /\ ~SlotTaken(j) /\ row'[j] = Deploying(row[j]) /\ OthersSame(j)
  /\ \E w \in Workers : At(w, "mark", j)
RowRecorded(j) ==
  /\ row'[j] = Recorded(row[j])
  /\ \E w \in Workers : At(w, "record", j)
RowCompleted(j) ==
  /\ row'[j] = Completed(row[j], clock + 1)
  /\ \E w \in Workers : At(w, "complete", j)
RowPruned(j) == row[j].status = "COMPLETED" /\ row'[j] = Pruned(row[j])
RowAged(j) ==
  /\ IsActive(j) /\ row'[j] = Aged(row[j]) /\ UNCHANGED <<start, worker, sweep>>
  /\ start[j].pc \in {"returned", "refused"}
  /\ RunsFor(j) = {} \/ (row[j].status = "QUEUED" /\ row[j].age = "fresh")
RowFailed(j) ==
  \/ IsStranded(j) /\ row'[j] = Failed(row[j], "stranded")
  \/ start[j].pc = "reclaim" /\ row'[j] = Failed(row[j], "dispatch")
  \/ (\E w \in Workers : At(w, "fail", j)) /\ row'[j] = Failed(row[j], "worker")
  \/ sweep # NoSweep /\ sweep.job = j /\ row'[j] = Failed(row[j], "cron")
RowCancelled(j) == cancel[j] # "none" /\ row'[j] = Cancelled(row[j])

RowMove(j) ==
  \/ row'[j] = row[j]
  \/ RowQueued(j) \/ RowClaimed(j) \/ RowDeploying(j) \/ RowRecorded(j) \/ RowCompleted(j)
  \/ RowPruned(j) \/ RowAged(j) \/ RowFailed(j) \/ RowCancelled(j)

\* startPublish strands, inserts or reclaims a row, and does no more to it.
LEMMA StartRowMoves ==
  ASSUME TypeOK, NEW i \in Jobs, StartStep(i) \/ StartPublish(i), NEW j \in Jobs
  PROVE  RowMove(j)
  <1> row \in [Jobs -> JobRow] /\ start \in [Jobs -> StartState]
    BY DEF TypeOK
  <1>1. CASE StrandStale(i)
    BY <1>1 DEF StrandStale, RowMove, RowFailed
  <1>2. CASE CreateJob(i)
    <2>1. CASE SlotTaken(i)
      BY <1>2, <2>1 DEF CreateJob, RowMove
    <2>2. CASE ~SlotTaken(i)
      <3>1. row' = [row EXCEPT ![i] = Queued(start[i].pages)] /\ start' = [start EXCEPT ![i].pc = "mark"]
        BY <1>2, <2>2 DEF CreateJob, StartGoes
      <3>2. start'[i].pc = "mark"
        BY <3>1 DEF StartState
      <3> QED BY <1>2, <2>2, <3>1, <3>2 DEF CreateJob, RowMove, RowQueued, OthersSame
    <2> QED BY <2>1, <2>2
  <1>3. CASE Reclaim(i)
    BY <1>3 DEF Reclaim, RowMove, RowFailed
  <1> QED BY <1>1, <1>2, <1>3 DEF StartStep, StartPublish, GateRefuses, GatePasses, MarkPublishing,
             DispatchTaken, DispatchError, DispatchDenied, StartCrash, RowMove

\* The worker claims, deploys, records, completes, prunes or fails a row.
LEMMA WorkerRowMoves ==
  ASSUME TypeOK, NEW w \in Workers, WorkerStep(w), NEW j \in Jobs
  PROVE  RowMove(j)
  <1> row \in [Jobs -> JobRow]
    BY DEF TypeOK
  <1>1. CASE Claim(w)
    BY <1>1 DEF Claim, RowMove, RowClaimed, At
  <1>2. CASE MarkDeploying(w)
    BY <1>2 DEF MarkDeploying, RowMove, RowDeploying, At, OthersSame
  <1>3. CASE Record(w)
    BY <1>3 DEF Record, RowMove, RowRecorded, At
  <1>4. CASE Complete(w)
    BY <1>4 DEF Complete, RowMove, RowCompleted, At
  <1>5. CASE Prune(w)
    BY <1>5 DEF Prune, RowMove, RowPruned
  <1>6. CASE CatchFail(w)
    BY <1>6 DEF CatchFail, RowMove, RowFailed, At
  <1> QED BY <1>1, <1>2, <1>3, <1>4, <1>5, <1>6
          DEF WorkerStep, WorkerRead, Prepare, Deploy, Verify, WorkerThrows, CatchRead, WorkerCrash, RowMove

\* Every step of the system does one of the listed things to each row.
LEMMA RowMoves ==
  ASSUME TypeOK, [Next]_vars, NEW j \in Jobs
  PROVE  RowMove(j)
  <1> row \in [Jobs -> JobRow]
    BY DEF TypeOK
  <1>1. ASSUME NEW i \in Jobs, CancelStep(i)
        PROVE  RowMove(j)
    BY <1>1 DEF CancelStep, CancelRead, CancelWrite, CancelCrash, RowMove, RowCancelled
  <1>2. ASSUME NEW i \in Jobs, Age(i)
        PROVE  RowMove(j)
    BY <1>2 DEF Age, RowMove, RowAged
  <1>3. ASSUME NEW i \in Jobs, NEW target \in Jobs, RollbackPublish(i, target)
        PROVE  RowMove(j)
    BY <1>3 DEF RollbackPublish, RowMove
  <1>4. CASE SweepStep
    BY <1>4 DEF SweepStep, SweepRead, SweepWrite, SweepCrash, RowMove, RowFailed
  <1>5. CASE SiteStep
    BY <1>5 DEF SiteStep, UnpublishTakeDown, UnpublishWrite, UnpublishCrash, ArchiveSite,
                UnarchiveSite, RowMove
  <1>6. CASE UNCHANGED vars
    BY <1>6 DEF vars, RowMove
  <1> QED BY <1>1, <1>2, <1>3, <1>4, <1>5, <1>6, StartRowMoves, WorkerRowMoves DEF Next

-----------------------------------------------------------------------------
(* What a step can do to an invocation.                                    *)

WorkerStarts(w) ==
  /\ worker[w] = Free
  /\ worker'[w] # Free /\ worker'[w].pc = "read" /\ worker'[w].job \in Jobs
  /\ start[worker'[w].job].pc = "dispatch" /\ UNCHANGED row

WorkerGoesOn(w) ==
  /\ worker[w] # Free /\ worker'[w] # Free /\ worker'[w].job = worker[w].job
  /\ \A v \in Workers \ {w} : worker'[v] = worker[v]
  /\ \/ worker'[w].pc \in {"claim", "catch", "fail"}
     \/ /\ worker[w].pc = "claim" /\ worker'[w].pc = "mark" /\ Claimable(worker[w].job)
        /\ row'[worker[w].job] = Building(row[worker[w].job])
     \/ Holds(w) /\ worker'[w].pc \in {"prepare", "deploy", "record"}
     \/ /\ worker[w].pc = "record" /\ worker'[w].pc = "verify"
        /\ row'[worker[w].job] = Recorded(row[worker[w].job])
     \/ /\ worker[w].pc \in {"verify", "complete"} /\ worker'[w].pc \in {"complete", "prune"}

WorkerMove(w) ==
  \/ worker'[w] = worker[w]
  \/ worker'[w] = Free
  \/ WorkerStarts(w)
  \/ WorkerGoesOn(w)

\* An invocation slot is free or busy with a job; its pc tells which.
LEMMA FreeIsFree ==
  ASSUME TypeOK, NEW w \in Workers
  PROVE  /\ worker[w] = Free <=> worker[w].pc = "free"
         /\ worker[w] # Free => worker[w].job \in Jobs /\ worker[w].pc \in BusyPcs
         /\ worker[w] = Free => worker[w].job = NoJob
  <1>1. worker[w] \in WorkerState
    BY DEF TypeOK
  <1>2. Free.pc = "free" /\ Free.job = NoJob
    BY DEF Free
  <1>3. "read" \in BusyPcs /\ "free" \notin BusyPcs
    BY DEF BusyPcs, HoldingSteps
  <1> QED BY <1>1, <1>2, <1>3, WorkerUpdates

\* The fields of an invocation that goes on.
LEMMA WorkerGoesTo ==
  ASSUME TypeOK, NEW w \in Workers, NEW pc \in BusyPcs, worker[w].pc # "free", WorkerGoes(w, pc)
  PROVE  /\ worker[w] # Free /\ worker'[w] # Free
         /\ worker'[w].pc = pc /\ worker'[w].job = worker[w].job
         /\ \A v \in Workers \ {w} : worker'[v] = worker[v]
  <1>1. worker \in [Workers -> WorkerState] /\ worker[w] \in WorkerState
    BY DEF TypeOK
  <1>2. worker'[w] = [worker[w] EXCEPT !.pc = pc] /\ \A v \in Workers \ {w} : worker'[v] = worker[v]
    BY <1>1 DEF WorkerGoes
  <1>3. worker'[w].pc = pc /\ worker'[w].job = worker[w].job
    BY <1>1, <1>2 DEF WorkerState, Free
  <1>4. pc # "free" /\ Free.pc = "free"
    BY DEF BusyPcs, HoldingSteps, Free
  <1> QED BY <1>2, <1>3, <1>4

\* An invocation that ends leaves the others alone.
LEMMA WorkerEndsFree ==
  ASSUME TypeOK, NEW w \in Workers, WorkerEnds(w), NEW v \in Workers
  PROVE  worker'[v] = worker[v] \/ worker'[v] = Free
  BY DEF TypeOK, WorkerEnds

\* A step of the worker route moves an invocation in one of the listed ways.
LEMMA OwnWorkerMoves ==
  ASSUME TypeOK, NEW w \in Workers, WorkerStep(w), NEW v \in Workers
  PROVE  WorkerMove(v)
  <1>pcs. {"claim", "catch", "mark", "prepare", "deploy", "record", "verify",
           "complete", "prune", "fail"} \subseteq BusyPcs
    BY DEF BusyPcs, HoldingSteps
  <1> DEFINE j == worker[w].job
  <1>job. worker[w].pc # "free" => j \in Jobs /\ row \in [Jobs -> JobRow]
    BY FreeIsFree DEF TypeOK
  <1>end. ASSUME WorkerEnds(w) PROVE WorkerMove(v)
    BY <1>end, WorkerEndsFree DEF WorkerMove
  <1>go. ASSUME worker[w].pc # "free", NEW pc \in {"claim", "catch", "fail"}, WorkerGoes(w, pc)
         PROVE  WorkerMove(v)
    BY <1>go, <1>pcs, WorkerGoesTo DEF WorkerMove, WorkerGoesOn
  <1>on. ASSUME Holds(w), NEW pc \in {"prepare", "deploy", "record"}, WorkerGoes(w, pc)
         PROVE  WorkerMove(v)
    <2>1. worker[w].pc # "free"
      BY <1>on DEF Holds, HoldingSteps
    <2> QED BY <1>on, <2>1, <1>pcs, WorkerGoesTo DEF WorkerMove, WorkerGoesOn
  <1>1. CASE WorkerRead(w)
    BY <1>1, <1>end, <1>go DEF WorkerRead
  <1>2. CASE Claim(w)
    <2>1. CASE Claimable(j)
      <3>1. WorkerGoes(w, "mark") /\ row'[j] = Building(row[j]) /\ worker[w].pc = "claim"
        BY <1>2, <2>1, <1>job DEF Claim
      <3> QED BY <3>1, <2>1, <1>pcs, WorkerGoesTo DEF WorkerMove, WorkerGoesOn
    <2>2. CASE ~Claimable(j)
      BY <1>2, <2>2, <1>end DEF Claim
    <2> QED BY <2>1, <2>2
  <1>3. CASE MarkDeploying(w)
    BY <1>3, <1>go, <1>on DEF MarkDeploying, Holds, HoldingSteps
  <1>4. CASE Prepare(w)
    BY <1>4, <1>end, <1>go, <1>on DEF Prepare, StopIfCancelled, Holds, HoldingSteps
  <1>5. CASE Deploy(w)
    BY <1>5, <1>go, <1>on DEF Deploy, Holds, HoldingSteps
  <1>6. CASE Record(w)
    <2>1. row'[j] = Recorded(row[j]) /\ worker[w].pc = "record" /\ WorkerGoes(w, "verify")
      BY <1>6, <1>job DEF Record
    <2> QED BY <2>1, <1>pcs, WorkerGoesTo DEF WorkerMove, WorkerGoesOn
  <1>7. CASE Verify(w)
    <2>1. CASE WorkerGoes(w, "complete")
      BY <1>7, <2>1, <1>pcs, WorkerGoesTo DEF Verify, WorkerMove, WorkerGoesOn
    <2> QED BY <1>7, <2>1, <1>end, <1>go DEF Verify, StopIfCancelled
  <1>8. CASE Complete(w)
    BY <1>8, <1>pcs, WorkerGoesTo DEF Complete, WorkerMove, WorkerGoesOn
  <1>9. CASE Prune(w)
    BY <1>9, <1>end, <1>go DEF Prune
  <1>10. CASE CatchRead(w)
    <2>1. worker[w] \in WorkerState /\ worker \in [Workers -> WorkerState] /\ worker[w].pc = "catch"
      BY <1>10 DEF TypeOK, CatchRead
    <2>2. /\ worker'[w] = [worker[w] EXCEPT !.pc = "fail", !.url = site.url]
          /\ \A x \in Workers \ {w} : worker'[x] = worker[x]
      BY <1>10, <2>1 DEF CatchRead
    <2>3. worker'[w].pc = "fail" /\ worker'[w].job = worker[w].job
      BY <2>1, <2>2 DEF WorkerState, Free
    <2>4. worker[w] # Free /\ worker'[w] # Free
      BY <2>1, <2>3 DEF Free
    <2> QED BY <2>2, <2>3, <2>4 DEF WorkerMove, WorkerGoesOn
  <1>11. CASE CatchFail(w) \/ WorkerCrash(w)
    BY <1>11, <1>end DEF CatchFail, WorkerCrash
  <1>12. CASE WorkerThrows(w)
    BY <1>12, <1>go DEF WorkerThrows, HoldingSteps
  <1> QED BY <1>1, <1>2, <1>3, <1>4, <1>5, <1>6, <1>7, <1>8, <1>9, <1>10, <1>11, <1>12
          DEF WorkerStep

\* A request that arrives begins an invocation and touches no other.
LEMMA InvokeMoves ==
  ASSUME TypeOK, NEW i \in Jobs, start[i].pc = "dispatch", Invoke(i), UNCHANGED row,
         NEW v \in Workers
  PROVE  WorkerMove(v)
  <1>1. PICK w \in Workers : /\ worker[w] = Free
                             /\ worker' = [worker EXCEPT ![w] = [Free EXCEPT !.pc = "read", !.job = i]]
    BY DEF Invoke
  <1>2. worker \in [Workers -> WorkerState]
    BY DEF TypeOK
  <1>3. CASE v = w
    <2>1. worker'[v] = [Free EXCEPT !.pc = "read", !.job = i]
      BY <1>1, <1>2, <1>3
    <2>2. worker'[v].pc = "read" /\ worker'[v].job = i /\ Free.pc = "free"
      BY <2>1 DEF Free
    <2> QED BY <1>1, <1>3, <2>2 DEF WorkerMove, WorkerStarts
  <1>4. CASE v # w
    BY <1>1, <1>2, <1>4 DEF WorkerMove
  <1> QED BY <1>3, <1>4

\* Every step of the system moves each invocation in one of the listed ways.
LEMMA InvocationMoves ==
  ASSUME TypeOK, [Next]_vars, NEW v \in Workers
  PROVE  WorkerMove(v)
  <1>1. ASSUME NEW i \in Jobs, StartStep(i) \/ StartPublish(i)
        PROVE  WorkerMove(v)
    <2>1. CASE DispatchTaken(i) \/ DispatchError(i)
      BY <2>1, InvokeMoves DEF DispatchTaken, DispatchError, WorkerMove
    <2> QED BY <1>1, <2>1 DEF StartStep, StartPublish, StrandStale, GateRefuses, GatePasses, CreateJob,
               MarkPublishing, DispatchDenied, Reclaim, StartCrash, WorkerMove
  <1>2. ASSUME NEW i \in Jobs, CancelStep(i) \/ Age(i)
        PROVE  WorkerMove(v)
    BY <1>2 DEF CancelStep, CancelRead, CancelWrite, CancelCrash, Age, WorkerMove
  <1>3. ASSUME NEW i \in Jobs, NEW target \in Jobs, RollbackPublish(i, target)
        PROVE  WorkerMove(v)
    BY <1>3 DEF RollbackPublish, WorkerMove
  <1>4. CASE SweepStep \/ SiteStep \/ UNCHANGED vars
    BY <1>4 DEF SweepStep, SweepRead, SweepWrite, SweepCrash, SiteStep, UnpublishTakeDown,
                UnpublishWrite, UnpublishCrash, ArchiveSite, UnarchiveSite, vars, WorkerMove
  <1> QED BY <1>1, <1>2, <1>3, <1>4, OwnWorkerMoves DEF Next

-----------------------------------------------------------------------------
(* What a step can do to a call, to a cancel and to the sweep.              *)

StartMove(j) ==
  \/ start'[j].pc = start[j].pc
  \/ start'[j].pc = "refused"
  \/ start[j].pc \in Early /\ start'[j].pc \in Early
  \/ start[j].pc \notin Early /\ start'[j].pc \in {"dispatch", "reclaim", "returned"}
     /\ start[j].pc \notin {"returned", "refused"}
  \/ start[j].pc = "create" /\ RowQueued(j)

\* Every step of the system moves each startPublish call in a listed way.
LEMMA CallMoves ==
  ASSUME TypeOK, [Next]_vars, NEW j \in Jobs
  PROVE  StartMove(j)
  <1>1. start \in [Jobs -> StartState] /\ row \in [Jobs -> JobRow]
    BY DEF TypeOK
  <1>go. ASSUME NEW i \in Jobs, NEW pc, StartGoes(i, pc)
         PROVE  start'[j].pc = IF i = j THEN pc ELSE start[j].pc
    BY <1>1, <1>go DEF StartGoes, StartState
  <1>2. ASSUME NEW i \in Jobs, StartPublish(i) \/ \E target \in Jobs : RollbackPublish(i, target)
        PROVE  StartMove(j)
    <2>1. PICK b \in BOOLEAN, pc \in {"refused", "strand"} :
            start' = [start EXCEPT ![i].pages = b, ![i].pc = pc]
      BY <1>2 DEF StartPublish, RollbackPublish
    <2>2. start'[j].pc = IF i = j THEN pc ELSE start[j].pc
      BY <2>1, <1>1 DEF StartState
    <2>3. start[i].pc = "idle"
      BY <1>2 DEF StartPublish, RollbackPublish
    <2> QED BY <2>2, <2>3 DEF StartMove, Early
  <1>3. ASSUME NEW i \in Jobs, StartStep(i)
        PROVE  StartMove(j)
    <2>1. CASE StrandStale(i) \/ GateRefuses(i)
      BY <2>1, <1>go DEF StrandStale, GateRefuses, StartMove, Early
    <2>2. CASE GatePasses(i)
      <3>1. start'[j].pc = IF i = j THEN "create" ELSE start[j].pc
        BY <2>2, <1>1 DEF GatePasses, StartState
      <3> QED BY <2>2, <3>1 DEF GatePasses, StartMove, Early
    <2>3. CASE CreateJob(i)
      <3>1. CASE SlotTaken(i)
        BY <2>3, <3>1, <1>go DEF CreateJob, StartMove
      <3>2. CASE ~SlotTaken(i)
        <4>1. StartGoes(i, "mark") /\ row' = [row EXCEPT ![i] = Queued(start[i].pages)]
          BY <2>3, <3>2 DEF CreateJob
        <4>2. start'[j].pc = IF i = j THEN "mark" ELSE start[j].pc
          BY <4>1, <1>go
        <4>3. i = j => RowQueued(j)
          BY <2>3, <3>2, <4>1, <4>2, <1>1 DEF CreateJob, RowQueued, OthersSame
        <4> QED BY <2>3, <4>2, <4>3 DEF CreateJob, StartMove
      <3> QED BY <3>1, <3>2
    <2>4. CASE MarkPublishing(i) \/ DispatchTaken(i) \/ DispatchDenied(i)
      BY <2>4, <1>go DEF MarkPublishing, DispatchTaken, DispatchDenied, StartMove, Early
    <2>5. CASE DispatchError(i)
      <3>1. PICK pc \in {"dispatch", "reclaim"} :
              start' = [start EXCEPT ![i].tries = start[i].tries + 1, ![i].pc = pc]
        BY <2>5, <1>1 DEF DispatchError
      <3>2. start'[j].pc = IF i = j THEN pc ELSE start[j].pc
        BY <3>1, <1>1 DEF StartState
      <3> QED BY <2>5, <3>2 DEF DispatchError, StartMove, Early
    <2>6. CASE Reclaim(i) \/ StartCrash(i)
      BY <2>6, <1>go DEF Reclaim, StartCrash, StartMove
    <2> QED BY <1>3, <2>1, <2>2, <2>3, <2>4, <2>5, <2>6 DEF StartStep
  <1>4. ASSUME UNCHANGED start PROVE StartMove(j)
    BY <1>4 DEF StartMove
  <1>5. ASSUME NEW i \in Jobs, CancelStep(i) \/ Age(i)
        PROVE  UNCHANGED start
    BY <1>5 DEF CancelStep, CancelRead, CancelWrite, CancelCrash, Age
  <1>6. ASSUME SweepStep \/ SiteStep \/ UNCHANGED vars
        PROVE  UNCHANGED start
    BY <1>6 DEF SweepStep, SweepRead, SweepWrite, SweepCrash, SiteStep, UnpublishTakeDown,
                UnpublishWrite, UnpublishCrash, ArchiveSite, UnarchiveSite, vars
  <1>7. ASSUME NEW w \in Workers, WorkerStep(w)
        PROVE  UNCHANGED start
    BY <1>7 DEF WorkerStep, WorkerRead, Claim, MarkDeploying, Prepare, Deploy, Record, Verify,
                Complete, Prune, WorkerThrows, CatchRead, CatchFail,
           WorkerCrash
  <1> QED BY <1>2, <1>3, <1>4, <1>5, <1>6, <1>7 DEF Next

CancelMove(j) ==
  \/ cancel'[j] \in {cancel[j], "none"}
  \/ row[j].status # "NONE" /\ UNCHANGED row

SweepMove ==
  \/ sweep' \in {sweep, NoSweep}
  \/ /\ UNCHANGED <<row, worker, start>>
     /\ \E j \in Jobs : IsReapable(j) /\ sweep'.job = j

\* A cancelPublish reads a row that exists, then writes it or dies.
LEMMA CancelMoves ==
  ASSUME TypeOK, [Next]_vars, NEW j \in Jobs
  PROVE  CancelMove(j)
  <1>1. cancel \in [Jobs -> CancelState]
    BY DEF TypeOK
  <1>2. ASSUME NEW i \in Jobs, CancelStep(i)
        PROVE  CancelMove(j)
    BY <1>1, <1>2 DEF CancelStep, CancelRead, CancelWrite, CancelCrash, CancelMove
  <1>3. ASSUME NEW i \in Jobs, StartPublish(i) \/ StartStep(i) \/ Age(i)
               \/ \E target \in Jobs : RollbackPublish(i, target)
        PROVE  UNCHANGED cancel
    BY <1>3 DEF StartPublish, RollbackPublish, StartStep, StrandStale, GateRefuses, GatePasses,
                CreateJob, MarkPublishing, DispatchTaken, DispatchError, DispatchDenied, Reclaim,
                StartCrash, Age
  <1>4. ASSUME SweepStep \/ SiteStep \/ UNCHANGED vars
        PROVE  UNCHANGED cancel
    BY <1>4 DEF SweepStep, SweepRead, SweepWrite, SweepCrash, SiteStep, UnpublishTakeDown,
                UnpublishWrite, UnpublishCrash, ArchiveSite, UnarchiveSite, vars
  <1>5. ASSUME NEW w \in Workers, WorkerStep(w)
        PROVE  UNCHANGED cancel
    BY <1>5 DEF WorkerStep, WorkerRead, Claim, MarkDeploying, Prepare, Deploy, Record, Verify,
                Complete, Prune, WorkerThrows, CatchRead, CatchFail,
           WorkerCrash
  <1> QED BY <1>2, <1>3, <1>4, <1>5 DEF Next, CancelMove

\* The cron reads a reapable row, then writes it or dies.
LEMMA SweepMoves ==
  ASSUME TypeOK, [Next]_vars
  PROVE  SweepMove
  <1>1. CASE SweepStep
    <2>1. ASSUME SweepRead PROVE SweepMove
      <3>1. PICK j \in Jobs :
              /\ IsReapable(j)
              /\ sweep' = [job |-> j, publishing |-> site.status = "PUBLISHING", url |-> site.url]
        BY <2>1 DEF SweepRead
      <3>2. sweep'.job = j
        BY <3>1
      <3> QED BY <2>1, <3>1, <3>2 DEF SweepRead, SweepMove
    <2> QED BY <1>1, <2>1 DEF SweepStep, SweepWrite, SweepCrash, SweepMove
  <1>2. ASSUME NEW i \in Jobs, StartPublish(i) \/ StartStep(i) \/ Age(i) \/ CancelStep(i)
               \/ \E target \in Jobs : RollbackPublish(i, target)
        PROVE  UNCHANGED sweep
    BY <1>2 DEF StartPublish, RollbackPublish, StartStep, StrandStale, GateRefuses, GatePasses,
                CreateJob, MarkPublishing, DispatchTaken, DispatchError, DispatchDenied, Reclaim,
                StartCrash, Age, CancelStep, CancelRead, CancelWrite, CancelCrash
  <1>3. ASSUME SiteStep \/ UNCHANGED vars
        PROVE  UNCHANGED sweep
    BY <1>3 DEF SiteStep, UnpublishTakeDown, UnpublishWrite, UnpublishCrash, ArchiveSite,
                UnarchiveSite, vars
  <1>4. ASSUME NEW w \in Workers, WorkerStep(w)
        PROVE  UNCHANGED sweep
    BY <1>4 DEF WorkerStep, WorkerRead, Claim, MarkDeploying, Prepare, Deploy, Record, Verify,
                Complete, Prune, WorkerThrows, CatchRead, CatchFail,
           WorkerCrash
  <1> QED BY <1>1, <1>2, <1>3, <1>4 DEF Next, SweepMove

-----------------------------------------------------------------------------
(* The columns of a row after a step.                                      *)

\* A startPublish call knows whether it has pages.
LEMMA PagesAreBoolean == ASSUME TypeOK, NEW j \in Jobs PROVE start[j].pages \in BOOLEAN
  BY DEF TypeOK, StartState

\* The status changes only in these ways.
LEMMA StatusMoves ==
  ASSUME TypeOK, NEW j \in Jobs, RowMove(j)
  PROVE  \/ row'[j].status = row[j].status
         \/ RowQueued(j) /\ row'[j].status = "QUEUED"
         \/ RowClaimed(j) /\ row'[j].status = "BUILDING"
         \/ RowDeploying(j) /\ row'[j].status = "DEPLOYING"
         \/ RowCompleted(j) /\ row'[j].status = "COMPLETED"
         \/ row'[j].status \in {"FAILED", "CANCELLED"}
  <1>1. row[j] \in JobRow /\ start[j].pages \in BOOLEAN
    BY PagesAreBoolean DEF TypeOK
  <1> QED BY <1>1, RowColumns, NewRowColumns
          DEF RowMove, RowQueued, RowClaimed, RowDeploying, RowRecorded, RowCompleted, RowPruned,
              RowAged, RowFailed, RowCancelled

\* Only the insert and the claim touch startedAt, and only they and time the age.
LEMMA StartedMoves ==
  ASSUME TypeOK, NEW j \in Jobs, RowMove(j)
  PROVE  /\ \/ row'[j].started = row[j].started
            \/ RowQueued(j) /\ ~row'[j].started
            \/ RowClaimed(j) /\ row'[j].started
         /\ \/ row'[j].age = row[j].age
            \/ row'[j].age = "fresh" /\ (RowQueued(j) \/ RowClaimed(j))
            \/ RowAged(j) /\ row'[j].age = IF row[j].age = "fresh" THEN "stale" ELSE "expired"
  <1>1. row[j] \in JobRow /\ start[j].pages \in BOOLEAN
    BY PagesAreBoolean DEF TypeOK
  <1> QED BY <1>1, RowColumns, RowColumnsKept, RowColumnsKept2, NewRowColumns
          DEF RowMove, RowQueued, RowClaimed, RowDeploying, RowRecorded, RowCompleted, RowPruned,
              RowAged, RowFailed, RowCancelled

\* A recorded deployment stays recorded unless the row is inserted anew, and
\* only the completion sets completedAt.
LEMMA RecordMoves ==
  ASSUME TypeOK, NEW j \in Jobs, RowMove(j)
  PROVE  /\ \/ row'[j].deploymentId = row[j].deploymentId
            \/ row'[j].deploymentId
            \/ RowQueued(j)
         /\ \/ row'[j].completedAt = row[j].completedAt
            \/ RowQueued(j) /\ row'[j].completedAt = 0
            \/ RowCompleted(j) /\ row'[j].completedAt = clock + 1
  <1>1. row[j] \in JobRow /\ start[j].pages \in BOOLEAN
    BY PagesAreBoolean DEF TypeOK
  <1> QED BY <1>1, RowColumns, RowColumnsKept, RowColumnsKept2, NewRowColumns
          DEF RowMove, RowQueued, RowClaimed, RowDeploying, RowRecorded, RowCompleted, RowPruned,
              RowAged, RowFailed, RowCancelled

\* The payload only ever goes away; the error names who failed the row last.
LEMMA PayloadMoves ==
  ASSUME TypeOK, NEW j \in Jobs, RowMove(j)
  PROVE  /\ \/ row'[j].payload = row[j].payload
            \/ RowQueued(j)
            \/ ~row'[j].payload
         /\ row'[j].status \in {"FAILED", "CANCELLED"} =>
              row'[j].status = row[j].status \/ ~row'[j].payload
         /\ \/ row'[j].error = row[j].error
            \/ RowQueued(j) /\ row'[j].error = "none"
            \/ RowFailed(j) /\ row'[j].status = "FAILED" /\ row'[j].age = row[j].age
               /\ \/ row'[j].error = "stranded" /\ IsStranded(j)
                  \/ row'[j].error = "cron" /\ sweep # NoSweep /\ sweep.job = j
                  \/ row'[j].error \in {"dispatch", "worker"}
  <1>1. row[j] \in JobRow /\ start[j].pages \in BOOLEAN
    BY PagesAreBoolean DEF TypeOK
  <1> QED BY <1>1, RowColumns, RowColumnsKept, RowColumnsKept2, NewRowColumns
          DEF RowMove, RowQueued, RowClaimed, RowDeploying, RowRecorded, RowCompleted, RowPruned,
              RowAged, RowFailed, RowCancelled

-----------------------------------------------------------------------------
(* The inductive invariant, from the moves alone.                          *)

Moves ==
  /\ \A j \in Jobs : RowMove(j) /\ StartMove(j) /\ CancelMove(j)
  /\ \A w \in Workers : WorkerMove(w)
  /\ SweepMove

\* All the classifications at once: what the safety lemmas below start from.
LEMMA EveryStepMoves == TypeOK /\ [Next]_vars => Moves
  BY RowMoves, InvocationMoves, CallMoves, CancelMoves, SweepMoves DEF Moves

\* The sweep is at a job, or at none.
LEMMA SweepType == ASSUME TypeOK PROVE sweep # NoSweep => sweep.job \in Jobs
  BY DEF TypeOK, SweepState

\* A job becomes active by a statement that the index checks, and no other
\* row changes with it.
LEMMA OneActiveJobStep ==
  ASSUME TypeOK, Moves, OneActiveJob
  PROVE  OneActiveJob'
  <1>1. ASSUME NEW j \in Jobs, IsActive(j)', ~IsActive(j)
        PROVE  ~SlotTaken(j) /\ OthersSame(j)
    BY <1>1, StatusMoves DEF Moves, IsActive, Active, RowQueued, RowDeploying, RowClaimed, Claimable
  <1>2. ASSUME NEW j \in Jobs, NEW k \in Jobs, IsActive(j)', IsActive(k)'
        PROVE  j = k
    <2>1. CASE IsActive(j) /\ IsActive(k)
      BY <2>1 DEF OneActiveJob
    <2>2. CASE ~IsActive(j) /\ j # k
      <3>1. row'[k] = row[k] /\ ~IsActive(k)
        BY <1>1, <1>2, <2>2 DEF SlotTaken, OthersSame
      <3> QED BY <3>1, <1>2 DEF IsActive
    <2>3. CASE ~IsActive(k) /\ j # k
      <3>1. row'[j] = row[j] /\ ~IsActive(j)
        BY <1>1, <1>2, <2>3 DEF SlotTaken, OthersSame
      <3> QED BY <3>1, <1>2 DEF IsActive
    <2> QED BY <2>1, <2>2, <2>3
  <1> QED BY <1>2 DEF OneActiveJob, IsActive

\* An invocation that holds its job after the step held it before, or claims
\* it in this step, alone.
LEMMA HoldersMove ==
  ASSUME TypeOK, Moves, NEW w \in Workers, Holds(w)'
  PROVE  /\ worker[w] # Free /\ worker'[w].job = worker[w].job /\ worker[w].job \in Jobs
         /\ \/ Holds(w)
            \/ /\ Claimable(worker[w].job)
               /\ row'[worker[w].job] = Building(row[worker[w].job])
               /\ \A v \in Workers \ {w} : worker'[v] = worker[v]
  <1>1. WorkerMove(w) /\ worker'[w].pc \in HoldingSteps /\ Free.pc = "free"
    BY DEF Moves, Holds, Free
  <1>2. worker[w] # Free
    BY <1>1, FreeIsFree DEF WorkerMove, WorkerStarts, WorkerGoesOn, HoldingSteps
  <1>3. worker[w].job \in Jobs
    BY <1>2, FreeIsFree
  <1> QED BY <1>1, <1>2, <1>3 DEF WorkerMove, WorkerStarts, WorkerGoesOn, Holds, HoldingSteps

\* An invocation gets past the claim by claiming, and no claim is undone.
LEMMA HoldersClaimedStep ==
  ASSUME TypeOK, Moves, HoldersClaimed, NoRowNoReference
  PROVE  HoldersClaimed'
  <1>1. ASSUME NEW j \in Jobs, row'[j].status \in {"NONE", "QUEUED"}
        PROVE  ~row'[j].started
    <2>1. RowMove(j) /\ row[j] \in JobRow
      BY DEF Moves, TypeOK
    <2>2. ~RowClaimed(j)
      BY <1>1, <2>1, RowColumns DEF RowClaimed
    <2>3. row'[j].started = row[j].started \/ ~row'[j].started
      BY <2>1, <2>2, StartedMoves
    <2>4. row'[j].status = row[j].status \/ RowQueued(j)
      BY <1>1, <2>1, StatusMoves
    <2>5. RowQueued(j) => ~row'[j].started
      BY NewRowColumns, PagesAreBoolean DEF RowQueued
    <2> QED BY <1>1, <2>3, <2>4, <2>5 DEF HoldersClaimed
  <1>2. ASSUME NEW w \in Workers, Holds(w)'
        PROVE  row'[worker'[w].job].started
    <2> DEFINE j == worker[w].job
    <2>1. j \in Jobs /\ worker'[w].job = j /\ row[j] \in JobRow
      BY <1>2, HoldersMove DEF TypeOK
    <2>2. CASE Holds(w)
      <3>1. row[j].started
        BY <2>2 DEF HoldersClaimed
      <3>2. row[j].status # "NONE"
        BY <2>1, <3>1 DEF HoldersClaimed
      <3>3. ~RowQueued(j)
        BY <2>1, <3>2 DEF RowQueued, NoRowNoReference, Early
      <3> QED BY <2>1, <3>1, <3>3, StartedMoves DEF Moves
    <2>3. CASE ~Holds(w)
      BY <1>2, <2>1, <2>3, HoldersMove, RowColumns
    <2> QED BY <2>2, <2>3
  <1> QED BY <1>1, <1>2 DEF HoldersClaimed, Holds

\* Two requests for the same job: the second finds it out of QUEUED.
LEMMA ExclusiveClaimStep ==
  ASSUME TypeOK, Moves, HoldersClaimed, ExclusiveClaim
  PROVE  ExclusiveClaim'
  <1>1. ASSUME NEW v \in Workers, NEW w \in Workers, Holds(v)', Holds(w)',
               worker'[v].job = worker'[w].job, ~Holds(w)
        PROVE  v = w
    <2> SUFFICES ASSUME v # w PROVE FALSE
      OBVIOUS
    <2>1. Claimable(worker[w].job) /\ worker'[v] = worker[v] /\ worker[w].job \in Jobs
      BY <1>1, HoldersMove
    <2>2. Holds(v) /\ worker[v].job = worker[w].job
      BY <1>1, <2>1, HoldersMove DEF Holds
    <2> QED BY <2>1, <2>2 DEF HoldersClaimed, Claimable
  <1>2. ASSUME NEW v \in Workers, NEW w \in Workers, Holds(v), Holds(w), Holds(v)', Holds(w)',
               worker'[v].job = worker'[w].job
        PROVE  v = w
    BY <1>2, HoldersMove DEF ExclusiveClaim
  <1> QED BY <1>1, <1>2 DEF ExclusiveClaim, Holds

\* Only the insert makes a job known to anybody but its own call.
LEMMA NoRowNoReferenceStep ==
  ASSUME TypeOK, Moves, NoRowNoReference
  PROVE  NoRowNoReference'
  <1> SUFFICES ASSUME NEW j \in Jobs
               PROVE  /\ start'[j].pc \in Early => row'[j].status = "NONE"
                      /\ row'[j].status = "NONE" =>
                           /\ row'[j] = NoRow
                           /\ start'[j].pc \in Early \union {"refused"}
                           /\ cancel'[j] = "none"
                           /\ sweep'.job # j
                           /\ \A w \in Workers : worker'[w].job # j
    BY DEF NoRowNoReference
  <1>0. RowMove(j) /\ StartMove(j) /\ CancelMove(j) /\ SweepMove
    BY DEF Moves
  <1>1. ASSUME row[j].status = "NONE", ~RowQueued(j)
        PROVE  row'[j] = row[j]
    <2>1. /\ row[j] = NoRow /\ start[j].pc \in Early \union {"refused"}
          /\ cancel[j] = "none" /\ sweep.job # j
          /\ \A w \in Workers : worker[w].job # j
      BY <1>1 DEF NoRowNoReference
    <2>2. /\ ~RowClaimed(j) /\ ~RowDeploying(j) /\ ~RowRecorded(j) /\ ~RowCompleted(j)
          /\ ~RowPruned(j) /\ ~RowAged(j) /\ ~RowFailed(j) /\ ~RowCancelled(j)
      BY <1>1, <2>1
         DEF RowClaimed, RowDeploying, RowRecorded, RowCompleted, RowPruned, RowAged, RowFailed,
             RowCancelled, At, IsActive, Active, IsStranded, Claimable, Early
    <2> QED BY <1>0, <1>1, <2>2 DEF RowMove
  <1>2. start'[j].pc \in Early => row'[j].status = "NONE"
    <2>1. start'[j].pc \in Early => start[j].pc \in Early /\ ~RowQueued(j)
      BY <1>0 DEF StartMove, Early, RowQueued
    <2> QED BY <2>1, <1>1 DEF NoRowNoReference
  <1>3. ASSUME row'[j].status = "NONE"
        PROVE  row[j].status = "NONE" /\ ~RowQueued(j)
    <2>1. row'[j].status # "QUEUED"
      BY <1>3
    <2>2. ~RowQueued(j)
      BY <2>1, NewRowColumns, PagesAreBoolean DEF RowQueued
    <2> QED BY <1>0, <1>3, <2>2, StatusMoves
  <1>4. ASSUME row'[j].status = "NONE"
        PROVE  /\ row'[j] = NoRow
               /\ start'[j].pc \in Early \union {"refused"}
               /\ cancel'[j] = "none"
               /\ sweep'.job # j
    <2>1. /\ row[j] = NoRow /\ start[j].pc \in Early \union {"refused"}
          /\ cancel[j] = "none" /\ sweep.job # j /\ row[j].status = "NONE" /\ ~RowQueued(j)
      BY <1>3, <1>4 DEF NoRowNoReference
    <2>2. row'[j] = NoRow
      BY <2>1, <1>1
    <2>3. start'[j].pc \in Early \union {"refused"}
      BY <1>0, <2>1 DEF StartMove, Early
    <2>4. cancel'[j] = "none"
      BY <1>0, <2>1 DEF CancelMove
    <2>5. NoSweep.job # j
      BY NoJobAssumption DEF NoSweep
    <2>6. sweep'.job # j
      BY <1>0, <2>1, <2>5 DEF SweepMove, IsReapable, IsActive, Active
    <2> QED BY <2>2, <2>3, <2>4, <2>6
  <1>5. ASSUME row'[j].status = "NONE", NEW w \in Workers
        PROVE  worker'[w].job # j
    <2>1. worker[w].job # j /\ start[j].pc \in Early \union {"refused"} /\ WorkerMove(w)
      BY <1>3, <1>5 DEF NoRowNoReference, Moves
    <2>2. Free.job # j
      BY NoJobAssumption DEF Free
    <2> QED BY <2>1, <2>2 DEF WorkerMove, WorkerStarts, WorkerGoesOn, Early
  <1> QED BY <1>2, <1>4, <1>5

\* At its insert a job has no invocation yet.
LEMMA InsertIsFirst ==
  ASSUME NoRowNoReference, NEW j \in Jobs, RowQueued(j)
  PROVE  row[j] = NoRow /\ \A w \in Workers : worker[w].job # j
  BY DEF NoRowNoReference, RowQueued, Early

\* A row ages only after its invocations are gone, and none comes back.
LEMMA OldRowsAbandonedStep ==
  ASSUME TypeOK, Moves, NoRowNoReference, HoldersClaimed, OldRowsAbandoned
  PROVE  OldRowsAbandoned'
  <1> SUFFICES ASSUME NEW j \in Jobs
               PROVE  /\ row'[j].age # "fresh" =>
                           /\ start'[j].pc \in {"returned", "refused"}
                           /\ \A w \in Workers : worker'[w].job = j => ~Holds(w)'
                      /\ row'[j].age = "expired" => \A w \in Workers : worker'[w].job # j
    BY DEF OldRowsAbandoned, Holds
  <1>0. RowMove(j) /\ StartMove(j) /\ row[j] \in JobRow
    BY DEF Moves, TypeOK
  <1>1. ASSUME row'[j].age # "fresh"
        PROVE  \/ row[j].age # "fresh" /\ row'[j].age \in {row[j].age, "expired"}
               \/ RowAged(j)
    BY <1>0, <1>1, StartedMoves
  <1>2. ASSUME row'[j].age # "fresh"
        PROVE  start[j].pc \in {"returned", "refused"}
    BY <1>1, <1>2 DEF RowAged, OldRowsAbandoned
  <1>3. ASSUME row'[j].age # "fresh"
        PROVE  start'[j].pc \in {"returned", "refused"}
    BY <1>0, <1>2, <1>3 DEF StartMove, Early
  <1>4. ASSUME row'[j].age # "fresh", NEW w \in Workers, worker'[w].job = j, Holds(w)'
        PROVE  FALSE
    <2>1. worker[w].job = j /\ Holds(w)
      BY <1>0, <1>4, HoldersMove, RowColumns
    <2>2. RowAged(j)
      BY <1>1, <1>4, <2>1 DEF OldRowsAbandoned
    <2>3. row[j].status = "QUEUED"
      BY <2>1, <2>2 DEF RowAged, RunsFor
    <2> QED BY <2>1, <2>3 DEF HoldersClaimed
  <1>5. ASSUME row'[j].age = "expired", NEW w \in Workers
        PROVE  worker'[w].job # j
    <2>1. row'[j].age # "fresh" /\ start[j].pc # "dispatch"
      BY <1>2, <1>5
    <2>2. CASE RowAged(j) /\ row'[j].age # row[j].age
      <3>1. row'[j].age = IF row[j].age = "fresh" THEN "stale" ELSE "expired"
        BY <1>0, <2>2, RowColumns DEF RowAged
      <3>2. row[j].age # "fresh"
        BY <1>5, <3>1
      <3>3. worker[w].job # j /\ worker'[w] = worker[w]
        BY <2>2, <3>2 DEF RowAged, RunsFor
      <3> QED BY <3>3
    <2>3. CASE row'[j].age = row[j].age
      <3>1. worker[w].job # j /\ WorkerMove(w)
        BY <1>5, <2>3 DEF OldRowsAbandoned, Moves
      <3>2. Free.job # j
        BY NoJobAssumption DEF Free
      <3> QED BY <2>1, <3>1, <3>2 DEF WorkerMove, WorkerStarts, WorkerGoesOn
    <2>4. row'[j].age = row[j].age \/ RowAged(j)
      BY <1>0, <2>1, StartedMoves
    <2> QED BY <2>2, <2>3, <2>4
  <1> QED BY <1>3, <1>4, <1>5

\* A row does not get younger without an invocation.
LEMMA AgeKept ==
  ASSUME TypeOK, Moves, NoRowNoReference, NEW j \in Jobs, row[j].age # "fresh", ~RowClaimed(j)
  PROVE  row'[j].age # "fresh" /\ (row[j].age = "expired" => row'[j].age = "expired")
  <1>1. RowMove(j)
    BY DEF Moves
  <1>2. ~RowQueued(j)
    BY InsertIsFirst, NewRowColumns
  <1> QED BY <1>1, <1>2, StartedMoves

\* Nobody rejuvenates the row between the cron's read and its write.
LEMMA SweepStillRightStep ==
  ASSUME TypeOK, Moves, NoRowNoReference, OldRowsAbandoned, SweepStillRight
  PROVE  SweepStillRight'
  <1> SUFFICES ASSUME sweep' # NoSweep
               PROVE  row'[sweep'.job].age = "expired"
    BY DEF SweepStillRight
  <1>1. CASE sweep' = sweep
    <2> DEFINE j == sweep.job
    <2>1. j \in Jobs /\ row[j].age = "expired"
      BY <1>1, SweepType DEF SweepStillRight
    <2>2. ~RowClaimed(j)
      BY <2>1 DEF OldRowsAbandoned, RowClaimed, At
    <2> QED BY <1>1, <2>1, <2>2, AgeKept
  <1>2. CASE sweep' # sweep
    BY <1>2 DEF Moves, SweepMove, IsReapable
  <1> QED BY <1>1, <1>2

\* A swept row can still be failed or cancelled once more, and no worse.
LEMMA SweptRowsOldStep ==
  ASSUME TypeOK, Moves, NoRowNoReference, OldRowsAbandoned, SweepStillRight, SweptRowsOld
  PROVE  SweptRowsOld'
  <1> SUFFICES ASSUME NEW j \in Jobs, row'[j].error \in {"stranded", "cron"}
               PROVE  row'[j].age # "fresh" /\ row'[j].status \in {"FAILED", "CANCELLED"}
    BY DEF SweptRowsOld
  <1>0. RowMove(j)
    BY DEF Moves
  <1>1. CASE row'[j].error = row[j].error
    <2>1. row[j].age # "fresh" /\ row[j].status \in {"FAILED", "CANCELLED"}
      BY <1>1 DEF SweptRowsOld
    <2>2. ~RowClaimed(j) /\ ~RowQueued(j)
      BY <2>1, InsertIsFirst, NewRowColumns DEF RowClaimed, Claimable
    <2>3. ~RowDeploying(j) /\ ~RowCompleted(j)
      BY <2>1 DEF OldRowsAbandoned, RowDeploying, RowCompleted, At, Holds, HoldingSteps
    <2> QED BY <1>0, <2>1, <2>2, <2>3, AgeKept, StatusMoves
  <1>2. CASE row'[j].error # row[j].error
    <2>1. /\ row'[j].status = "FAILED" /\ row'[j].age = row[j].age
          /\ IsStranded(j) \/ (sweep # NoSweep /\ sweep.job = j)
      BY <1>0, <1>2, PayloadMoves
    <2>2. row[j].age # "fresh"
      BY <2>1 DEF IsStranded, SweepStillRight
    <2> QED BY <2>1, <2>2
  <1> QED BY <1>1, <1>2

\* An invocation records the deployment before it goes on.
LEMMA VerifiedIsRecordedStep ==
  ASSUME TypeOK, Moves, NoRowNoReference, VerifiedIsRecorded
  PROVE  VerifiedIsRecorded'
  <1> SUFFICES ASSUME NEW w \in Workers, worker'[w].pc \in {"verify", "complete", "prune"}
               PROVE  row'[worker'[w].job].deploymentId
    BY DEF VerifiedIsRecorded
  <1> DEFINE j == worker[w].job
  <1>1. Holds(w)'
    BY DEF Holds, HoldingSteps
  <1>2. worker'[w].job = j /\ j \in Jobs /\ RowMove(j) /\ row[j] \in JobRow /\ WorkerMove(w)
    BY <1>1, HoldersMove DEF Moves, TypeOK
  <1>3. CASE worker[w].pc \in {"verify", "complete", "prune"}
    <2>1. row[j].deploymentId
      BY <1>3 DEF VerifiedIsRecorded
    <2>2. ~RowQueued(j)
      BY <1>2, InsertIsFirst
    <2> QED BY <1>2, <2>1, <2>2, RecordMoves
  <1>4. CASE worker[w].pc \notin {"verify", "complete", "prune"}
    <2>1. row'[j] = Recorded(row[j])
      BY <1>2, <1>4 DEF WorkerMove, WorkerStarts, WorkerGoesOn, Free
    <2> QED BY <1>2, <2>1, RowColumns
  <1> QED BY <1>3, <1>4

\* Every statement that ends a row as failed or cancelled drops its payload.
LEMMA NoHtmlAtRestStep ==
  ASSUME TypeOK, Moves, NoHtmlAtRest
  PROVE  NoHtmlAtRest'
  <1> SUFFICES ASSUME NEW j \in Jobs, row'[j].status \in {"FAILED", "CANCELLED"}
               PROVE  ~row'[j].payload
    BY DEF NoHtmlAtRest
  <1>1. RowMove(j)
    BY DEF Moves
  <1>2. ~RowQueued(j)
    BY NewRowColumns, PagesAreBoolean DEF RowQueued
  <1> QED BY <1>1, <1>2, PayloadMoves DEF NoHtmlAtRest

\* Only an invocation that recorded its deployment completes a job.
LEMMA CompletedIsRecordedStep ==
  ASSUME TypeOK, Moves, HoldersClaimed, VerifiedIsRecorded, CompletedIsRecorded
  PROVE  CompletedIsRecorded'
  <1> SUFFICES ASSUME NEW j \in Jobs, row'[j].completedAt > 0
               PROVE  row'[j].deploymentId /\ row'[j].started
    BY DEF CompletedIsRecorded
  <1>1. RowMove(j)
    BY DEF Moves
  <1>2. ~RowQueued(j)
    BY NewRowColumns, PagesAreBoolean DEF RowQueued
  <1>3. row[j].deploymentId /\ row[j].started
    <2>1. CASE row'[j].completedAt = row[j].completedAt
      BY <2>1 DEF CompletedIsRecorded
    <2>2. CASE RowCompleted(j)
      BY <2>2 DEF RowCompleted, At, VerifiedIsRecorded, HoldersClaimed, Holds, HoldingSteps
    <2> QED BY <1>1, <1>2, <2>1, <2>2, RecordMoves
  <1> QED BY <1>1, <1>2, <1>3, RecordMoves, StartedMoves

-----------------------------------------------------------------------------
(* The belief that the site was published.                                 *)

\* A completion is never forgotten, whatever the row's status becomes.
LEMMA CompletedForEver ==
  ASSUME TypeOK, Moves, NoRowNoReference, SomeCompleted
  PROVE  SomeCompleted'
  <1>1. PICK j \in Jobs : row[j].completedAt > 0
    BY DEF SomeCompleted
  <1>2. RowMove(j) /\ ~RowQueued(j)
    <2>1. NoRow.completedAt = 0
      BY DEF NoRow
    <2> QED BY <1>1, <2>1, InsertIsFirst DEF Moves
  <1>3. clock + 1 > 0
    BY DEF TypeOK
  <1>4. row'[j].completedAt > 0
    BY <1>1, <1>2, <1>3, RecordMoves
  <1> QED BY <1>4 DEF SomeCompleted

\* A site falls back to PUBLISHED only on a publishedUrl.
LEMMA FallbackBelief == \A url : Fallback(url) = "PUBLISHED" => url
  BY DEF Fallback

\* startPublish takes its belief that the site was published from the site.
LEMMA StartBelief ==
  ASSUME TypeOK, NEW j \in Jobs, StartStep(j) \/ StartPublish(j), BelievedPublished'
  PROVE  BelievedPublished
  <1>1. start \in [Jobs -> StartState] /\ worker \in [Workers -> WorkerState] /\ site \in SiteRow
    BY DEF TypeOK
  <1>site. (site'.status = "PUBLISHED" \/ site'.url) => BelievedPublished
    <2>1. CASE MarkPublishing(j)
      BY <2>1, <1>1 DEF MarkPublishing, SiteRow, BelievedPublished
    <2>2. CASE Reclaim(j)
      <3>1. site'.status = Fallback(start[j].url) /\ site'.url = site.url
        BY <2>2, <1>1 DEF Reclaim, SiteRow
      <3> QED BY <3>1, FallbackBelief DEF BelievedPublished
    <2>3. CASE UNCHANGED site
      BY <2>3 DEF BelievedPublished
    <2> QED BY <2>1, <2>2, <2>3 DEF StartStep, StartPublish, StrandStale, GateRefuses, GatePasses,
               CreateJob, DispatchTaken, DispatchError, DispatchDenied, StartCrash
  <1>start. (\E k \in Jobs : start'[k].url) => BelievedPublished
    <2> SUFFICES ASSUME NEW k \in Jobs, start'[k].url PROVE BelievedPublished
      OBVIOUS
    <2>1. CASE GatePasses(j)
      <3>1. start'[k].url = IF k = j THEN site.url ELSE start[k].url
        BY <2>1, <1>1 DEF GatePasses, StartState
      <3> QED BY <3>1 DEF BelievedPublished
    <2>2. ASSUME NEW pc, StartGoes(j, pc) PROVE start'[k].url = start[k].url
      BY <2>2, <1>1 DEF StartGoes, StartState
    <2>3. CASE StartPublish(j)
      <3>1. PICK b \in BOOLEAN, pc \in {"refused", "strand"} :
              start' = [start EXCEPT ![j].pages = b, ![j].pc = pc]
        BY <2>3 DEF StartPublish
      <3>2. start'[k].url = start[k].url
        BY <3>1, <1>1 DEF StartState
      <3> QED BY <3>2 DEF BelievedPublished
    <2>4. CASE DispatchError(j)
      <3>1. PICK pc \in {"dispatch", "reclaim"} :
              start' = [start EXCEPT ![j].tries = start[j].tries + 1, ![j].pc = pc]
        BY <2>4, <1>1 DEF DispatchError
      <3>2. start'[k].url = start[k].url
        BY <3>1, <1>1 DEF StartState
      <3> QED BY <3>2 DEF BelievedPublished
    <2>5. CASE CreateJob(j)
      <3>1. start'[k].url = start[k].url
        BY <2>5, <2>2 DEF CreateJob
      <3> QED BY <3>1 DEF BelievedPublished
    <2>6. CASE StrandStale(j) \/ GateRefuses(j) \/ MarkPublishing(j) \/ DispatchTaken(j)
               \/ DispatchDenied(j) \/ Reclaim(j) \/ StartCrash(j)
      <3>1. start'[k].url = start[k].url
        BY <2>6, <2>2 DEF StrandStale, GateRefuses, MarkPublishing, DispatchTaken, DispatchDenied,
                          Reclaim, StartCrash
      <3> QED BY <3>1 DEF BelievedPublished
    <2> QED BY <2>1, <2>3, <2>4, <2>5, <2>6 DEF StartStep
  <1>worker. (\E w \in Workers : worker'[w].url) => BelievedPublished
    <2> SUFFICES ASSUME NEW w \in Workers, worker'[w].url PROVE BelievedPublished
      OBVIOUS
    <2>1. CASE Invoke(j)
      <3>1. PICK x \in Workers : worker' = [worker EXCEPT ![x] = [Free EXCEPT !.pc = "read", !.job = j]]
        BY <2>1 DEF Invoke
      <3>2. ~[Free EXCEPT !.pc = "read", !.job = j].url
        BY DEF Free
      <3>3. worker'[w] = worker[w]
        BY <3>1, <3>2, <1>1
      <3> QED BY <3>3 DEF BelievedPublished
    <2>2. CASE UNCHANGED worker
      BY <2>2 DEF BelievedPublished
    <2> QED BY <2>1, <2>2 DEF StartStep, StartPublish, StrandStale, GateRefuses, GatePasses,
               CreateJob, MarkPublishing, DispatchTaken, DispatchError, DispatchDenied, Reclaim,
               StartCrash
  <1>same. UNCHANGED <<cancel, sweep>>
    BY DEF StartStep, StartPublish, StrandStale, GateRefuses, GatePasses, CreateJob, MarkPublishing,
           DispatchTaken, DispatchError, DispatchDenied, Reclaim, StartCrash
  <1> QED BY <1>site, <1>start, <1>worker, <1>same DEF BelievedPublished

\* What an invocation believes after it moves on, and after its catch read.
LEMMA WorkerUrl ==
  ASSUME NEW s \in WorkerState, NEW pc, NEW url
  PROVE  [s EXCEPT !.pc = pc].url = s.url /\ [s EXCEPT !.pc = pc, !.url = url].url = url
  <1>1. CASE s = Free
    BY <1>1 DEF Free
  <1>2. CASE s \in [pc: HoldingSteps \union {"read", "claim", "catch", "fail"}, job: Jobs, url: BOOLEAN]
    BY <1>2
  <1> QED BY <1>1, <1>2 DEF WorkerState

\* The worker makes the site PUBLISHED by completing a job, or by a belief.
LEMMA WorkerBelief ==
  ASSUME TypeOK, NEW w \in Workers, WorkerStep(w), BelievedPublished'
  PROVE  BelievedPublished \/ Complete(w)
  <1>1. worker \in [Workers -> WorkerState] /\ site \in SiteRow
    BY DEF TypeOK
  <1>free. ~Free.url
    BY DEF Free
  <1>site. (site'.status = "PUBLISHED" \/ site'.url) => BelievedPublished \/ Complete(w)
    <2>1. CASE CatchFail(w)
      <3>1. site'.status = Fallback(worker[w].url) /\ site'.url = site.url
        BY <2>1, <1>1 DEF CatchFail, SiteRow
      <3> QED BY <3>1, FallbackBelief DEF BelievedPublished
    <2>2. CASE UNCHANGED site
      BY <2>2 DEF BelievedPublished
    <2> QED BY <2>1, <2>2 DEF WorkerStep, WorkerRead, Claim, MarkDeploying, Prepare, Deploy, Record,
               Verify, Prune, WorkerThrows, CatchRead, WorkerCrash
  <1>worker. (\E v \in Workers : worker'[v].url) => BelievedPublished
    <2> SUFFICES ASSUME NEW v \in Workers, worker'[v].url PROVE BelievedPublished
      OBVIOUS
    <2>1. CASE CatchRead(w)
      <3>2. worker' = [worker EXCEPT ![w] = [worker[w] EXCEPT !.pc = "fail", !.url = site.url]]
        BY <2>1, <1>1 DEF CatchRead
      <3>3. worker[w] \in WorkerState
        BY <1>1
      <3>4. [worker[w] EXCEPT !.pc = "fail", !.url = site.url].url = site.url
        BY <3>3, WorkerUrl
      <3>5. worker'[v].url = IF v = w THEN site.url ELSE worker[v].url
        BY <3>2, <3>4, <1>1
      <3> QED BY <3>5 DEF BelievedPublished
    <2>2. CASE WorkerEnds(w)
      <3>1. worker'[v] = worker[v]
        BY <2>2, <1>1, <1>free DEF WorkerEnds
      <3> QED BY <3>1 DEF BelievedPublished
    <2>3. ASSUME NEW pc, WorkerGoes(w, pc) PROVE worker'[v].url = worker[v].url
      <3>1. worker' = [worker EXCEPT ![w] = [worker[w] EXCEPT !.pc = pc]] /\ worker[w] \in WorkerState
        BY <2>3, <1>1 DEF WorkerGoes
      <3> QED BY <3>1, <1>1, WorkerUrl
    <2>4. worker'[v].url = worker[v].url => BelievedPublished
      BY DEF BelievedPublished
    <2> QED BY <2>1, <2>2, <2>3, <2>4
            DEF WorkerStep, WorkerRead, Claim, MarkDeploying, Prepare, Deploy, Record, Verify,
                Complete, Prune, WorkerThrows, CatchFail, WorkerCrash, StopIfCancelled
  <1>same. UNCHANGED <<start, cancel, sweep>>
    BY DEF WorkerStep, WorkerRead, Claim, MarkDeploying, Prepare, Deploy, Record, Verify,
           Complete, Prune, WorkerThrows, CatchRead, CatchFail,
           WorkerCrash
  <1> QED BY <1>site, <1>worker, <1>same DEF BelievedPublished

\* A cancel, the cron and the site's other writers only pass a belief on.
LEMMA OtherBelief ==
  ASSUME TypeOK, \/ \E j, target \in Jobs : RollbackPublish(j, target)
                 \/ \E j \in Jobs : CancelStep(j) \/ Age(j)
                 \/ SweepStep \/ SiteStep \/ UNCHANGED vars,
         BelievedPublished'
  PROVE  BelievedPublished
  <1>1. start \in [Jobs -> StartState] /\ cancel \in [Jobs -> CancelState] /\ site \in SiteRow
    BY DEF TypeOK
  <1>2. ASSUME NEW j \in Jobs, NEW target \in Jobs, RollbackPublish(j, target)
        PROVE  BelievedPublished
    <2>1. PICK pc \in {"refused", "strand"} :
            start' = [start EXCEPT ![j].pages = TRUE, ![j].pc = pc]
      BY <1>2 DEF RollbackPublish
    <2>2. \A k \in Jobs : start'[k].url = start[k].url
      BY <2>1, <1>1 DEF StartState
    <2> QED BY <1>2, <2>2 DEF RollbackPublish, BelievedPublished
  <1>3. ASSUME NEW j \in Jobs, CancelRead(j) PROVE BelievedPublished
    <2>1. \A k \in Jobs : cancel'[k] = "url" => cancel[k] = "url" \/ site.url
      BY <1>3, <1>1 DEF CancelRead
    <2> QED BY <1>3, <2>1 DEF CancelRead, BelievedPublished
  <1>4. ASSUME NEW j \in Jobs, CancelWrite(j) PROVE BelievedPublished
    <2>1. site'.status = Fallback(cancel[j] = "url") /\ site'.url = site.url
      BY <1>4, <1>1 DEF CancelWrite, SiteRow
    <2>2. \A k \in Jobs : cancel'[k] = "url" => cancel[k] = "url"
      BY <1>4, <1>1 DEF CancelWrite
    <2> QED BY <1>4, <2>1, <2>2, FallbackBelief DEF CancelWrite, BelievedPublished
  <1>5. ASSUME NEW j \in Jobs, CancelCrash(j) \/ Age(j) PROVE BelievedPublished
    <2>1. \A k \in Jobs : cancel'[k] = "url" => cancel[k] = "url"
      BY <1>5, <1>1 DEF CancelCrash, Age
    <2> QED BY <1>5, <2>1 DEF CancelCrash, Age, BelievedPublished
  <1>6. CASE SweepRead
    <2>1. sweep'.url => site.url
      BY <1>6 DEF SweepRead
    <2> QED BY <1>6, <2>1 DEF SweepRead, BelievedPublished
  <1>7. CASE SweepWrite
    <2>1. /\ ~sweep'.url /\ site'.url = site.url
          /\ site'.status \in {site.status, Fallback(sweep.url)}
      BY <1>7, <1>1 DEF SweepWrite, NoSweep, SiteRow
    <2> QED BY <1>7, <2>1, FallbackBelief DEF SweepWrite, BelievedPublished
  <1>8. CASE SweepCrash
    <2>1. ~sweep'.url
      BY <1>8 DEF SweepCrash, NoSweep
    <2> QED BY <1>8, <2>1 DEF SweepCrash, BelievedPublished
  <1>9. CASE SiteStep
    <2>1. site'.status \in {site.status, "DRAFT", "ARCHIVED"} /\ (site'.url => site.url)
      BY <1>9, <1>1 DEF SiteStep, UnpublishTakeDown, UnpublishWrite, UnpublishCrash, ArchiveSite,
                        UnarchiveSite, SiteRow
    <2>2. UNCHANGED <<start, worker, cancel, sweep>>
      BY <1>9 DEF SiteStep, UnpublishTakeDown, UnpublishWrite, UnpublishCrash, ArchiveSite,
                  UnarchiveSite
    <2> QED BY <2>1, <2>2 DEF BelievedPublished
  <1>10. CASE UNCHANGED vars
    BY <1>10 DEF vars, BelievedPublished
  <1> QED BY <1>2, <1>3, <1>4, <1>5, <1>6, <1>7, <1>8, <1>9, <1>10 DEF CancelStep, SweepStep

\* Beliefs start from a completion, and completions are for ever.
LEMMA BeliefIsTrueStep ==
  ASSUME TypeOK, [Next]_vars, Moves, NoRowNoReference, BeliefIsTrue
  PROVE  BeliefIsTrue'
  <1> SUFFICES ASSUME BelievedPublished' PROVE SomeCompleted'
    BY DEF BeliefIsTrue
  <1>1. ASSUME NEW w \in Workers, WorkerStep(w), Complete(w) PROVE SomeCompleted'
    <2>1. worker[w].job \in Jobs /\ row \in [Jobs -> JobRow] /\ row[worker[w].job] \in JobRow
      BY <1>1, FreeIsFree DEF Complete, TypeOK
    <2>2. row'[worker[w].job] = Completed(row[worker[w].job], clock + 1)
      BY <1>1, <2>1 DEF Complete
    <2>3. row'[worker[w].job].completedAt = clock + 1 /\ clock + 1 > 0
      BY <2>1, <2>2, RowColumns DEF TypeOK
    <2> QED BY <2>1, <2>3 DEF SomeCompleted
  <1>2. BelievedPublished => SomeCompleted'
    BY CompletedForEver DEF BeliefIsTrue
  <1> QED BY <1>1, <1>2, StartBelief, WorkerBelief, OtherBelief DEF Next

-----------------------------------------------------------------------------
(* The theorems.                                                           *)

IInv ==
  /\ TypeOK
  /\ References
  /\ OneActiveJob
  /\ ExclusiveClaim
  /\ NoHtmlAtRest
  /\ CompletedIsRecorded

\* The inductive invariant holds before anybody has published.
LEMMA InitIInv == Init => IInv
  <1> SUFFICES ASSUME Init PROVE IInv
    OBVIOUS
  <1>1. TypeOK
    BY InitType
  <1>2. /\ \A j \in Jobs : row[j] = NoRow /\ start[j].pc = "idle" /\ ~start[j].url /\ cancel[j] = "none"
        /\ \A w \in Workers : worker[w] = Free
        /\ sweep = NoSweep /\ site.status = "DRAFT" /\ ~site.url
    BY DEF Init
  <1>3. /\ NoRow.status = "NONE" /\ NoRow.started = FALSE /\ NoRow.age = "fresh"
        /\ NoRow.error = "none" /\ NoRow.completedAt = 0
    BY DEF NoRow
  <1>4. Free.pc = "free" /\ Free.job = NoJob /\ Free.url = FALSE
        /\ NoSweep.job = NoJob /\ NoSweep.url = FALSE
    BY DEF Free, NoSweep
  <1>5. NoRowNoReference
    BY <1>2, <1>3, <1>4, NoJobAssumption DEF NoRowNoReference, Early
  <1>6. HoldersClaimed /\ ExclusiveClaim /\ VerifiedIsRecorded
    BY <1>2, <1>3, <1>4 DEF HoldersClaimed, ExclusiveClaim, VerifiedIsRecorded, Holds, HoldingSteps
  <1>7. OldRowsAbandoned /\ SweepStillRight /\ SweptRowsOld
    BY <1>2, <1>3 DEF OldRowsAbandoned, SweepStillRight, SweptRowsOld
  <1>8. OneActiveJob /\ NoHtmlAtRest /\ CompletedIsRecorded
    BY <1>2, <1>3 DEF OneActiveJob, IsActive, Active, NoHtmlAtRest, CompletedIsRecorded
  <1>9. BeliefIsTrue
    BY <1>2, <1>4 DEF BeliefIsTrue, BelievedPublished
  <1> QED BY <1>1, <1>5, <1>6, <1>7, <1>8, <1>9 DEF IInv, References

\* No step breaks the inductive invariant.
LEMMA StepIInv == IInv /\ [Next]_vars => IInv'
  <1> SUFFICES ASSUME IInv, [Next]_vars PROVE IInv'
    OBVIOUS
  <1> USE DEF IInv, References
  <1>1. TypeOK' /\ Moves
    BY TypeStep, EveryStepMoves
  <1>2. NoRowNoReference' /\ HoldersClaimed' /\ OldRowsAbandoned'
    BY <1>1, NoRowNoReferenceStep, HoldersClaimedStep, OldRowsAbandonedStep
  <1>3. SweepStillRight' /\ SweptRowsOld' /\ VerifiedIsRecorded' /\ BeliefIsTrue'
    BY <1>1, SweepStillRightStep, SweptRowsOldStep, VerifiedIsRecordedStep, BeliefIsTrueStep
  <1>4. OneActiveJob' /\ ExclusiveClaim' /\ NoHtmlAtRest' /\ CompletedIsRecorded'
    BY <1>1, OneActiveJobStep, ExclusiveClaimStep, NoHtmlAtRestStep, CompletedIsRecordedStep
  <1> QED BY <1>1, <1>2, <1>3, <1>4

\* The inductive invariant: the types, the references that everybody holds to
\* a row, and the five state properties that are inductive only with them.
THEOREM Invariance == Spec => []IInv
  BY InitIInv, StepIInv, PTL DEF Spec

\* The references that calls, invocations, cancels and the sweep hold to a
\* row agree with the row, however many of them there are.
THEOREM ReferencesHold == Spec => []References
  <1>1. IInv => References
    BY DEF IInv
  <1> QED BY <1>1, Invariance, PTL

\* publish_build_jobs_active_unique gives each site at most one active job,
\* although a worker may write DEPLOYING over any status.
THEOREM AtMostOneActiveJob == Spec => []OneActiveJob
  <1>1. IInv => OneActiveJob
    BY DEF IInv
  <1> QED BY <1>1, Invariance, PTL

\* The conditional claim gives a job to one invocation, however many
\* requests dispatchWorker's retries deliver.
THEOREM ClaimIsExclusive == Spec => []ExclusiveClaim
  <1>1. IInv => ExclusiveClaim
    BY DEF IInv
  <1> QED BY <1>1, Invariance, PTL

\* What startPublish strands and the cron reaps has no worker and stays ended.
THEOREM SweptIsDead == Spec => []SweptStaysDead
  <1>1. IInv => SweptStaysDead
    <2> SUFFICES ASSUME IInv, NEW j \in Jobs, row[j].error \in {"stranded", "cron"}
                 PROVE  /\ row[j].status \in {"FAILED", "CANCELLED"}
                        /\ \A w \in Workers : Holds(w) => worker[w].job # j
      BY DEF SweptStaysDead
    <2> QED BY DEF IInv, References, SweptRowsOld, OldRowsAbandoned
  <1> QED BY <1>1, Invariance, PTL

\* Five statements fail or cancel a row; none leaves the pages in it, and no
\* later one puts them back.
THEOREM NoHtmlLeft == Spec => []NoHtmlAtRest
  <1>1. IInv => NoHtmlAtRest
    BY DEF IInv
  <1> QED BY <1>1, Invariance, PTL

\* completePublish only ever completes a claimed job whose deployment the
\* worker recorded before, and no later statement forgets it.
THEOREM CompletionIsRecorded == Spec => []CompletedIsRecorded
  <1>1. IInv => CompletedIsRecorded
    BY DEF IInv
  <1> QED BY <1>1, Invariance, PTL

\* The site is PUBLISHED, or has a publishedUrl, only after a publish was
\* completed, although everyone settles its status from what they read before.
THEOREM PublishedIsTrue == Spec => []PublishedWasCompleted
  <1>1. IInv => PublishedWasCompleted
    BY DEF IInv, References, BeliefIsTrue, BelievedPublished, SomeCompleted, PublishedWasCompleted
  <1> QED BY <1>1, Invariance, PTL

\* A job cancelled or failed before its claim is never claimed afterwards.
THEOREM EndedIsNotClaimed == Spec => EndedUnclaimedStaysUnclaimed
  <1>1. TypeOK /\ [Next]_vars =>
          [\A j \in Jobs : row[j].status \in {"CANCELLED", "FAILED"} /\ ~row[j].started
                             => ~row'[j].started]_vars
    <2> SUFFICES ASSUME TypeOK, [Next]_vars, NEW j \in Jobs,
                        row[j].status \in {"CANCELLED", "FAILED"}, ~row[j].started
                 PROVE  ~row'[j].started
      OBVIOUS
    <2>1. RowMove(j) /\ ~RowClaimed(j)
      BY EveryStepMoves DEF Moves, RowClaimed, Claimable
    <2> QED BY <2>1, StartedMoves
  <1> QED BY <1>1, TypeCorrect, PTL DEF Spec, EndedUnclaimedStaysUnclaimed

-----------------------------------------------------------------------------
(* The slot.                                                               *)

\* The slot's holder is the one active job, if there is one.
LEMMA HolderIs ==
  ASSUME OneActiveJob
  PROVE  /\ \A j \in Jobs : IsActive(j) => Holder = j
         /\ (\A j \in Jobs : ~IsActive(j)) => Holder = NoJob
         /\ Holder # NoJob => \E j \in Jobs : IsActive(j)
  BY DEF OneActiveJob, Holder

\* A step of the pipeline takes the free slot, releases it, or leaves it.
LEMMA SlotStep ==
  ASSUME IInv, [Next]_vars
  PROVE  [Slot!Next]_Holder
  <1>1. OneActiveJob /\ TypeOK /\ Moves
    BY EveryStepMoves DEF IInv
  <1>2. OneActiveJob'
    BY StepIInv DEF IInv
  <1>now. /\ \A j \in Jobs : IsActive(j) => Holder = j
          /\ (\A j \in Jobs : ~IsActive(j)) => Holder = NoJob
    BY <1>1, HolderIs
  <1>next. /\ \A j \in Jobs : IsActive(j)' => Holder' = j
           /\ (\A j \in Jobs : ~IsActive(j)') => Holder' = NoJob
    BY <1>2 DEF OneActiveJob, Holder, IsActive
  <1>3. ASSUME NEW j \in Jobs, IsActive(j), NEW k \in Jobs, IsActive(k)'
        PROVE  j = k
    <2> SUFFICES ASSUME j # k PROVE FALSE
      OBVIOUS
    <2>1. ~IsActive(k) /\ SlotTaken(k)
      BY <1>1, <1>3 DEF OneActiveJob, SlotTaken
    <2> QED BY <1>1, <1>3, <2>1, StatusMoves
            DEF Moves, IsActive, Active, RowQueued, RowDeploying, RowClaimed, Claimable
  <1>4. CASE \E j \in Jobs : IsActive(j)
    <2>1. PICK j \in Jobs : IsActive(j)
      BY <1>4
    <2>2. Holder = j /\ Holder # NoJob
      BY <2>1, <1>now, NoJobAssumption
    <2>3. CASE \E k \in Jobs : IsActive(k)'
      BY <2>1, <2>2, <2>3, <1>3, <1>next
    <2>4. CASE \A k \in Jobs : ~IsActive(k)'
      BY <2>2, <2>4, <1>next DEF Slot!Next, Slot!Release
    <2> QED BY <2>3, <2>4
  <1>5. CASE \A j \in Jobs : ~IsActive(j)
    <2>1. Holder = NoJob
      BY <1>5, <1>now
    <2>2. CASE \E k \in Jobs : IsActive(k)'
      BY <2>1, <2>2, <1>next DEF Slot!Next, Slot!Take
    <2>3. CASE \A k \in Jobs : ~IsActive(k)'
      BY <2>1, <2>3, <1>next
    <2> QED BY <2>2, <2>3
  <1> QED BY <1>4, <1>5

\* The pipeline implements the slot: it is taken only when it is free, and
\* never passes from one job to another.
THEOREM SlotIsSafe == Spec => Slot!Safety
  <1>1. Init => Slot!Init
    <2> SUFFICES ASSUME Init PROVE Holder = NoJob
      BY DEF Slot!Init
    <2>1. \A j \in Jobs : ~IsActive(j)
      BY DEF Init, NoRow, IsActive, Active
    <2> QED BY <2>1 DEF Holder
  <1>2. IInv /\ [Next]_vars => [Slot!Next]_Holder
    BY SlotStep
  <1> QED BY <1>1, <1>2, Invariance, PTL DEF Spec, Slot!Safety
=============================================================================
