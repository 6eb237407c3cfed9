--------------------------- MODULE GenerationProofs ---------------------------
(* What holds of the AI generation jobs of a workspace for any number of     *)
(* jobs and sites and any limits.                                            *)
EXTENDS GenerationProperties, FiniteSetTheorems, TLAPS

\* A worker past its claim has a job that is neither waiting nor completed.
Taken == (Working \ {"QUEUED"}) \union {"FAILED", "CANCELLED"}

\* A job's row, request, dispatcher, cancellation and worker fit together: before
\* the row there is nothing, and before the worker's transaction no COMPLETED.
Fits(j) ==
  /\ job[j].status = "none" <=> request[j] # "done"
  /\ job[j].status = "none" => worker[j] = "none" /\ dispatch[j] = "none" /\ ~cancel[j]
  /\ worker[j] \in Running => job[j].status \in Taken
  /\ worker[j] \in {"none", "read"} => job[j].status # "COMPLETED"

Found == found \in [Jobs -> Sites \union {NoSite}]

\* The inductive invariant of the types.
Typed == TypeOK /\ \A j \in Jobs : Fits(j)

LEMMA InitTyped == Init => Typed
  BY DEF Init, Typed, TypeOK, Fits, Job, Site, Working, Ended, WorkerAt, Running, Created, Taken

\* A job's row after a step that changes its status only.
LEMMA RowTyped ==
  ASSUME Typed, NEW j \in Jobs, NEW status \in Working \union Ended, job[j].status # "none",
         job' = [job EXCEPT ![j].status = status]
  PROVE  /\ job' \in [Jobs -> Job] /\ Created' = Created
         /\ job'[j].status = status /\ job'[j].site = job[j].site /\ job'[j].replace = job[j].replace
         /\ \A k \in Jobs \ {j} : job'[k] = job[k]
  <1>1. job \in [Jobs -> Job] /\ job[j] \in Job
    BY DEF Typed, TypeOK
  <1>2. job'[j] = [job[j] EXCEPT !.status = status] /\ \A k \in Jobs \ {j} : job'[k] = job[k]
    BY <1>1
  <1>3. job'[j] \in Job /\ job'[j].status = status /\ job'[j].site = job[j].site /\ job'[j].replace = job[j].replace
    BY <1>1, <1>2 DEF Job
  <1>4. job' \in [Jobs -> Job]
    BY <1>1, <1>2, <1>3
  <1>5. Created' = Created
    BY <1>2, <1>3 DEF Created, Working, Ended
  <1> QED BY <1>2, <1>3, <1>4, <1>5

\* What a step may do to the types of the parts it leaves to others.
LEMMA OthersFit ==
  ASSUME Typed, NEW j \in Jobs, Fits(j)',
         \A k \in Jobs \ {j} :
           /\ job'[k] = job[k] /\ request'[k] = request[k] /\ worker'[k] = worker[k]
           /\ dispatch'[k] = dispatch[k] /\ cancel'[k] = cancel[k]
  PROVE  \A k \in Jobs : Fits(k)'
  <1>1. ASSUME NEW k \in Jobs \ {j} PROVE Fits(k)'
    BY <1>1 DEF Typed, Fits
  <1> QED BY <1>1

\* A request's steps.
LEMMA RequestTyped ==
  ASSUME Typed, NEW j \in Jobs,
         CountMonth(j) \/ CountHour(j) \/ HourPasses(j) \/ \E s \in Sites \union {NoSite} : Create(j, s)
  PROVE  Typed'
  <1>1. CASE CountMonth(j) \/ CountHour(j) \/ HourPasses(j)
    <2>1. /\ request' \in [Jobs -> {"idle", "month", "hour", "done"}]
          /\ \A k \in Jobs : request'[k] = "done" <=> request[k] = "done"
          /\ old' \subseteq Created /\ UNCHANGED <<raced, job, dispatch, worker, found, cancel, site, excused, overtaken>>
      BY <1>1 DEF CountMonth, CountHour, HourPasses, Typed, TypeOK
    <2> QED BY <2>1 DEF Typed, TypeOK, Fits, Created
  <1>2. ASSUME NEW s \in Sites \union {NoSite}, Create(j, s) PROVE Typed'
    <2> DEFINE new == [status |-> "QUEUED", site |-> NoSite, replace |-> IF IsThere(s) THEN s ELSE NoSite]
    <2>1. new \in Job /\ new.status = "QUEUED"
      BY DEF Job, Working, IsThere
    <2>2. job' = [job EXCEPT ![j] = new] /\ request[j] = "hour" /\ UNCHANGED <<old, worker, found, cancel, site, excused, overtaken>>
      BY <1>2 DEF Create
    <2> HIDE DEF new
    <2>3. job' \in [Jobs -> Job] /\ job'[j].status = "QUEUED" /\ Created \subseteq Created'
      BY <2>1, <2>2 DEF Typed, TypeOK, Created
    <2>4. /\ request' \in [Jobs -> {"idle", "month", "hour", "done"}] /\ request'[j] = "done"
          /\ dispatch' \in [Jobs -> {"none", "sent", "refused", "done"}]
          /\ raced' \subseteq Jobs
      BY <1>2 DEF Create, Typed, TypeOK, InFlight
    <2>5. TypeOK'
      BY <2>2, <2>3, <2>4 DEF Typed, TypeOK
    <2>6. job[j].status = "none" /\ worker[j] = "none"
      BY <2>2 DEF Typed, Fits
    <2>7. Fits(j)'
      BY <2>2, <2>3, <2>4, <2>6 DEF Typed, Fits, Running
    <2>8. \A k \in Jobs \ {j} : job'[k] = job[k] /\ request'[k] = request[k] /\ dispatch'[k] = dispatch[k]
      BY <1>2, <2>2 DEF Create, Typed, TypeOK
    <2> QED BY <2>2, <2>5, <2>7, <2>8, OthersFit DEF Typed
  <1> QED BY <1>1, <1>2

\* The steps that only move the dispatcher, the worker or the cancellation of a job.
LEMMA MoveTyped ==
  ASSUME Typed, NEW j \in Jobs, UNCHANGED <<limits, job, site, excused, overtaken>>, Found',
         dispatch' \in [Jobs -> {"none", "sent", "refused", "done"}],
         worker' \in [Jobs -> WorkerAt], cancel' \in [Jobs -> BOOLEAN],
         \A k \in Jobs \ {j} :
           worker'[k] = worker[k] /\ dispatch'[k] = dispatch[k] /\ cancel'[k] = cancel[k],
         job[j].status # "none",
         \/ worker'[j] \in {"threw", "done", worker[j]}
         \/ worker[j] \in Running /\ worker'[j] \in Running
         \/ worker[j] = "none" /\ worker'[j] = "read"
  PROVE  Typed'
  <1>1. TypeOK'
    BY DEF Typed, TypeOK, Found, limits, Created
  <1>2. Fits(j)'
    BY DEF Typed, Fits, limits, Running
  <1>3. \A k \in Jobs \ {j} : job'[k] = job[k] /\ request'[k] = request[k]
    BY DEF limits
  <1> QED BY <1>1, <1>2, <1>3, OthersFit DEF Typed

\* The steps that also write the job's status.
LEMMA StatusTyped ==
  ASSUME Typed, NEW j \in Jobs, NEW status \in Working \union Ended, job[j].status # "none",
         job' = [job EXCEPT ![j].status = status], UNCHANGED <<limits, site, overtaken>>,
         excused' \subseteq Jobs, Found',
         dispatch' \in [Jobs -> {"none", "sent", "refused", "done"}],
         worker' \in [Jobs -> WorkerAt], cancel' \in [Jobs -> BOOLEAN],
         \A k \in Jobs \ {j} :
           worker'[k] = worker[k] /\ dispatch'[k] = dispatch[k] /\ cancel'[k] = cancel[k],
         \/ worker'[j] \in {"threw", "done"}
         \/ worker'[j] = worker[j] /\ status \in {"FAILED", "CANCELLED"}
         \/ worker[j] \in {"read"} \union Running /\ worker'[j] \in Running /\ status \in Taken
  PROVE  Typed'
  <1>1. /\ job' \in [Jobs -> Job] /\ Created' = Created /\ job'[j].status = status
        /\ \A k \in Jobs \ {j} : job'[k] = job[k]
    BY RowTyped
  <1>2. TypeOK'
    BY <1>1 DEF Typed, TypeOK, Found, limits
  <1>3. Fits(j)'
    BY <1>1 DEF Typed, Fits, limits, Running, Taken, Working, Ended
  <1>4. \A k \in Jobs \ {j} : job'[k] = job[k] /\ request'[k] = request[k]
    BY <1>1 DEF limits
  <1> QED BY <1>2, <1>3, <1>4, OthersFit DEF Typed

\* Who moves the worker and answers the dispatcher leaves the other jobs' alone.
LEMMA AtTyped ==
  ASSUME Typed, NEW j \in Jobs, NEW pc \in WorkerAt, At(j, pc)
  PROVE  /\ worker' \in [Jobs -> WorkerAt] /\ worker'[j] = pc
         /\ \A k \in Jobs \ {j} : worker'[k] = worker[k]
         /\ Found' /\ found'[j] = NoSite /\ \A k \in Jobs \ {j} : found'[k] = found[k]
  BY DEF At, Typed, TypeOK, Found

LEMMA AnswerTyped ==
  ASSUME Typed, NEW j \in Jobs, NEW ok \in BOOLEAN, Answer(j, ok)
  PROVE  /\ worker' \in [Jobs -> WorkerAt] /\ worker'[j] = "done"
         /\ dispatch' \in [Jobs -> {"none", "sent", "refused", "done"}]
         /\ \A k \in Jobs \ {j} : worker'[k] = worker[k] /\ dispatch'[k] = dispatch[k]
         /\ Found'
  <1>1. "done" \in WorkerAt
    BY DEF WorkerAt
  <1>2. /\ worker' \in [Jobs -> WorkerAt] /\ worker'[j] = "done"
        /\ \A k \in Jobs \ {j} : worker'[k] = worker[k]
        /\ Found'
    BY <1>1, AtTyped DEF Answer
  <1>3. /\ dispatch' \in [Jobs -> {"none", "sent", "refused", "done"}]
        /\ \A k \in Jobs \ {j} : dispatch'[k] = dispatch[k]
    BY DEF Answer, Typed, TypeOK
  <1> QED BY <1>2, <1>3

\* A phase of the worker.
LEMMA PhaseTyped ==
  ASSUME Typed, NEW j \in Jobs, worker[j] \in Running, NEW status \in Working \ {"QUEUED"},
         NEW pc \in Running, SetPhase(j, status, pc), UNCHANGED <<limits, cancel, site, excused, overtaken>>
  PROVE  Typed'
  <1>1. job[j].status # "none" /\ status \in Taken /\ status \in Working \union Ended
    BY DEF Typed, Fits, Running, Taken
  <1>2. CASE Overruled(j)
    BY <1>1, <1>2, AnswerTyped, MoveTyped DEF SetPhase, Stop, Typed, TypeOK
  <1>3. CASE ~Overruled(j)
    <2>1. pc \in WorkerAt
      BY DEF WorkerAt
    <2>2. /\ worker' \in [Jobs -> WorkerAt] /\ worker'[j] = pc
          /\ \A k \in Jobs \ {j} : worker'[k] = worker[k]
          /\ Found'
      BY <1>3, <2>1, AtTyped DEF SetPhase
    <2> QED BY <1>1, <1>3, <2>2, StatusTyped DEF SetPhase, Typed, TypeOK
  <1> QED BY <1>2, <1>3

\* The worker's transaction, and whatever its answer makes of the worker.
LEMMA CommitTyped ==
  ASSUME Typed, NEW j \in Jobs, worker[j] = "write", Commit(j),
         UNCHANGED <<limits, cancel, excused, overtaken>>, Found',
         dispatch' \in [Jobs -> {"none", "sent", "refused", "done"}],
         worker' \in [Jobs -> WorkerAt], worker'[j] \in {"threw", "done"},
         \A k \in Jobs \ {j} : worker'[k] = worker[k] /\ dispatch'[k] = dispatch[k]
  PROVE  Typed'
  <1>1. PICK s \in Target(j) : Build(j, s) /\ job' = [job EXCEPT ![j].status = "COMPLETED", ![j].site = s]
    BY DEF Commit
  <1>2. s \in Sites
    BY DEF Target
  <1>3. job[j] \in Job /\ job[j].status # "none" /\ job \in [Jobs -> Job]
    BY DEF Typed, TypeOK, Fits, Running, Taken
  <1> DEFINE new == [job[j] EXCEPT !.status = "COMPLETED", !.site = s]
  <1>4. new \in Job /\ new.status = "COMPLETED"
    BY <1>2, <1>3 DEF Job, Ended
  <1>5. job' = [job EXCEPT ![j] = new]
    BY <1>1, <1>3
  <1> HIDE DEF new
  <1>6. /\ job' \in [Jobs -> Job] /\ job'[j].status = "COMPLETED" /\ Created' = Created
        /\ \A k \in Jobs \ {j} : job'[k] = job[k]
    BY <1>3, <1>4, <1>5 DEF Created
  <1>7. site' \in [Sites -> Site]
    BY <1>1, <1>2 DEF Build, Typed, TypeOK, Site
  <1>8. TypeOK'
    BY <1>6, <1>7 DEF Typed, TypeOK, Found, limits
  <1>9. Fits(j)'
    BY <1>3, <1>6 DEF Typed, Fits, limits, Running
  <1> QED BY <1>6, <1>7, <1>8, <1>9, OthersFit DEF Typed, limits

\* Every step of a job's worker.
LEMMA WorkerTyped ==
  ASSUME Typed, NEW j \in Jobs, Worker(j)
  PROVE  Typed'
  <1>0. /\ cancel \in [Jobs -> BOOLEAN] /\ dispatch \in [Jobs -> {"none", "sent", "refused", "done"}]
        /\ job[j] \in Job /\ (worker[j] # "none" \/ dispatch[j] # "none" => job[j].status # "none")
    BY DEF Typed, TypeOK, Fits
  <1>1. CASE WorkerReads(j)
    BY <1>0, <1>1, AtTyped, AnswerTyped, MoveTyped DEF WorkerReads, WorkerAt
  <1>2. CASE Claim(j)
    <2>1. CASE job[j].status = "QUEUED"
      <3>1. /\ worker' \in [Jobs -> WorkerAt] /\ worker'[j] = "claimed"
            /\ \A k \in Jobs \ {j} : worker'[k] = worker[k]
            /\ Found'
        BY <1>2, <2>1, AtTyped DEF Claim, WorkerAt, Running
      <3> QED BY <1>0, <1>2, <2>1, <3>1, StatusTyped DEF Claim, Taken, Working, Running, Typed, TypeOK
    <2>2. CASE job[j].status # "QUEUED"
      BY <1>0, <1>2, <2>2, AnswerTyped, MoveTyped DEF Claim
    <2> QED BY <2>1, <2>2
  <1>3. CASE StartContent(j) \/ PageGenerated(j) \/ StartStyles(j)
    <2>1. worker[j] \in Running
      BY <1>3 DEF StartContent, PageGenerated, StartStyles, Running
    <2>2. PICK status \in Working \ {"QUEUED"}, pc \in Running : SetPhase(j, status, pc)
      BY <1>3 DEF StartContent, PageGenerated, StartStyles, Running, Working
    <2> QED BY <1>3, <2>1, <2>2, PhaseTyped DEF StartContent, PageGenerated, StartStyles
  <1>4. CASE CheckCancelled(j)
    <2>1. CASE job[j].status = "CANCELLED"
      BY <1>0, <1>4, <2>1, AnswerTyped, MoveTyped DEF CheckCancelled, Stop
    <2>2. CASE job[j].status # "CANCELLED"
      <3>1. /\ worker' \in [Jobs -> WorkerAt] /\ worker'[j] = "model"
            /\ \A k \in Jobs \ {j} : worker'[k] = worker[k]
            /\ Found'
        BY <1>4, <2>2, AtTyped DEF CheckCancelled, WorkerAt, Running
      <3> QED BY <1>0, <1>4, <2>2, <3>1, MoveTyped DEF CheckCancelled, Running
    <2> QED BY <2>1, <2>2
  <1>5. CASE Persist(j)
    <2>1. CASE Stop(j) /\ UNCHANGED site
      BY <1>0, <1>5, <2>1, AnswerTyped, MoveTyped DEF Persist, Stop
    <2>2. CASE Commit(j) /\ Answer(j, TRUE)
      BY <1>5, <2>2, AnswerTyped, CommitTyped DEF Persist
    <2> QED BY <1>5, <2>1, <2>2 DEF Persist
  <1>6. CASE PersistUnheard(j)
    BY <1>0, <1>6, AtTyped, CommitTyped DEF PersistUnheard, WorkerAt
  <1>7. CASE Throws(j) \/ Killed(j)
    <2>1. /\ worker' \in [Jobs -> WorkerAt] /\ worker'[j] \in {"threw", "done"}
          /\ \A k \in Jobs \ {j} : worker'[k] = worker[k]
          /\ Found'
      BY <1>7, AtTyped DEF Throws, Killed, WorkerAt
    <2> QED BY <1>0, <1>7, <2>1, MoveTyped DEF Throws, Killed, Running
  <1>8. CASE RecordFailure(j)
    <2>1. PICK status \in {"FAILED", "CANCELLED"} : job' = [job EXCEPT ![j].status = status]
      BY <1>8, <1>0 DEF RecordFailure
    <2>2. /\ job[j].status # "none" /\ excused' \subseteq Jobs /\ status \in Working \union Ended
      BY <1>0, <1>8 DEF RecordFailure, Typed, TypeOK, Ended
    <2> QED BY <1>0, <1>8, <2>1, <2>2, AnswerTyped, StatusTyped DEF RecordFailure
  <1>9. CASE FindsSite(j)
    <2>1. /\ worker' \in [Jobs -> WorkerAt] /\ worker'[j] = "write"
          /\ \A k \in Jobs \ {j} : worker'[k] = worker[k]
      BY <1>9 DEF FindsSite, Typed, TypeOK, WorkerAt, Running
    <2>2. Found'
      BY <1>9 DEF FindsSite, Typed, TypeOK, Found, IsThere
    <2> QED BY <1>0, <1>9, <2>1, <2>2, MoveTyped DEF FindsSite, Running
  <1> QED BY <1>1, <1>2, <1>3, <1>4, <1>5, <1>6, <1>7, <1>8, <1>9 DEF Worker

\* The dispatcher and the cancellation of a job.
LEMMA DispatchTyped ==
  ASSUME Typed, NEW j \in Jobs,
         DispatchFails(j) \/ FailUnclaimed(j) \/ DispatchLost(j) \/ CheckCancel(j) \/ WriteCancel(j)
  PROVE  Typed'
  <1>0. /\ cancel \in [Jobs -> BOOLEAN] /\ dispatch \in [Jobs -> {"none", "sent", "refused", "done"}]
        /\ worker \in [Jobs -> WorkerAt] /\ job \in [Jobs -> Job]
        /\ (dispatch[j] # "none" \/ cancel[j] => job[j].status # "none")
        /\ Found /\ (UNCHANGED found => Found')
    BY DEF Typed, TypeOK, Fits, Found
  <1>1. CASE DispatchFails(j) \/ DispatchLost(j) \/ CheckCancel(j)
    BY <1>0, <1>1, MoveTyped DEF DispatchFails, DispatchLost, CheckCancel, limits
  <1>2. CASE FailUnclaimed(j)
    <2>1. CASE job[j].status = "QUEUED"
      BY <1>0, <1>2, <2>1, StatusTyped DEF FailUnclaimed, Ended, Typed, TypeOK
    <2>2. CASE job[j].status # "QUEUED"
      <3>1. job[j] = [job[j] EXCEPT !.status = job[j].status]
        BY <1>0 DEF Job
      <3>2. job' = job
        BY <1>0, <1>2, <2>2, <3>1 DEF FailUnclaimed
      <3> QED BY <1>0, <1>2, <3>2, MoveTyped DEF FailUnclaimed
    <2> QED BY <2>1, <2>2
  <1>3. CASE WriteCancel(j)
    BY <1>0, <1>3, StatusTyped DEF WriteCancel, Ended, Typed, TypeOK
  <1> QED BY <1>1, <1>2, <1>3

\* The cleanup, and a site that is deleted.
LEMMA CleanupTyped ==
  ASSUME Typed, Cleanup \/ \E s \in Sites : DeleteSite(s) \/ RestoreSite(s)
  PROVE  Typed'
  <1>1. CASE Cleanup
    <2>1. \A j \in Jobs : /\ job'[j] = IF Stale(j) THEN [job[j] EXCEPT !.status = "FAILED"] ELSE job[j]
                          /\ job[j] \in Job
      BY <1>1 DEF Cleanup, Typed, TypeOK
    <2>2. \A j \in Jobs : job'[j] \in Job /\ job'[j].status = IF Stale(j) THEN "FAILED" ELSE job[j].status
      BY <2>1 DEF Job, Ended
    <2>3. job' \in [Jobs -> Job] /\ Created' = Created
      BY <1>1, <2>2 DEF Cleanup, Created, Stale, Working
    <2>4. \A j \in Jobs : Fits(j)'
      BY <1>1, <2>2 DEF Cleanup, Typed, Fits, Stale, Working, Taken, limits
    <2> QED BY <1>1, <2>3, <2>4 DEF Cleanup, Typed, TypeOK, limits
  <1>2. CASE \E s \in Sites : DeleteSite(s) \/ RestoreSite(s)
    <2>1. site' \in [Sites -> Site]
      BY <1>2 DEF DeleteSite, RestoreSite, Typed, TypeOK, Site
    <2>2. UNCHANGED <<limits, job, dispatch, worker, found, cancel, excused>> /\ overtaken' \subseteq Jobs
      BY <1>2 DEF DeleteSite, RestoreSite, Typed, TypeOK
    <2> QED BY <2>1, <2>2 DEF Typed, TypeOK, Fits, Created, limits
  <1> QED BY <1>1, <1>2

LEMMA StepTyped == Typed /\ [Next]_vars => Typed'
  <1> SUFFICES ASSUME Typed, [Next]_vars PROVE Typed'
    OBVIOUS
  <1>1. CASE UNCHANGED vars
    BY <1>1 DEF vars, limits, Typed, TypeOK, Fits, Created
  <1> QED BY <1>1, RequestTyped, DispatchTyped, WorkerTyped, CleanupTyped DEF Next

LEMMA AlwaysTyped == Spec => []Typed
  BY InitTyped, StepTyped, PTL DEF Spec

\* Every variable has its type, however requests, workers and the cron interleave.
THEOREM GenerationTypes == Spec => []TypeOK
  <1>1. Typed => TypeOK
    BY DEF Typed
  <1> QED BY <1>1, AlwaysTyped, PTL

-----------------------------------------------------------------------------
(* What a step may do to a job.                                            *)

Untouched(j) == job'[j] = job[j]
Born(j) == job[j].status = "none" /\ job'[j].status = "QUEUED"
Advanced(j) == job[j].status \in Working /\ job'[j].status \in Working
Committed(j) ==
  /\ job[j].status \in Working /\ job'[j].status = "COMPLETED" /\ worker'[j] \notin Running
  /\ job'[j].site \in Sites /\ site'[job'[j].site].by = j
Failed(j) ==
  /\ job[j].status # "CANCELLED" /\ job'[j].status = "FAILED"
  /\ job[j].status = "COMPLETED" => j \in excused'
  /\ worker'[j] \in Running => j \in old'
Cancelled(j) == job'[j].status = "CANCELLED" /\ (job[j].status = "COMPLETED" => j \in excused')

\* Sites are only written by a commit, which writes its own.
SitesFollow ==
  \A s \in Sites : \/ site'[s].by = site[s].by
                   \/ /\ site'[s].by \in Jobs
                      /\ Committed(site'[s].by) /\ job'[site'[s].by].site = s

\* What is common to all steps.
Steps(j) ==
  /\ Untouched(j) \/ Born(j) \/ Advanced(j) \/ Committed(j) \/ Failed(j) \/ Cancelled(j)
  /\ worker'[j] \in Running => worker[j] \in Running \/ job'[j].status \in Working
  /\ job[j].status # "none" => job'[j].replace = job[j].replace
AllSteps ==
  /\ \A j \in Jobs : Steps(j)
  /\ SitesFollow /\ excused \subseteq excused' /\ old \subseteq old'

\* Where one job is stepped, the others are not.
LEMMA OthersStep ==
  ASSUME NEW j \in Jobs, Steps(j), SitesFollow, excused \subseteq excused', old \subseteq old',
         \A k \in Jobs \ {j} : job'[k] = job[k] /\ worker'[k] = worker[k]
  PROVE  AllSteps
  <1>1. \A k \in Jobs \ {j} : Steps(k)
    BY DEF Steps, Untouched
  <1> QED BY <1>1 DEF AllSteps

LEMMA CommitSteps ==
  ASSUME Typed, NEW j \in Jobs, worker[j] = "write", Commit(j), UNCHANGED <<limits, excused>>,
         At(j, "done") \/ At(j, "threw")
  PROVE  AllSteps
  <1>1. PICK s \in Target(j) : Build(j, s) /\ job' = [job EXCEPT ![j].status = "COMPLETED", ![j].site = s]
    BY DEF Commit
  <1>2. s \in Sites
    BY DEF Target
  <1>3. job[j] \in Job /\ job[j].status \in Working /\ job \in [Jobs -> Job]
    BY DEF Typed, TypeOK, Fits, Running, Taken, Commit, Overruled
  <1>4. /\ job'[j] = [job[j] EXCEPT !.status = "COMPLETED", !.site = s]
        /\ \A k \in Jobs \ {j} : job'[k] = job[k]
    BY <1>1, <1>3
  <1>5. job'[j].status = "COMPLETED" /\ job'[j].site = s /\ job'[j].replace = job[j].replace
    BY <1>3, <1>4 DEF Job
  <1>6. site'[s].by = j /\ \A t \in Sites \ {s} : site'[t] = site[t]
    BY <1>1, <1>2 DEF Build, Typed, TypeOK
  <1>7. worker'[j] \in {"done", "threw"} /\ \A k \in Jobs \ {j} : worker'[k] = worker[k]
    BY DEF At, Typed, TypeOK
  <1>8. Committed(j) /\ Steps(j)
    BY <1>2, <1>3, <1>5, <1>6, <1>7 DEF Committed, Steps, Running
  <1>9. SitesFollow
    BY <1>5, <1>6, <1>8 DEF SitesFollow
  <1> QED BY <1>4, <1>7, <1>8, <1>9, OthersStep DEF limits

\* The steps that write no site and one status at most.
LEMMA StatusSteps ==
  ASSUME Typed, NEW j \in Jobs, NEW status \in Working \union Ended, job[j].status # "none",
         job' = [job EXCEPT ![j].status = status], UNCHANGED <<limits, site>>,
         excused \subseteq excused',
         \A k \in Jobs \ {j} : worker'[k] = worker[k],
         \/ status \in Working /\ job[j].status \in Working
         \/ /\ status = "FAILED" /\ job[j].status # "CANCELLED"
            /\ job[j].status = "COMPLETED" => j \in excused'
            /\ worker'[j] \notin Running
         \/ /\ status = "CANCELLED" /\ (job[j].status = "COMPLETED" => j \in excused')
            /\ worker'[j] \in Running => worker[j] \in Running
  PROVE  AllSteps
  <1>1. /\ job'[j].status = status /\ job'[j].replace = job[j].replace
        /\ \A k \in Jobs \ {j} : job'[k] = job[k]
    BY RowTyped
  <1>2. Steps(j)
    BY <1>1 DEF Steps, Advanced, Failed, Cancelled
  <1> QED BY <1>1, <1>2, OthersStep DEF SitesFollow, limits

LEMMA StillSteps ==
  ASSUME Typed, UNCHANGED <<job, excused>>, old \subseteq old',
         \A s \in Sites : site'[s].by = site[s].by,
         \A j \in Jobs : worker'[j] \in Running => worker[j] \in Running
  PROVE  AllSteps
  BY DEF AllSteps, Steps, Untouched, SitesFollow

LEMMA PhaseSteps ==
  ASSUME Typed, NEW j \in Jobs, worker[j] \in Running, NEW status \in Working \ {"QUEUED"},
         NEW pc \in Running, SetPhase(j, status, pc), UNCHANGED <<limits, cancel, site, excused, overtaken>>
  PROVE  AllSteps
  <1>1. job[j].status \in Taken /\ status \in Working \union Ended
    BY DEF Typed, Fits
  <1>2. CASE Overruled(j)
    <2>1. worker'[j] = "done" /\ UNCHANGED job /\ \A k \in Jobs \ {j} : worker'[k] = worker[k]
      BY <1>2, AnswerTyped DEF SetPhase, Stop
    <2> QED BY <2>1, StillSteps DEF limits, Running
  <1>3. CASE ~Overruled(j)
    <2>1. pc \in WorkerAt
      BY DEF WorkerAt
    <2>2. \A k \in Jobs \ {j} : worker'[k] = worker[k]
      BY <1>3, <2>1, AtTyped DEF SetPhase
    <2>3. job[j].status \in Working /\ job[j].status # "none"
      BY <1>1, <1>3 DEF Overruled, Taken, Working
    <2> QED BY <1>1, <1>3, <2>2, <2>3, StatusSteps DEF SetPhase
  <1> QED BY <1>2, <1>3

\* What a worker does to the jobs and the sites.
LEMMA WorkerSteps ==
  ASSUME Typed, NEW j \in Jobs, Worker(j)
  PROVE  AllSteps
  <1>0. /\ job[j] \in Job /\ worker \in [Jobs -> WorkerAt]
        /\ (worker[j] # "none" => job[j].status # "none")
    BY DEF Typed, TypeOK, Fits
  <1>1. CASE WorkerReads(j) \/ Throws(j) \/ Killed(j)
    <2>1. /\ worker'[j] \in {"read", "threw", "done"}
          /\ \A k \in Jobs \ {j} : worker'[k] = worker[k]
      BY <1>0, <1>1, AtTyped, AnswerTyped DEF WorkerReads, Throws, Killed, WorkerAt
    <2> QED BY <1>1, <2>1, StillSteps DEF WorkerReads, Throws, Killed, limits, Running
  <1>2. CASE Claim(j)
    <2>1. CASE job[j].status = "QUEUED"
      <3>1. \A k \in Jobs \ {j} : worker'[k] = worker[k]
        BY <1>2, <2>1, AtTyped DEF Claim, WorkerAt, Running
      <3> QED BY <1>2, <2>1, <3>1, StatusSteps DEF Claim, Working
    <2>2. CASE job[j].status # "QUEUED"
      <3>1. worker'[j] = "done" /\ UNCHANGED job /\ \A k \in Jobs \ {j} : worker'[k] = worker[k]
        BY <1>2, <2>2, AnswerTyped DEF Claim
      <3> QED BY <1>2, <3>1, StillSteps DEF Claim, limits, Running
    <2> QED BY <2>1, <2>2
  <1>3. CASE StartContent(j) \/ PageGenerated(j) \/ StartStyles(j)
    <2>1. worker[j] \in Running
      BY <1>3 DEF StartContent, PageGenerated, StartStyles, Running
    <2>2. PICK status \in Working \ {"QUEUED"}, pc \in Running : SetPhase(j, status, pc)
      BY <1>3 DEF StartContent, PageGenerated, StartStyles, Running, Working
    <2> QED BY <1>3, <2>1, <2>2, PhaseSteps DEF StartContent, PageGenerated, StartStyles
  <1>4. CASE CheckCancelled(j)
    <2>1. PICK pc \in WorkerAt : worker' = [worker EXCEPT ![j] = pc]
      BY <1>4 DEF CheckCancelled, Stop, Answer, At, WorkerAt, Running
    <2>2. worker[j] \in Running /\ UNCHANGED <<limits, job, site, excused, overtaken>>
      BY <1>4 DEF CheckCancelled, Stop, Running
    <2> QED BY <1>0, <2>1, <2>2, StillSteps DEF limits
  <1>5. CASE Persist(j)
    <2>1. CASE Stop(j) /\ UNCHANGED site
      <3>1. worker'[j] = "done" /\ UNCHANGED job /\ \A k \in Jobs \ {j} : worker'[k] = worker[k]
        BY <2>1, AnswerTyped DEF Stop
      <3> QED BY <1>5, <2>1, <3>1, StillSteps DEF Persist, limits, Running
    <2>2. CASE Commit(j) /\ Answer(j, TRUE)
      BY <1>5, <2>2, CommitSteps DEF Persist, Answer
    <2> QED BY <1>5, <2>1, <2>2 DEF Persist
  <1>6. CASE PersistUnheard(j)
    BY <1>6, CommitSteps DEF PersistUnheard
  <1>7. CASE RecordFailure(j)
    <2>1. worker'[j] = "done" /\ \A k \in Jobs \ {j} : worker'[k] = worker[k]
      BY <1>7, AnswerTyped DEF RecordFailure
    <2>2. excused \subseteq excused' /\ (job[j].status = "COMPLETED" => j \in excused')
      BY <1>7 DEF RecordFailure
    <2>3. CASE job[j].status = "CANCELLED"
      <3>1. job' = [job EXCEPT ![j].status = "CANCELLED"] /\ UNCHANGED <<limits, site>>
        BY <1>0, <1>7, <2>3 DEF RecordFailure
      <3> QED BY <1>0, <2>1, <2>2, <2>3, <3>1, StatusSteps DEF Running, Ended
    <2>4. CASE job[j].status # "CANCELLED"
      <3>1. job' = [job EXCEPT ![j].status = "FAILED"] /\ UNCHANGED <<limits, site>>
        BY <1>0, <1>7, <2>4 DEF RecordFailure
      <3> QED BY <1>0, <1>7, <2>1, <2>2, <2>4, <3>1, StatusSteps DEF Running, Ended, RecordFailure
    <2> QED BY <2>3, <2>4
  <1>8. CASE FindsSite(j)
    <2>1. \A k \in Jobs \ {j} : worker'[k] = worker[k]
      BY <1>0, <1>8 DEF FindsSite
    <2> QED BY <1>8, <2>1, StillSteps DEF FindsSite, limits, Running
  <1> QED BY <1>1, <1>2, <1>3, <1>4, <1>5, <1>6, <1>7, <1>8 DEF Worker

LEMMA RequestSteps ==
  ASSUME Typed, NEW j \in Jobs,
         CountMonth(j) \/ CountHour(j) \/ HourPasses(j) \/ \E s \in Sites \union {NoSite} : Create(j, s)
  PROVE  AllSteps
  <1>1. CASE CountMonth(j) \/ CountHour(j) \/ HourPasses(j)
    BY <1>1, StillSteps DEF CountMonth, CountHour, HourPasses
  <1>2. ASSUME NEW s \in Sites \union {NoSite}, Create(j, s) PROVE AllSteps
    <2>1. job'[j].status = "QUEUED" /\ \A k \in Jobs \ {j} : job'[k] = job[k]
      BY <1>2 DEF Create, Typed, TypeOK
    <2>2. job[j].status = "none" /\ worker[j] = "none" /\ UNCHANGED <<old, worker, site, excused>>
      BY <1>2 DEF Create, Typed, Fits
    <2>3. Steps(j)
      BY <2>1, <2>2 DEF Steps, Born, Running
    <2> QED BY <2>1, <2>2, <2>3, OthersStep DEF SitesFollow
  <1> QED BY <1>1, <1>2

LEMMA DispatchSteps ==
  ASSUME Typed, NEW j \in Jobs,
         DispatchFails(j) \/ FailUnclaimed(j) \/ DispatchLost(j) \/ CheckCancel(j) \/ WriteCancel(j)
  PROVE  AllSteps
  <1>0. /\ job \in [Jobs -> Job] /\ job[j] \in Job
        /\ (cancel[j] => job[j].status # "none")
        /\ (job[j].status = "QUEUED" => worker[j] \notin Running)
    BY DEF Typed, TypeOK, Fits, Taken, Working
  <1>1. CASE DispatchFails(j) \/ DispatchLost(j) \/ CheckCancel(j)
    BY <1>1, StillSteps DEF DispatchFails, DispatchLost, CheckCancel, limits
  <1>2. CASE FailUnclaimed(j)
    <2>1. CASE job[j].status = "QUEUED"
      BY <1>0, <1>2, <2>1, StatusSteps DEF FailUnclaimed, Ended
    <2>2. CASE job[j].status # "QUEUED"
      <3>1. job[j] = [job[j] EXCEPT !.status = job[j].status]
        BY <1>0 DEF Job
      <3>2. job' = job
        BY <1>0, <1>2, <2>2, <3>1 DEF FailUnclaimed
      <3> QED BY <1>2, <3>2, StillSteps DEF FailUnclaimed, limits
    <2> QED BY <2>1, <2>2
  <1>3. CASE WriteCancel(j)
    <2>1. /\ excused \subseteq excused' /\ (job[j].status = "COMPLETED" => j \in excused')
          /\ UNCHANGED worker
      BY <1>3 DEF WriteCancel
    <2> QED BY <1>0, <1>3, <2>1, StatusSteps DEF WriteCancel, Ended
  <1> QED BY <1>1, <1>2, <1>3

LEMMA CleanupSteps ==
  ASSUME Typed, Cleanup \/ \E s \in Sites : DeleteSite(s) \/ RestoreSite(s)
  PROVE  AllSteps
  <1>1. CASE Cleanup
    <2>1. ASSUME NEW j \in Jobs PROVE Steps(j)
      <3>1. job[j] \in Job /\ job'[j] = IF Stale(j) THEN [job[j] EXCEPT !.status = "FAILED"] ELSE job[j]
        BY <1>1 DEF Cleanup, Typed, TypeOK
      <3>2. CASE Stale(j)
        <4>1. job'[j].status = "FAILED" /\ job'[j].replace = job[j].replace /\ UNCHANGED <<old, worker>>
          BY <1>1, <3>1, <3>2 DEF Job, Cleanup, limits
        <4> QED BY <3>2, <4>1 DEF Steps, Failed, Stale, Working
      <3>3. CASE ~Stale(j)
        BY <1>1, <3>1, <3>3 DEF Steps, Untouched, Cleanup
      <3> QED BY <3>2, <3>3
    <2> QED BY <1>1, <2>1 DEF AllSteps, SitesFollow, Cleanup, limits
  <1>2. CASE \E s \in Sites : DeleteSite(s) \/ RestoreSite(s)
    <2>1. \A s \in Sites : site'[s].by = site[s].by
      BY <1>2 DEF DeleteSite, RestoreSite, Typed, TypeOK, Site
    <2> QED BY <1>2, <2>1, StillSteps DEF DeleteSite, RestoreSite, limits
  <1> QED BY <1>1, <1>2

LEMMA StepSteps == Typed /\ [Next]_vars => AllSteps
  <1> SUFFICES ASSUME Typed, [Next]_vars PROVE AllSteps
    OBVIOUS
  <1>1. CASE UNCHANGED vars
    BY <1>1, StillSteps DEF vars, limits
  <1> QED BY <1>1, RequestSteps, DispatchSteps, WorkerSteps, CleanupSteps DEF Next

-----------------------------------------------------------------------------
\* Nothing that is still to be written resurrects a job that has ended.
THEOREM NoJobRisesAgain == Spec => EndedStaysEnded
  <1>1. Typed /\ [Next]_vars =>
          [\A j \in Jobs :
             /\ job[j].status = "CANCELLED" => job'[j].status = "CANCELLED"
             /\ job[j].status = "FAILED" => job'[j].status \in {"FAILED", "CANCELLED"}
             /\ job[j].status = "COMPLETED" => job'[j].status = "COMPLETED" \/ j \in excused']_vars
    BY StepSteps DEF AllSteps, Steps, Untouched, Born, Advanced, Committed, Failed, Cancelled, Working
  <1> QED BY <1>1, AlwaysTyped, PTL DEF Spec, EndedStaysEnded

\* The dispatcher fails no job that a worker has claimed.
THEOREM ClaimIsRespected == Spec => []ClaimedIsTheWorkers
  <1>1. Init => ClaimedIsTheWorkers
    BY DEF Init, ClaimedIsTheWorkers
  <1>2. Typed /\ ClaimedIsTheWorkers /\ [Next]_vars => ClaimedIsTheWorkers'
    <2> SUFFICES ASSUME ClaimedIsTheWorkers, AllSteps, NEW j \in Jobs,
                        job'[j].status = "FAILED", worker'[j] \in Running
                 PROVE  j \in old'
      BY StepSteps DEF ClaimedIsTheWorkers
    <2>1. Steps(j) /\ old \subseteq old'
      BY DEF AllSteps
    <2>2. worker[j] \in Running
      BY <2>1 DEF Steps, Working
    <2> QED BY <2>1, <2>2 DEF Steps, ClaimedIsTheWorkers, Untouched, Born, Advanced, Committed, Failed,
                              Cancelled, Working
  <1> QED BY <1>1, <1>2, AlwaysTyped, PTL DEF Spec

\* The job of every site AI wrote counts for the month.
THEOREM SitesArePaidFor == Spec => []SitesAreBilled
  <1>1. Init => SitesAreBilled
    BY NoSiteAssumption DEF Init, SitesAreBilled
  <1>2. Typed /\ SitesAreBilled /\ [Next]_vars => SitesAreBilled'
    <2> SUFFICES ASSUME Typed, SitesAreBilled, AllSteps, NEW s \in Sites,
                        site'[s].by \in Jobs \ excused'
                 PROVE  /\ job'[site'[s].by].status = "COMPLETED"
                        /\ job'[site'[s].by].site = s
      BY StepSteps DEF SitesAreBilled
    <2> DEFINE j == site'[s].by
    <2>1. CASE site'[s].by = site[s].by
      <3>1. j \in Jobs \ excused /\ Steps(j)
        BY DEF AllSteps
      <3>2. job[j].status = "COMPLETED" /\ job[j].site = s
        BY <2>1, <3>1 DEF SitesAreBilled
      <3> QED BY <3>1, <3>2 DEF Steps, Untouched, Born, Advanced, Committed, Failed, Cancelled, Working
    <2>2. CASE Committed(j) /\ job'[j].site = s
      BY <2>2 DEF Committed
    <2> QED BY <2>1, <2>2 DEF AllSteps, SitesFollow
  <1> QED BY <1>1, <1>2, AlwaysTyped, PTL DEF Spec

-----------------------------------------------------------------------------
(* The site a worker's transaction found.  Until the transaction ends it is  *)
(* the one the job was to replace, and is there unless it was deleted since. *)

Held(j) ==
  found[j] \in Sites =>
    /\ worker[j] = "write" /\ found[j] = job[j].replace
    /\ site[found[j]].row = "there" \/ (site[found[j]].row = "deleted" /\ j \in overtaken)
AllHeld == \A j \in Jobs : Held(j)

\* What the steps of others leave of it.
Spared(j) ==
  /\ worker'[j] = worker[j] /\ found'[j] = found[j] /\ overtaken \subseteq overtaken'
  /\ \A s \in Sites :
       \/ site[s].row = "none"
       \/ site'[s].row \in {site[s].row, "there"}
       \/ site'[s].row = "deleted" /\ (found[j] = s => j \in overtaken')

LEMMA HeldKept ==
  ASSUME Typed, AllHeld, AllSteps, NEW j \in Jobs, Spared(j)
  PROVE  Held(j)'
  <1> SUFFICES ASSUME found[j] \in Sites PROVE Held(j)'
    BY DEF Held, Spared
  <1>1. /\ worker[j] = "write" /\ found[j] = job[j].replace
        /\ site[found[j]].row = "there" \/ (site[found[j]].row = "deleted" /\ j \in overtaken)
    BY DEF AllHeld, Held
  <1>2. job'[j].replace = job[j].replace
    BY <1>1 DEF Typed, Fits, AllSteps, Steps
  <1> QED BY <1>1, <1>2 DEF Held, Spared

\* A worker's step other than that read ends what it found, and deletes nothing.
LEMMA WorkerFrame ==
  ASSUME Typed, NEW j \in Jobs, Worker(j), ~FindsSite(j)
  PROVE  /\ \A k \in Jobs \ {j} : worker'[k] = worker[k] /\ found'[k] = found[k]
         /\ found'[j] = NoSite /\ UNCHANGED overtaken
         /\ \A s \in Sites : site[s].row = "none" \/ site'[s].row = site[s].row
  <1>1. PICK pc \in WorkerAt : At(j, pc)
    <2>1. CASE WorkerReads(j) \/ Claim(j) \/ Throws(j) \/ RecordFailure(j) \/ Killed(j)
      BY <2>1 DEF WorkerReads, Claim, Throws, RecordFailure, Killed, Answer, WorkerAt, Running
    <2>2. CASE StartContent(j) \/ CheckCancelled(j) \/ PageGenerated(j) \/ StartStyles(j)
      BY <2>2 DEF StartContent, CheckCancelled, PageGenerated, StartStyles, SetPhase, Stop, Answer,
                  WorkerAt, Running
    <2>3. CASE Persist(j) \/ PersistUnheard(j)
      BY <2>3 DEF Persist, PersistUnheard, Stop, Answer, WorkerAt
    <2> QED BY <2>1, <2>2, <2>3 DEF Worker
  <1>2. UNCHANGED overtaken
    BY DEF Worker, WorkerReads, Claim, StartContent, CheckCancelled, PageGenerated, StartStyles,
           Persist, PersistUnheard, Throws, RecordFailure, Killed
  <1>3. ASSUME NEW s \in Sites PROVE site[s].row = "none" \/ site'[s].row = site[s].row
    <2>1. UNCHANGED site \/ Commit(j)
      BY DEF Worker, WorkerReads, Claim, StartContent, CheckCancelled, PageGenerated, StartStyles,
             Persist, PersistUnheard, Throws, RecordFailure, Killed
    <2>2. CASE Commit(j)
      <3>1. PICK t \in Target(j) : Build(j, t)
        BY <2>2 DEF Commit
      <3> QED BY <3>1 DEF Build, Typed, TypeOK
    <2> QED BY <2>1, <2>2
  <1> QED BY <1>1, <1>2, <1>3, AtTyped

LEMMA StepHeld == Typed /\ AllSteps /\ AllHeld /\ [Next]_vars => AllHeld'
  <1> SUFFICES ASSUME Typed, AllSteps, AllHeld, [Next]_vars, NEW j \in Jobs PROVE Held(j)'
    BY DEF AllHeld
  <1>1. CASE UNCHANGED vars
    <2>1. Spared(j)
      BY <1>1 DEF vars, Spared
    <2> QED BY <2>1, HeldKept
  <1>2. ASSUME NEW k \in Jobs, Worker(k), ~FindsSite(k) PROVE Held(j)'
    <2>1. CASE j = k
      BY <1>2, <2>1, WorkerFrame, NoSiteAssumption DEF Held
    <2>2. CASE j # k
      <3>1. Spared(j)
        BY <1>2, <2>2, WorkerFrame DEF Spared
      <3> QED BY <3>1, HeldKept
    <2> QED BY <2>1, <2>2
  <1>3. ASSUME NEW k \in Jobs, FindsSite(k) PROVE Held(j)'
    <2>1. CASE j = k
      <3>1. /\ worker'[j] = "write" /\ UNCHANGED <<job, site>>
            /\ found'[j] \in Sites => found'[j] = job[j].replace /\ site[found'[j]].row = "there"
        BY <1>3, <2>1, NoSiteAssumption DEF FindsSite, IsThere, Typed, TypeOK
      <3> QED BY <3>1 DEF Held
    <2>2. CASE j # k
      <3>1. worker'[j] = worker[j] /\ found'[j] = found[j] /\ UNCHANGED <<site, overtaken>>
        BY <1>3, <2>2 DEF FindsSite, Typed, TypeOK
      <3>2. Spared(j)
        BY <3>1 DEF Spared
      <3> QED BY <3>2, HeldKept
    <2> QED BY <2>1, <2>2
  <1>4. ASSUME NEW s \in Sites, DeleteSite(s) PROVE Held(j)'
    <2>1. /\ UNCHANGED <<worker, found>> /\ overtaken \subseteq overtaken'
          /\ found[j] = s => j \in overtaken'
          /\ site'[s].row = "deleted" /\ \A t \in Sites \ {s} : site'[t] = site[t]
      BY <1>4 DEF DeleteSite, Typed, TypeOK, Site
    <2>2. Spared(j)
      BY <2>1 DEF Spared
    <2> QED BY <2>2, HeldKept
  <1>5. ASSUME NEW s \in Sites, RestoreSite(s) PROVE Held(j)'
    <2>1. /\ UNCHANGED <<worker, found, overtaken>>
          /\ site'[s].row = "there" /\ \A t \in Sites \ {s} : site'[t] = site[t]
      BY <1>5 DEF RestoreSite, Typed, TypeOK, Site
    <2>2. Spared(j)
      BY <2>1 DEF Spared
    <2> QED BY <2>2, HeldKept
  <1>6. ASSUME UNCHANGED <<worker, found, site, overtaken>> PROVE Held(j)'
    <2>1. Spared(j)
      BY <1>6 DEF Spared
    <2> QED BY <2>1, HeldKept
  <1>7. ASSUME NEW k \in Jobs, NEW s \in Sites \union {NoSite}, Create(k, s)
        PROVE  UNCHANGED <<worker, found, site, overtaken>>
    BY <1>7 DEF Create
  <1>8. ASSUME NEW k \in Jobs, CountMonth(k) \/ CountHour(k) \/ HourPasses(k)
        PROVE  UNCHANGED <<worker, found, site, overtaken>>
    BY <1>8 DEF CountMonth, CountHour, HourPasses
  <1>9. ASSUME NEW k \in Jobs,
               DispatchFails(k) \/ FailUnclaimed(k) \/ DispatchLost(k) \/ CheckCancel(k) \/ WriteCancel(k)
        PROVE  UNCHANGED <<worker, found, site, overtaken>>
    BY <1>9 DEF DispatchFails, FailUnclaimed, DispatchLost, CheckCancel, WriteCancel
  <1>10. ASSUME Cleanup PROVE UNCHANGED <<worker, found, site, overtaken>>
    BY <1>10 DEF Cleanup
  <1> QED BY <1>1, <1>2, <1>3, <1>4, <1>5, <1>6, <1>7, <1>8, <1>9, <1>10 DEF Next

\* A completion is a commit by a worker that had found what it writes to.
LEMMA CompletesByCommit ==
  ASSUME Typed, [Next]_vars, NEW j \in Jobs, job[j].status # "COMPLETED", job'[j].status = "COMPLETED"
  PROVE  Commit(j) /\ UNCHANGED overtaken
  <1>0. job \in [Jobs -> Job] /\ \A k \in Jobs : job[k] \in Job
    BY DEF Typed, TypeOK
  <1>1. PICK k \in Jobs : Persist(k) \/ PersistUnheard(k)
    <2>1. ASSUME NEW k \in Jobs, NEW s \in Sites \union {NoSite}, Create(k, s) PROVE FALSE
      BY <1>0, <2>1 DEF Create
    <2>2. ASSUME NEW k \in Jobs, NEW status, status # "COMPLETED",
                 job' = [job EXCEPT ![k].status = status]
          PROVE  FALSE
      <3>1. job'[j] = IF j = k THEN [job[j] EXCEPT !.status = status] ELSE job[j]
        BY <1>0, <2>2
      <3> QED BY <1>0, <2>2, <3>1 DEF Job
    <2>3. ASSUME Cleanup PROVE FALSE
      <3>1. job'[j] = IF Stale(j) THEN [job[j] EXCEPT !.status = "FAILED"] ELSE job[j]
        BY <2>3 DEF Cleanup
      <3> QED BY <1>0, <3>1 DEF Job
    <2>4. ASSUME NEW k \in Jobs, Worker(k), ~Persist(k), ~PersistUnheard(k) PROVE FALSE
      <3>1. CASE RecordFailure(k)
        <4>1. PICK status \in {"FAILED", "CANCELLED"} : job' = [job EXCEPT ![k].status = status]
          BY <1>0, <3>1 DEF RecordFailure
        <4> QED BY <2>2, <4>1
      <3>2. CASE StartContent(k) \/ PageGenerated(k) \/ StartStyles(k) \/ Claim(k)
        BY <2>2, <3>2 DEF StartContent, PageGenerated, StartStyles, Claim, SetPhase, Stop
      <3>3. UNCHANGED job => FALSE
        OBVIOUS
      <3> QED BY <2>4, <3>1, <3>2, <3>3
              DEF Worker, WorkerReads, CheckCancelled, Stop, FindsSite, Throws, Killed
    <2>5. ASSUME NEW k \in Jobs, FailUnclaimed(k) \/ WriteCancel(k) PROVE FALSE
      <3>1. CASE FailUnclaimed(k)
        <4>1. job' = [job EXCEPT ![k].status = "FAILED"] \/ job' = [job EXCEPT ![k].status = job[k].status]
          BY <3>1 DEF FailUnclaimed
        <4>2. CASE job' = [job EXCEPT ![k].status = job[k].status]
          <5>1. job' = job
            BY <1>0, <4>2 DEF Job
          <5> QED BY <5>1
        <4> QED BY <2>2, <4>1, <4>2
      <3>2. CASE WriteCancel(k)
        BY <2>2, <3>2 DEF WriteCancel
      <3> QED BY <2>5, <3>1, <3>2
    <2>6. ~UNCHANGED job
      OBVIOUS
    <2> QED BY <2>1, <2>3, <2>4, <2>5, <2>6
            DEF Next, vars, CountMonth, CountHour, HourPasses, DispatchFails, DispatchLost, CheckCancel,
                DeleteSite, RestoreSite
  <1>2. Commit(k) /\ UNCHANGED overtaken
    <2>1. ~UNCHANGED job
      OBVIOUS
    <2> QED BY <1>1, <2>1 DEF Persist, PersistUnheard, Stop
  <1>3. j = k
    BY <1>0, <1>2 DEF Commit
  <1> QED BY <1>2, <1>3

\* What a job hands over is its own, and is there unless it was deleted during
\* the worker's transaction.
THEOREM HandsOver == Spec => HandsOverItsOwn
  <1>1. Init => AllHeld
    BY NoSiteAssumption DEF Init, AllHeld, Held
  <1>2. Typed /\ AllHeld /\ [Next]_vars => AllHeld'
    BY StepSteps, StepHeld
  <1>3. Typed /\ AllHeld /\ [Next]_vars =>
          [\A j \in Jobs :
             job[j].status # "COMPLETED" /\ job'[j].status = "COMPLETED" =>
               \E s \in Sites :
                 /\ job'[j].site = s /\ site'[s].by = j
                 /\ site[s].row # "none" => s = job[j].replace
                 /\ site'[s].row = "there" \/ j \in overtaken]_vars
    <2> SUFFICES ASSUME Typed, AllHeld, [Next]_vars, NEW j \in Jobs,
                        job[j].status # "COMPLETED", job'[j].status = "COMPLETED"
                 PROVE  \E s \in Sites :
                          /\ job'[j].site = s /\ site'[s].by = j
                          /\ site[s].row # "none" => s = job[j].replace
                          /\ site'[s].row = "there" \/ j \in overtaken
      OBVIOUS
    <2>1. Commit(j)
      BY CompletesByCommit
    <2>2. PICK s \in Target(j) : Build(j, s) /\ job' = [job EXCEPT ![j].status = "COMPLETED", ![j].site = s]
      BY <2>1 DEF Commit
    <2>3. s \in Sites /\ job[j] \in Job /\ job \in [Jobs -> Job] /\ site \in [Sites -> Site]
      BY <2>2 DEF Target, Typed, TypeOK
    <2>4. job'[j].site = s
      BY <2>2, <2>3 DEF Job
    <2>5. site'[s].by = j /\ site'[s].row = IF site[s].row = "none" THEN "there" ELSE site[s].row
      BY <2>2, <2>3 DEF Build, Site
    <2>6. CASE found[j] \in Sites
      <3>1. s = found[j]
        BY <2>2, <2>6 DEF Target
      <3>2. s = job[j].replace /\ (site[s].row = "there" \/ j \in overtaken)
        BY <2>6, <3>1 DEF AllHeld, Held
      <3> QED BY <2>3, <2>4, <2>5, <3>2
    <2>7. CASE found[j] \notin Sites
      <3>1. site[s].row = "none"
        BY <2>2, <2>7 DEF Target
      <3> QED BY <2>3, <2>4, <2>5, <3>1
    <2> QED BY <2>6, <2>7
  <1> QED BY <1>1, <1>2, <1>3, AlwaysTyped, PTL DEF Spec, HandsOverItsOwn

-----------------------------------------------------------------------------
(* The limits.  A request that is past its count has room for its job, until *)
(* another one creates a job: from then on it is raced.                      *)

Charged == Counted \ raced
Throttled == Recent \ raced

Room(j) ==
  j \notin raced =>
    /\ request[j] \in {"month", "hour"} /\ Limit # -1 => Cardinality(Charged) < Limit
    /\ request[j] = "hour" => Cardinality(Throttled) < Hourly

Limited == LimitsHold /\ \A j \in Jobs : Room(j)

LEMMA ChargedFinite ==
  /\ IsFiniteSet(Charged) /\ Cardinality(Charged) \in Nat
  /\ IsFiniteSet(Throttled) /\ Cardinality(Throttled) \in Nat
  /\ IsFiniteSet(Counted) /\ Cardinality(Counted) \in Nat /\ Cardinality(Charged) <= Cardinality(Counted)
  /\ IsFiniteSet(Recent) /\ Cardinality(Recent) \in Nat /\ Cardinality(Throttled) <= Cardinality(Recent)
  <1>1. /\ Counted \subseteq Jobs /\ Recent \subseteq Jobs
        /\ Charged \subseteq Counted /\ Throttled \subseteq Recent
    BY DEF Charged, Throttled, Counted, Recent, Created
  <1>2. IsFiniteSet(Counted) /\ IsFiniteSet(Recent)
    BY <1>1, JobsAssumption, FS_Subset
  <1>3. IsFiniteSet(Charged) /\ IsFiniteSet(Throttled)
    BY <1>1, <1>2, FS_Subset
  <1>4. Cardinality(Charged) <= Cardinality(Counted) /\ Cardinality(Throttled) <= Cardinality(Recent)
    BY <1>1, <1>2, FS_Subset
  <1> QED BY <1>2, <1>3, <1>4, FS_CardinalityType

\* A step that creates no job charges nothing.
LEMMA NothingCharged ==
  ASSUME Typed, Typed', AllSteps, raced' = raced,
         \A j \in Jobs : request'[j] = "done" => request[j] = "done"
  PROVE  /\ Cardinality(Charged') <= Cardinality(Charged) /\ Cardinality(Charged') \in Nat
         /\ Cardinality(Throttled') <= Cardinality(Throttled) /\ Cardinality(Throttled') \in Nat
  <1>1. ASSUME NEW j \in Jobs, job'[j].status # "none"
        PROVE  /\ job[j].status # "none"
               /\ job[j].status \in {"CANCELLED", "FAILED"} => job'[j].status \in {"CANCELLED", "FAILED"}
    <2>1. job[j].status # "none"
      BY <1>1 DEF Typed, Fits
    <2> QED BY <2>1 DEF AllSteps, Steps, Untouched, Born, Advanced, Committed, Failed, Cancelled, Working
  <1>2. Charged' \subseteq Charged
    BY <1>1 DEF Charged, Counted, Created
  <1>3. Throttled' \subseteq Throttled
    BY <1>1 DEF Throttled, Recent, Created, AllSteps
  <1>4. /\ IsFiniteSet(Charged) /\ IsFiniteSet(Throttled)
    BY ChargedFinite
  <1>5. /\ Cardinality(Charged') <= Cardinality(Charged) /\ IsFiniteSet(Charged')
        /\ Cardinality(Throttled') <= Cardinality(Throttled) /\ IsFiniteSet(Throttled')
    BY <1>2, <1>3, <1>4, FS_Subset
  <1> QED BY <1>5, FS_CardinalityType

\* The steps that count nothing and create nothing.
LEMMA QuietLimited ==
  ASSUME Typed, Typed', AllSteps, Limited, UNCHANGED <<request, raced>>
  PROVE  Limited'
  <1>1. /\ Cardinality(Charged') <= Cardinality(Charged) /\ Cardinality(Charged') \in Nat
        /\ Cardinality(Throttled') <= Cardinality(Throttled) /\ Cardinality(Throttled') \in Nat
    BY NothingCharged
  <1>2. Cardinality(Charged) \in Nat /\ Cardinality(Throttled) \in Nat
    BY ChargedFinite
  <1>3. LimitsHold'
    BY <1>1, <1>2, LimitAssumption DEF Limited, LimitsHold, Charged, Throttled
  <1>4. \A j \in Jobs : Room(j)'
    BY <1>1, <1>2, LimitAssumption DEF Limited, Room
  <1> QED BY <1>3, <1>4 DEF Limited

\* A request that counts.
LEMMA CountLimited ==
  ASSUME Typed, Typed', AllSteps, Limited, NEW j \in Jobs, CountMonth(j) \/ CountHour(j)
  PROVE  Limited'
  <1>1. /\ UNCHANGED <<old, raced, job>> /\ \A k \in Jobs \ {j} : request'[k] = request[k]
        /\ request'[j] # "done"
    BY DEF CountMonth, CountHour, Typed, TypeOK
  <1>2. Charged' = Charged /\ Throttled' = Throttled
    BY <1>1 DEF Charged, Throttled, Counted, Recent, Created
  <1>3. LimitsHold'
    BY <1>2 DEF Limited, LimitsHold, Charged, Throttled
  <1>4. \A k \in Jobs \ {j} : Room(k)'
    BY <1>1, <1>2 DEF Limited, Room
  <1>5. Room(j)'
    <2>1. CASE CountMonth(j)
      <3>1. request'[j] = "month" /\ (Limit # -1 => Cardinality(Counted) < Limit)
        BY <2>1 DEF CountMonth, Typed, TypeOK
      <3> QED BY <1>2, <3>1, ChargedFinite, LimitAssumption DEF Room
    <2>2. CASE CountHour(j)
      <3>1. /\ request[j] = "month" /\ request'[j] \in {"hour", "idle"}
            /\ request'[j] = "hour" => Cardinality(Recent) < Hourly
        BY <2>2 DEF CountHour, Typed, TypeOK
      <3>2. j \notin raced => (Limit # -1 => Cardinality(Charged) < Limit)
        BY <3>1 DEF Limited, Room
      <3> QED BY <1>1, <1>2, <3>1, <3>2, ChargedFinite, LimitAssumption DEF Room
    <2> QED BY <2>1, <2>2
  <1> QED BY <1>3, <1>4, <1>5 DEF Limited

\* A job is created.
LEMMA CreateLimited ==
  ASSUME Typed, Typed', Limited, NEW j \in Jobs, NEW s \in Sites \union {NoSite}, Create(j, s)
  PROVE  Limited'
  <1>1. /\ request[j] = "hour" /\ request'[j] = "done" /\ UNCHANGED old
        /\ \A k \in Jobs \ {j} : job'[k] = job[k] /\ request'[k] = request[k]
    BY DEF Create, Typed, TypeOK
  <1>2. raced \subseteq raced' /\ (InFlight # {j} => InFlight \subseteq raced') /\ j \in InFlight
    BY <1>1 DEF Create, InFlight
  <1>3. Charged' \subseteq Charged \union {j} /\ Throttled' \subseteq Throttled \union {j}
    BY <1>1, <1>2 DEF Charged, Throttled, Counted, Recent, Created
  <1>4. \A k \in Jobs : Room(k)'
    <2>1. Room(j)'
      BY <1>1 DEF Room
    <2>2. ASSUME NEW k \in Jobs \ {j}, k \notin raced' PROVE request'[k] \notin {"month", "hour"}
      BY <1>1, <1>2, <2>2 DEF InFlight
    <2> QED BY <2>1, <2>2 DEF Room
  <1>5. CASE j \in raced'
    <2>1. Charged' \subseteq Charged /\ Throttled' \subseteq Throttled
      BY <1>3, <1>5 DEF Charged, Throttled
    <2>2. IsFiniteSet(Charged) /\ IsFiniteSet(Throttled) /\ Cardinality(Charged) \in Nat
          /\ Cardinality(Throttled) \in Nat
      BY ChargedFinite
    <2>3. /\ Cardinality(Charged') <= Cardinality(Charged) /\ IsFiniteSet(Charged')
          /\ Cardinality(Throttled') <= Cardinality(Throttled) /\ IsFiniteSet(Throttled')
      BY <2>1, <2>2, FS_Subset
    <2>4. Cardinality(Charged') \in Nat /\ Cardinality(Throttled') \in Nat
      BY <2>3, FS_CardinalityType
    <2> QED BY <1>4, <2>2, <2>3, <2>4, LimitAssumption DEF Limited, LimitsHold, Charged, Throttled
  <1>6. CASE j \notin raced'
    <2>1. /\ Limit # -1 => Cardinality(Charged) < Limit
          /\ Cardinality(Throttled) < Hourly
      BY <1>1, <1>2, <1>6 DEF Limited, Room
    <2>2. IsFiniteSet(Charged) /\ IsFiniteSet(Throttled) /\ Cardinality(Charged) \in Nat
          /\ Cardinality(Throttled) \in Nat
      BY ChargedFinite
    <2>3. ASSUME NEW S, IsFiniteSet(S), Cardinality(S) \in Nat
          PROVE  IsFiniteSet(S \union {j}) /\ Cardinality(S \union {j}) <= Cardinality(S) + 1
      <3>1. /\ IsFiniteSet(S \union {j})
            /\ Cardinality(S \union {j}) = IF j \in S THEN Cardinality(S) ELSE Cardinality(S) + 1
        BY <2>3, FS_AddElement
      <3> QED BY <2>3, <3>1
    <2>a. IsFiniteSet(Charged \union {j}) /\ Cardinality(Charged \union {j}) <= Cardinality(Charged) + 1
      BY <2>2, <2>3
    <2>b. IsFiniteSet(Throttled \union {j}) /\ Cardinality(Throttled \union {j}) <= Cardinality(Throttled) + 1
      BY <2>2, <2>3
    <2>4. /\ Cardinality(Charged') <= Cardinality(Charged \union {j}) /\ IsFiniteSet(Charged')
          /\ Cardinality(Throttled') <= Cardinality(Throttled \union {j}) /\ IsFiniteSet(Throttled')
      BY <1>3, <2>a, <2>b, FS_Subset
    <2>5. /\ Cardinality(Charged') \in Nat /\ Cardinality(Throttled') \in Nat
          /\ Cardinality(Charged \union {j}) \in Nat /\ Cardinality(Throttled \union {j}) \in Nat
      BY <2>a, <2>b, <2>4, FS_CardinalityType
    <2> QED BY <1>4, <2>1, <2>2, <2>a, <2>b, <2>4, <2>5, LimitAssumption
            DEF Limited, LimitsHold, Charged, Throttled
  <1> QED BY <1>5, <1>6

LEMMA StepLimited == Typed /\ Typed' /\ AllSteps /\ Limited /\ [Next]_vars => Limited'
  <1> SUFFICES ASSUME Typed, Typed', AllSteps, Limited, [Next]_vars PROVE Limited'
    OBVIOUS
  <1>1. CASE UNCHANGED vars
    BY <1>1, QuietLimited DEF vars, limits
  <1>2. ASSUME NEW j \in Jobs, CountMonth(j) \/ CountHour(j) PROVE Limited'
    BY <1>2, CountLimited
  <1>3. ASSUME NEW j \in Jobs, NEW s \in Sites \union {NoSite}, Create(j, s) PROVE Limited'
    BY <1>3, CreateLimited
  <1>4. ASSUME NEW j \in Jobs, HourPasses(j) PROVE Limited'
    BY <1>4, QuietLimited DEF HourPasses
  <1>5. ASSUME NEW j \in Jobs,
               DispatchFails(j) \/ FailUnclaimed(j) \/ DispatchLost(j) \/ CheckCancel(j) \/ WriteCancel(j)
        PROVE  Limited'
    BY <1>5, QuietLimited
       DEF DispatchFails, FailUnclaimed, DispatchLost, CheckCancel, WriteCancel, limits
  <1>6. ASSUME NEW j \in Jobs, Worker(j) PROVE Limited'
    <2>1. UNCHANGED limits
      BY <1>6 DEF Worker, WorkerReads, Claim, StartContent, CheckCancelled, PageGenerated, StartStyles,
                  FindsSite, Persist, PersistUnheard, Throws, RecordFailure, Killed
    <2> QED BY <2>1, QuietLimited DEF limits
  <1>7. CASE Cleanup \/ \E s \in Sites : DeleteSite(s) \/ RestoreSite(s)
    BY <1>7, QuietLimited DEF Cleanup, DeleteSite, RestoreSite, limits
  <1> QED BY <1>1, <1>2, <1>3, <1>4, <1>5, <1>6, <1>7 DEF Next

\* Requests that do not overlap keep to the monthly and the hourly limit.
THEOREM LimitsAreKept == Spec => []LimitsHold
  <1>1. Init => Limited
    <2> SUFFICES ASSUME Init PROVE Limited
      OBVIOUS
    <2>1. Charged = {} /\ Throttled = {}
      BY DEF Init, Charged, Throttled, Counted, Recent, Created
    <2>2. Cardinality(Charged) = 0 /\ Cardinality(Throttled) = 0
      BY <2>1, FS_EmptySet
    <2> QED BY <2>2, LimitAssumption DEF Limited, LimitsHold, Charged, Throttled, Room, Init
  <1>2. Typed /\ Typed' /\ Limited /\ [Next]_vars => Limited'
    BY StepSteps, StepLimited
  <1>3. Limited => LimitsHold
    BY DEF Limited
  <1> QED BY <1>1, <1>2, <1>3, AlwaysTyped, PTL DEF Spec
=============================================================================
