-------------------------- MODULE PublishInvariants --------------------------
(***************************************************************************)
(* Why the publish pipeline is safe: the inductive invariant behind the     *)
(* properties of PublishPipeline.  It says who may still hold a reference   *)
(* to a row (a startPublish call, an invocation, a cancel, the sweep) given *)
(* what the row's own columns say.                                         *)
(***************************************************************************)
EXTENDS PublishPipeline

\* The steps of a call of startPublish before its insert.
Early == {"idle", "strand", "gate", "create"}

\* A job that has no row yet is known to nobody but its own call.
NoRowNoReference ==
  \A j \in Jobs :
    /\ start[j].pc \in Early => row[j].status = "NONE"
    /\ row[j].status = "NONE" =>
         /\ row[j] = NoRow
         /\ start[j].pc \in Early \union {"refused"}
         /\ cancel[j] = "none"
         /\ sweep.job # j
         /\ \A w \in Workers : worker[w].job # j

\* An invocation got past the claim only if the job is claimed; and a claimed
\* job is never QUEUED again.
HoldersClaimed ==
  /\ \A j \in Jobs : row[j].status \in {"NONE", "QUEUED"} => ~row[j].started
  /\ \A w \in Workers : Holds(w) => row[worker[w].job].started

\* An old row has no invocation that holds it, and none will come; one past
\* the cron's cutoff has none at all.
OldRowsAbandoned ==
  \A j \in Jobs :
    /\ row[j].age # "fresh" => /\ start[j].pc \in {"returned", "refused"}
                               /\ \A w \in Workers : worker[w].job = j => ~Holds(w)
    /\ row[j].age = "expired" => \A w \in Workers : worker[w].job # j

\* The row that the cron read is still expired when it comes to write it.
SweepStillRight == sweep # NoSweep => row[sweep.job].age = "expired"

\* A row that was swept is old, and ended.
SweptRowsOld ==
  \A j \in Jobs : row[j].error \in {"stranded", "cron"} =>
    row[j].age # "fresh" /\ row[j].status \in {"FAILED", "CANCELLED"}

\* An invocation that goes on after the deploy has recorded it.
VerifiedIsRecorded ==
  \A w \in Workers :
    worker[w].pc \in {"verify", "complete", "prune"} => row[worker[w].job].deploymentId

\* Whoever believes that the site was published, believes it rightly: the
\* site's row, and everyone who read its publishedUrl and has yet to write.
SomeCompleted == \E j \in Jobs : row[j].completedAt > 0

BelievedPublished ==
  \/ site.status = "PUBLISHED" \/ site.url
  \/ \E j \in Jobs : start[j].url \/ cancel[j] = "url"
  \/ \E w \in Workers : worker[w].url
  \/ sweep.url

BeliefIsTrue == BelievedPublished => SomeCompleted

References ==
  /\ NoRowNoReference
  /\ HoldersClaimed
  /\ OldRowsAbandoned
  /\ SweepStillRight
  /\ SweptRowsOld
  /\ VerifiedIsRecorded
  /\ BeliefIsTrue
=============================================================================
