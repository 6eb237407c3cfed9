--------------------------- MODULE ReviewProperties ---------------------------
(* What an answer to a review, a withdrawal and an approved publish promise. *)
EXTENDS ReviewRound

\* Every variable has its type, and the unique index its one PENDING row.
TypeOK ==
  /\ Cardinality(Pending) <= 1
  /\ version \in Versions
  /\ round \in [Rounds -> Row]
  /\ minted \in 0..MaxLinks /\ begun \in 0..MaxRequests
  /\ request \in [Requests -> Request]

(* An answered round is sound: it was answered by somebody other than its  *)
(* submitter, a client's answer is signed, and the pages it keeps are the  *)
(* pages that were answered.                                               *)
Sound(i) ==
  round[i].status \in Verdicts =>
    /\ round[i].resolver # round[i].by
    /\ round[i].resolver = None => round[i].signer # None
    /\ round[i].snap \in {0, round[i].shown}

(* Only a write whose row changed after it was read makes a round unsound: *)
(* of requests that follow one another none does (review.service.ts:92-121,*)
(* 527-549, client-review.service.ts:329-376).                             *)
OverlooksChange(q, i) ==
  /\ request[q].id = i /\ request[q].at \in {"update", "resolve", "answer"}
  /\ ~request[q].fresh
SoundnessKept ==
  [][\A i \in Rounds : Sound(i) => Sound(i)' \/ \E q \in Requests : OverlooksChange(q, i)]_vars

(* A withdrawal kills the link that was shown to who withdrew it, never    *)
(* the one of a re-send that came between (review.service.ts:454-480); all *)
(* else that revokes a round is a newer round's submission.                *)
WithdrawalIsFresh ==
  [][\A i \in Rounds : round'[i].revoked /\ ~round[i].revoked =>
       \E q \in Requests :
         \/ request[q].at = "revoke" /\ request[q].id = i /\ request[q].link = round[i].link
         \/ request[q].at = "supersede" /\ request[q].id # i]_vars

(* The newest round keeps the pages it was sent with: only a pruning that  *)
(* read its newest round before this one was created takes them            *)
(* (review.service.ts:163-175).                                            *)
NewestKeepsPages ==
  [][\A i \in Created : i = Newest(Created) /\ round[i].snap # 0 /\ round'[i].snap = 0 =>
       \E q \in Requests : request[q].at = "prune" /\ request[q].id < i]_vars

\* The publish q has passed the gate on a round, and its job is not created yet.
Cleared(q) == request[q].at = "queue" /\ request[q].id # 0

\* That round lets it pass: the newest that stands, approved, and the pages are no
\* newer than the answer unless that was acknowledged.
Covers(q) ==
  LET i == request[q].id IN
  /\ round[i].status = "APPROVED" /\ ~round[i].revoked
  /\ \A j \in Created : j > i => round[j].revoked
  /\ request[q].pages <= round[i].on \/ request[q].ack

\* What may take the approval of round i from a publish that rests on it.
TakesAway(p, i) ==
  \/ request[p].at = "revoke" /\ request[p].id = i /\ request[p].fresh
  \/ request[p].at = "supersede" /\ request[p].id # i
  \/ request[p].at = "create"
  \/ request[p].at = "token" /\ request[p].id > i
  \/ request[p].at \in {"resolve", "answer"} /\ request[p].id = i /\ ~request[p].fresh

(* From the gate to its job a publish rests on an approval that covers it, *)
(* unless meanwhile that round is withdrawn, a newer round is created,     *)
(* revived by a re-send or kills its link, or an answer is written over    *)
(* the approval by somebody who had read the round unanswered: no other    *)
(* request that overlaps takes an approval back (publish.service.ts:447-   *)
(* 506, publish-approval.ts:58-99).                                        *)
ClearedStaysCovered ==
  [][\A q \in Requests : Cleared(q)' /\ (Cleared(q) => Covers(q)) =>
       Covers(q)' \/ \E p \in Requests : TakesAway(p, request'[q].id)]_vars

\* The publish q passes the gate on round i, unacknowledged.
PassesOn(q, i) ==
  /\ request[q].at = "gate" /\ ~request[q].ack
  /\ request'[q].at = "queue" /\ request'[q].id = i

(* "An approval covers the version that was approved, not later edits":    *)
(* what is published on a client's approval, unacknowledged, is what the   *)
(* client was shown (publish-approval.ts:18-21).                           *)
PublishedWasShown ==
  [][\A q \in Requests, i \in Rounds : PassesOn(q, i) /\ round[i].resolver = None =>
       request[q].pages <= round[i].shown \/ round[i].shown = 0]_vars
=============================================================================
