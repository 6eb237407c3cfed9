----------------------------- MODULE ReviewRound -----------------------------
(***************************************************************************)
(* The review rounds of one site and the publish gate that rests on them.  *)
(*                                                                         *)
(* A member submits the site, with the pages the editor has just rendered, *)
(* and may invite a client by a link (review.service.ts).  An admin, or    *)
(* the client through the link, approves the round or asks for changes     *)
(* (client-review.service.ts).  Where the workspace demands approval, a    *)
(* publish asks for the newest round that is not revoked                   *)
(* (publish.service.ts, publish-approval.ts).                              *)
(*                                                                         *)
(* None of these requests is a transaction: each reads, decides and then   *)
(* updates the row by its id.  An action is one statement on the database. *)
(* Rounds are numbered in the order of their createdAt.  Every user here   *)
(* may submit, resolve and publish; editsRequireApproval and agency_layer  *)
(* are on; a client is not a member.                                       *)
(***************************************************************************)
EXTENDS Naturals, FiniteSets

CONSTANTS
  Users,       \* members who are admins
  Exempt,      \* the users who are OWNER: the gate lets them pass
  Clients,     \* the addresses a round may be sent to
  Requests,    \* the requests under way at a time
  None,        \* no user, no client
  MaxRounds,   \* bound: the rounds of the site
  MaxVersion,  \* bound: the versions of the site
  MaxLinks,    \* bound: the links minted
  MaxRequests  \* bound: the requests in one history

ASSUME BoundsAssumption == MaxRounds \in Nat /\ MaxVersion \in Nat \ {0} /\ MaxLinks \in Nat /\ MaxRequests \in Nat
ASSUME PeopleAssumption ==
  /\ Exempt \subseteq Users
  /\ None \notin Users /\ None \notin Clients

VARIABLES
  version,    \* the site's content: lastEditedAt grows with it
  round,      \* the ReviewRequest rows
  minted,     \* the links minted so far
  request,    \* the requests under way
  begun       \* bound: the requests begun

vars == <<version, round, minted, request, begun>>

-----------------------------------------------------------------------------
Rounds == 1..MaxRounds
Versions == 1..MaxVersion
Verdicts == {"APPROVED", "CHANGES_REQUESTED"}
Row == [status : Verdicts \union {"none", "PENDING"},
        by : Users \union {None},          \* requestedById
        resolver : Users \union {None},    \* resolvedById
        signer : Clients \union {None},    \* reviewerId
        invited : Clients \union {None},   \* invitedEmail
        link : 0..MaxLinks,                \* token, 0 when there is none
        revoked : BOOLEAN,
        snap : {0} \union Versions,        \* snapshotPages
        on : {0} \union Versions,          \* the version at resolvedAt
        shown : {0} \union Versions]       \* history: the snapshot it answers
NoRow == [status |-> "none", by |-> None, resolver |-> None, signer |-> None,
          invited |-> None, link |-> 0, revoked |-> FALSE,
          snap |-> 0, on |-> 0, shown |-> 0]
Steps == {"idle", "create", "refind", "update", "token", "supersede", "latest", "prune",
          "resolve", "answer", "sign", "revoke", "gate", "queue"}
Request == [at : Steps, by : Users \union {None}, client : Clients \union {None},
            id : {0} \union Rounds,
            fresh : BOOLEAN,               \* row id is as it was when it was read
            opened : BOOLEAN, pages : {0} \union Versions, verdict : Verdicts,
            link : 0..MaxLinks, ack : BOOLEAN]
NoRequest == [at |-> "idle", by |-> None, client |-> None, id |-> 0, fresh |-> FALSE,
              opened |-> FALSE, pages |-> 0, verdict |-> "APPROVED", link |-> 0,
              ack |-> FALSE]

Created == {i \in Rounds : round[i].status # "none"}
Newest(S) == CHOOSE i \in S : \A j \in S : j <= i
Pending == {i \in Rounds : round[i].status = "PENDING"}
\* A link also dies of age: then its client does not answer, which they need not.
Live(row) == row.link # 0 /\ ~row.revoked

Init ==
  /\ version = 1
  /\ round = [i \in Rounds |-> NoRow]
  /\ minted = 0
  /\ request = [q \in Requests |-> NoRequest]
  /\ begun = 0

-----------------------------------------------------------------------------
(* What the requests are made of.                                          *)

\* A read: the request goes on with what it read.
Goes(q, fields) ==
  /\ request' = [request EXCEPT ![q] = fields]
  /\ UNCHANGED <<version, round>>

Begins(q, fields) ==
  /\ request[q] = NoRequest /\ begun < MaxRequests
  /\ begun' = begun + 1
  /\ Goes(q, fields)
  /\ UNCHANGED minted

\* A write to the rows in S: their updatedAt moves, so a revision somebody
\* holds of them is out of date.
Writes(q, S, written, fields) ==
  /\ round' = [i \in Rounds |-> IF i \in S THEN written[i] ELSE round[i]]
  /\ request' = [p \in Requests |->
       IF p = q THEN fields
       ELSE [request[p] EXCEPT !.fresh = @ /\ request[p].id \notin S]]
  /\ UNCHANGED <<version>>

\* A request fails, is refused or dies between two statements.
Fails(q) ==
  /\ request[q] # NoRequest
  /\ Goes(q, NoRequest)
  /\ UNCHANGED <<minted, begun>>

-----------------------------------------------------------------------------
(* submitReview.                                                           *)

\* The pages are those of the site as it is, or none were rendered.
Submit(q, by, client, pages) ==
  /\ pages \in {0, version}
  /\ LET found == [NoRequest EXCEPT !.by = by, !.client = client, !.pages = pages] IN
     IF Pending = {}
     THEN Begins(q, [found EXCEPT !.at = "create"])
     ELSE \E i \in Pending :
            Begins(q, [found EXCEPT !.at = "update", !.id = i, !.fresh = TRUE])

\* The token only if a client is invited, the rest only for a new round.
AfterRow(q, i, opened) ==
  [request[q] EXCEPT !.at = IF request[q].client # None THEN "token"
                            ELSE IF opened THEN "supersede" ELSE "latest",
                     !.id = i, !.fresh = FALSE, !.opened = opened,
                     !.pages = 0, !.by = None]

SubmitCreates(q) ==
  /\ request[q].at = "create"
  /\ IF Pending # {}
     THEN Goes(q, [request[q] EXCEPT !.at = "refind"])
     ELSE LET i == Cardinality(Created) + 1 IN
       /\ i <= MaxRounds
       /\ Writes(q, {i}, [j \in Rounds |-> [NoRow EXCEPT !.status = "PENDING", !.by = request[q].by,
                                                         !.snap = request[q].pages]],
                 AfterRow(q, i, TRUE))
  /\ UNCHANGED <<minted, begun>>

\* P2002: the winner is updated instead; without one the error is thrown.
SubmitRefinds(q) ==
  /\ request[q].at = "refind"
  /\ IF Pending = {} THEN Goes(q, NoRequest)
     ELSE \E i \in Pending :
            Goes(q, [request[q] EXCEPT !.at = "update", !.id = i, !.fresh = TRUE])
  /\ UNCHANGED <<minted, begun>>

\* By id, whatever has become of the row.
SubmitUpdates(q) ==
  /\ request[q].at = "update"
  /\ LET i == request[q].id
         pages == request[q].pages IN
       Writes(q, {i}, [j \in Rounds |-> [round[j] EXCEPT !.by = request[q].by,
                                                         !.snap = IF pages # 0 THEN pages ELSE @]],
              AfterRow(q, i, FALSE))
  /\ UNCHANGED <<minted, begun>>

\* issueReviewToken: the signature of an earlier reviewer stays on the row.
IssueReviewToken(q) ==
  /\ request[q].at = "token" /\ minted < MaxLinks
  /\ minted' = minted + 1
  /\ Writes(q, {request[q].id},
            [j \in Rounds |-> [round[j] EXCEPT !.link = minted', !.revoked = FALSE,
                                               !.invited = request[q].client]],
            [request[q] EXCEPT !.at = IF request[q].opened THEN "supersede" ELSE "latest"])
  /\ UNCHANGED begun

\* A new round kills the links of all the others.
Supersede(q) ==
  /\ request[q].at = "supersede"
  /\ Writes(q, {i \in Rounds \ {request[q].id} : round[i].link # 0 /\ ~round[i].revoked},
            [j \in Rounds |-> [round[j] EXCEPT !.revoked = TRUE]],
            [request[q] EXCEPT !.at = "latest"])
  /\ UNCHANGED <<minted, begun>>

PruneReadsLatest(q) ==
  /\ request[q].at = "latest"
  /\ Goes(q, [NoRequest EXCEPT !.at = "prune", !.id = Newest(Created)])
  /\ UNCHANGED <<minted, begun>>

\* (mutant) The latest round is not spared.
PruneAll(q) ==
  /\ request[q].at = "prune"
  /\ Writes(q, {i \in Created : round[i].status # "APPROVED"},
            [j \in Rounds |-> [round[j] EXCEPT !.snap = 0]], NoRequest)
  /\ UNCHANGED <<minted, begun>>

Prune(q) ==
  /\ request[q].at = "prune"
  /\ Writes(q, {i \in Created \ {request[q].id} : round[i].status # "APPROVED"},
            [j \in Rounds |-> [round[j] EXCEPT !.snap = 0]], NoRequest)
  /\ UNCHANGED <<minted, begun>>

-----------------------------------------------------------------------------
(* Answers.                                                                *)

\* (mutant) Who submitted the round may resolve it.
ResolveReadsOwn(q, i, by, verdict) ==
  /\ round[i].status = "PENDING"
  /\ Begins(q, [NoRequest EXCEPT !.at = "resolve", !.by = by, !.id = i, !.fresh = TRUE,
                                 !.pages = round[i].snap, !.verdict = verdict])

\* (mutant) An answered round may be resolved again.
ResolveReadsAnswered(q, i, by, verdict) ==
  /\ i \in Created /\ round[i].by # by
  /\ Begins(q, [NoRequest EXCEPT !.at = "resolve", !.by = by, !.id = i, !.fresh = TRUE,
                                 !.pages = round[i].snap, !.verdict = verdict])

\* resolveReview: a PENDING round of somebody else's, revoked or not.
ResolveReads(q, i, by, verdict) ==
  /\ round[i].status = "PENDING" /\ round[i].by # by
  /\ Begins(q, [NoRequest EXCEPT !.at = "resolve", !.by = by, !.id = i, !.fresh = TRUE,
                                 !.pages = round[i].snap, !.verdict = verdict])

ResolveWrites(q) ==
  /\ request[q].at = "resolve"
  /\ Writes(q, {request[q].id},
            [j \in Rounds |-> [round[j] EXCEPT !.status = request[q].verdict,
                                               !.resolver = request[q].by, !.on = version,
                                               !.shown = request[q].pages]],
            NoRequest)
  /\ UNCHANGED <<minted, begun>>

\* resolveReviewByToken: whoever holds the link, once somebody has signed.
AnswerReads(q, i, verdict) ==
  /\ Live(round[i]) /\ round[i].signer # None /\ round[i].status = "PENDING"
  /\ Begins(q, [NoRequest EXCEPT !.at = "answer", !.id = i, !.fresh = TRUE, !.client = round[i].signer,
                                 !.pages = round[i].snap, !.verdict = verdict])

AnswerWrites(q) ==
  /\ request[q].at = "answer"
  /\ Writes(q, {request[q].id},
            [j \in Rounds |-> [round[j] EXCEPT !.status = request[q].verdict,
                                               !.signer = request[q].client, !.on = version,
                                               !.shown = request[q].pages]],
            NoRequest)
  /\ UNCHANGED <<minted, begun>>

\* identifyReviewer: the invited address, and no other, may sign; also when the
\* round has been answered.
SignReads(q, i) ==
  /\ Live(round[i]) /\ round[i].invited # None
  /\ Begins(q, [NoRequest EXCEPT !.at = "sign", !.id = i, !.client = round[i].invited])

SignWrites(q) ==
  /\ request[q].at = "sign"
  /\ Writes(q, {request[q].id}, [j \in Rounds |-> [round[j] EXCEPT !.signer = request[q].client]],
            NoRequest)
  /\ UNCHANGED <<minted, begun>>

\* revokeReviewRound: the revision is the one the editor was shown, with the
\* current round or in the queue.
RevokeReads(q, i) ==
  /\ i \in Created
  /\ Begins(q, [NoRequest EXCEPT !.at = "revoke", !.id = i, !.link = round[i].link, !.fresh = TRUE])

\* (mutant) The revision is not compared.
RevokeWritesAnyway(q) ==
  /\ request[q].at = "revoke"
  /\ Writes(q, {request[q].id}, [j \in Rounds |-> [round[j] EXCEPT !.revoked = TRUE]], NoRequest)
  /\ UNCHANGED <<minted, begun>>

RevokeWrites(q) ==
  /\ request[q].at = "revoke"
  /\ LET i == request[q].id IN
     IF request[q].fresh /\ ~round[i].revoked
     THEN Writes(q, {i}, [j \in Rounds |-> [round[j] EXCEPT !.revoked = TRUE]], NoRequest)
     ELSE Goes(q, NoRequest)
  /\ UNCHANGED <<minted, begun>>

-----------------------------------------------------------------------------
(* The gate of startPublish.                                               *)

\* The editor's pages are those of the site as it is read here; an older copy
\* is refused with SAVE_CONFLICT.
PublishReadsSite(q, by, ack) ==
  Begins(q, [NoRequest EXCEPT !.at = "gate", !.by = by, !.pages = version, !.ack = ack])

Stale(q, row) == request[q].pages > row.on

\* publishApprovalBlock on the newest round that is not revoked.
Gate(q) ==
  /\ request[q].at = "gate"
  /\ LET standing == {i \in Created : ~round[i].revoked} IN
     IF request[q].by \in Exempt
     THEN Goes(q, [request[q] EXCEPT !.at = "queue"])
     ELSE /\ standing # {}
          /\ LET i == Newest(standing) IN
               /\ round[i].status = "APPROVED"
               /\ Stale(q, round[i]) => request[q].ack
               /\ Goes(q, [request[q] EXCEPT !.at = "queue", !.id = i])
  /\ UNCHANGED <<minted, begun>>

\* The job is created.
PublishQueues(q) ==
  /\ request[q].at = "queue"
  /\ Goes(q, NoRequest)
  /\ UNCHANGED <<minted, begun>>

-----------------------------------------------------------------------------
(* The editor saves.                                                       *)

Edit ==
  /\ version < MaxVersion
  /\ version' = version + 1
  /\ UNCHANGED <<round, minted, request, begun>>

Submits(q) ==
  \/ \E by \in Users, client \in Clients \union {None}, pages \in {0} \union Versions :
       Submit(q, by, client, pages)
  \/ SubmitCreates(q) \/ SubmitRefinds(q) \/ SubmitUpdates(q) \/ IssueReviewToken(q)
  \/ Supersede(q) \/ PruneReadsLatest(q) \/ Prune(q)

Answers(q) ==
  \/ \E i \in Rounds, verdict \in Verdicts :
       (\E by \in Users : ResolveReads(q, i, by, verdict)) \/ AnswerReads(q, i, verdict)
  \/ \E i \in Rounds : SignReads(q, i) \/ RevokeReads(q, i)
  \/ ResolveWrites(q) \/ AnswerWrites(q) \/ SignWrites(q) \/ RevokeWrites(q)

Publishes(q) ==
  \/ \E by \in Users, ack \in BOOLEAN : PublishReadsSite(q, by, ack)
  \/ Gate(q) \/ PublishQueues(q)

Next ==
  \/ \E q \in Requests : Submits(q) \/ Answers(q) \/ Publishes(q) \/ Fails(q)
  \/ Edit

Spec == Init /\ [][Next]_vars
=============================================================================
