------------------------------ MODULE ReviewProofs ------------------------------
(* What holds of a site's review rounds for any number of users, clients,     *)
(* requests, rounds and versions.                                             *)
EXTENDS ReviewProperties, FiniteSetTheorems, WellFoundedInduction, TLAPS

Types ==
  /\ version \in Versions
  /\ round \in [Rounds -> Row]
  /\ minted \in 0..MaxLinks /\ begun \in 0..MaxRequests
  /\ request \in [Requests -> Request]

\* What a request holds is of a round that exists, and as long as that round was
\* not written since, it is what the round says.
FitsAs(r) ==
  /\ r.at \in {"create", "refind", "update", "resolve"} => r.by \in Users
  /\ r.at \in {"answer", "sign"} => r.client \in Clients
  /\ r.at \in {"update", "token", "supersede", "latest", "prune", "resolve", "answer", "sign", "revoke"}
       => r.id \in Created
  /\ r.at = "gate" => r.id = 0
  /\ r.at \in {"update", "resolve", "answer"} /\ r.fresh => round[r.id].status = "PENDING"
  /\ r.at = "resolve" /\ r.fresh => round[r.id].by # r.by
  /\ r.at \in {"resolve", "answer"} /\ r.fresh => round[r.id].snap = r.pages
  /\ r.at = "revoke" /\ r.fresh => round[r.id].link = r.link
Fits(q) == FitsAs(request[q])

\* A round that waits has a submitter and no resolver, and it waits alone.
Waiting == \A i \in Pending : round[i].by \in Users /\ round[i].resolver = None
Alone == \A i, j \in Pending : i = j
\* Rounds are numbered without a gap.
Numbered == \E n \in 0..MaxRounds : Created = 1..n

\* What was never sent has no link.
Blank == \A i \in Rounds \ Created : round[i].link = 0

IInv == Types /\ (\A q \in Requests : Fits(q)) /\ Waiting /\ Alone /\ Numbered /\ Blank

LEMMA NoRequestTyped == NoRequest \in Request
  <1>1. 0 \in 0..MaxLinks
    BY BoundsAssumption
  <1> QED BY <1>1 DEF NoRequest, Request, Steps, Verdicts

LEMMA NoRowTyped == NoRow \in Row
  <1>1. 0 \in 0..MaxLinks
    BY BoundsAssumption
  <1> QED BY <1>1 DEF NoRow, Row, Verdicts

\* A request whose row is written hears of it.
LEMMA HeardTyped ==
  ASSUME NEW r \in Request, NEW S
  PROVE  [r EXCEPT !.fresh = @ /\ r.id \notin S] \in Request
  <1>1. (r.fresh /\ r.id \notin S) \in BOOLEAN
    OBVIOUS
  <1> QED BY <1>1 DEF Request

LEMMA InitInv == Init => IInv
  <1> SUFFICES ASSUME Init PROVE IInv
    OBVIOUS
  <1>2. Types
    BY NoRowTyped, NoRequestTyped, BoundsAssumption DEF Init, Types, Versions
  <1>3. Created = {} /\ Pending = {} /\ 1..0 = {}
    BY DEF Init, Created, Pending, NoRow
  <1>4. Numbered
    BY <1>3, BoundsAssumption DEF Numbered
  <1>5. \A q \in Requests : Fits(q)
    BY DEF Init, Fits, FitsAs, NoRequest
  <1>6. Blank
    BY DEF Init, Blank, NoRow
  <1> QED BY <1>2, <1>3, <1>4, <1>5, <1>6 DEF IInv, Waiting, Alone

-----------------------------------------------------------------------------
(* Reads and writes.                                                       *)

\* A request that only goes on.
LEMMA ReadsInv ==
  ASSUME IInv, NEW q \in Requests, NEW fields \in Request, Goes(q, fields),
         minted' \in 0..MaxLinks, begun' \in 0..MaxRequests,
         Fits(q)'
  PROVE  IInv'
  <1>1. /\ UNCHANGED <<version, round>> /\ request' \in [Requests -> Request]
        /\ \A p \in Requests \ {q} : request'[p] = request[p]
    BY DEF Goes, IInv, Types
  <1>2. \A p \in Requests \ {q} : Fits(p)'
    BY <1>1 DEF IInv, Fits, FitsAs, Created
  <1>3. Types'
    BY <1>1 DEF IInv, Types
  <1>4. Waiting' /\ Alone' /\ Numbered' /\ Blank'
    BY <1>1 DEF IInv, Waiting, Alone, Numbered, Blank, Created, Pending
  <1> QED BY <1>2, <1>3, <1>4 DEF IInv

\* The others hear of the rows that are written.
Hear(q, S, fields) ==
  request' = [p \in Requests |->
    IF p = q THEN fields ELSE [request[p] EXCEPT !.fresh = @ /\ request[p].id \notin S]]

LEMMA OthersHear ==
  ASSUME IInv, NEW q \in Requests, NEW S, NEW fields \in Request, Hear(q, S, fields)
  PROVE  /\ request' \in [Requests -> Request] /\ request'[q] = fields
         /\ \A p \in Requests \ {q} :
              /\ request'[p].at = request[p].at /\ request'[p].by = request[p].by
              /\ request'[p].client = request[p].client /\ request'[p].id = request[p].id
              /\ request'[p].pages = request[p].pages /\ request'[p].link = request[p].link
              /\ request'[p].fresh => request[p].fresh /\ request[p].id \notin S
  <1>1. request'[q] = fields /\ DOMAIN request' = Requests
    BY DEF Hear
  <1>2. ASSUME NEW p \in Requests \ {q}
        PROVE  /\ request'[p] \in Request
               /\ request'[p].at = request[p].at /\ request'[p].by = request[p].by
               /\ request'[p].client = request[p].client /\ request'[p].id = request[p].id
               /\ request'[p].pages = request[p].pages /\ request'[p].link = request[p].link
               /\ request'[p].fresh => request[p].fresh /\ request[p].id \notin S
    <2>1. request'[p] = [request[p] EXCEPT !.fresh = @ /\ request[p].id \notin S]
      BY DEF Hear
    <2>2. request[p] \in Request
      BY DEF IInv, Types
    <2> QED BY <2>1, <2>2, HeardTyped DEF Request
  <1>3. request' \in [Requests -> Request]
    BY <1>1, <1>2 DEF Hear
  <1> QED BY <1>1, <1>2, <1>3

LEMMA OthersFit ==
  ASSUME IInv, NEW q \in Requests, NEW S, NEW fields \in Request, Hear(q, S, fields),
         Created \subseteq Created', \A i \in Rounds \ S : round'[i] = round[i]
  PROVE  \A p \in Requests \ {q} : Fits(p)'
  <1> TAKE p \in Requests \ {q}
  <1>1. Fits(p) /\ Created \subseteq Rounds
    BY DEF IInv, Created
  <1>2. /\ request'[p].at = request[p].at /\ request'[p].by = request[p].by
        /\ request'[p].client = request[p].client /\ request'[p].id = request[p].id
        /\ request'[p].pages = request[p].pages /\ request'[p].link = request[p].link
        /\ request'[p].fresh => request[p].fresh /\ request[p].id \notin S
    BY OthersHear
  <1>3. request[p].id \in Rounds \ S => round'[request[p].id] = round[request[p].id]
    OBVIOUS
  <1> QED BY <1>1, <1>2, <1>3 DEF Fits, FitsAs

\* A write to the rows in S, which exist: none begins to wait.
LEMMA WritesInv ==
  ASSUME IInv, NEW q \in Requests, NEW fields \in Request, NEW S \in SUBSET Created,
         UNCHANGED <<version, begun>>, minted' \in 0..MaxLinks, Hear(q, S, fields),
         round' \in [Rounds -> Row], \A i \in Rounds \ S : round'[i] = round[i],
         \A i \in S : /\ round'[i].status # "none"
                      /\ round'[i].status = "PENDING" =>
                           /\ round[i].status = "PENDING" /\ round'[i].by \in Users
                           /\ round'[i].resolver = round[i].resolver,
         fields.at \in {"idle", "token", "supersede", "latest"},
         fields.at # "idle" => fields.id \in Created
  PROVE  IInv'
  <1>1. Created' = Created /\ Pending' \subseteq Pending
    BY DEF Created, Pending
  <1>2. request' \in [Requests -> Request] /\ request'[q] = fields
    BY OthersHear
  <1>3. \A p \in Requests \ {q} : Fits(p)'
    BY <1>1, OthersFit
  <1>4. Fits(q)'
    BY <1>1, <1>2 DEF Fits, FitsAs
  <1>6. Types'
    BY <1>2 DEF IInv, Types
  <1>7. Waiting'
    BY <1>1 DEF IInv, Waiting, Pending
  <1>8. Alone' /\ Numbered' /\ Blank'
    BY <1>1 DEF IInv, Alone, Numbered, Blank
  <1> QED BY <1>3, <1>4, <1>6, <1>7, <1>8 DEF IInv

-----------------------------------------------------------------------------
(* The actions.                                                            *)

\* The next number is that of no round yet.
LEMMA NextNumber ==
  ASSUME IInv
  PROVE  /\ Cardinality(Created) + 1 \in Nat /\ Cardinality(Created) + 1 \notin Created
         /\ Created \union {Cardinality(Created) + 1} = 1..(Cardinality(Created) + 1)
         /\ \A i \in Created : i <= Cardinality(Created)
  <1>1. PICK n \in 0..MaxRounds : Created = 1..n
    BY DEF IInv, Numbered
  <1>2. n \in Nat
    BY <1>1, BoundsAssumption
  <1>3. Cardinality(1..n) = IF 1 > n THEN 0 ELSE n - 1 + 1
    BY <1>2, FS_Interval
  <1>4. Cardinality(Created) = n
    BY <1>1, <1>2, <1>3
  <1> QED BY <1>1, <1>2, <1>4

LEMMA SubmitInv ==
  ASSUME IInv, NEW q \in Requests, NEW by \in Users, NEW client \in Clients \union {None},
         NEW pages \in {0} \union Versions, Submit(q, by, client, pages)
  PROVE  IInv'
  <1> DEFINE found == [NoRequest EXCEPT !.by = by, !.client = client, !.pages = pages]
  <1>1. begun < MaxRequests => begun + 1 \in 0..MaxRequests
    BY BoundsAssumption DEF IInv, Types
  <1>2. CASE Pending = {}
    <2> DEFINE fields == [found EXCEPT !.at = "create"]
    <2>1. fields \in Request /\ fields.at = "create" /\ fields.by = by
      BY NoRequestTyped DEF Request, Steps
    <2>2. Begins(q, fields)
      BY <1>2 DEF Submit
    <2> HIDE DEF fields
    <2>3. /\ Goes(q, fields) /\ minted' \in 0..MaxLinks /\ begun' \in 0..MaxRequests
          /\ request'[q] = fields
      BY <1>1, <2>2 DEF Begins, Goes, IInv, Types
    <2>4. Fits(q)'
      BY <2>1, <2>3 DEF Fits, FitsAs
    <2> QED BY <2>1, <2>3, <2>4, ReadsInv
  <1>3. CASE Pending # {}
    <2>1. PICK i \in Pending : Begins(q, [found EXCEPT !.at = "update", !.id = i, !.fresh = TRUE])
      BY <1>3 DEF Submit
    <2> DEFINE fields == [found EXCEPT !.at = "update", !.id = i, !.fresh = TRUE]
    <2>2. /\ fields \in Request /\ fields.at = "update" /\ fields.by = by /\ fields.id = i
          /\ i \in Rounds /\ i \in Created
      BY NoRequestTyped DEF Request, Steps, Pending, Created
    <2>3. Begins(q, fields)
      BY <2>1
    <2> HIDE DEF fields
    <2>4. /\ Goes(q, fields) /\ minted' \in 0..MaxLinks /\ begun' \in 0..MaxRequests
          /\ request'[q] = fields /\ UNCHANGED round
      BY <1>1, <2>3 DEF Begins, Goes, IInv, Types
    <2>5. Fits(q)'
      BY <2>2, <2>4 DEF Fits, FitsAs, Created, Pending
    <2> QED BY <2>2, <2>4, <2>5, ReadsInv
  <1> QED BY <1>2, <1>3

LEMMA RefindInv == ASSUME IInv, NEW q \in Requests, SubmitRefinds(q) PROVE IInv'
  <1>1. CASE Pending = {}
    <2>1. Goes(q, NoRequest) /\ request'[q] = NoRequest
      BY <1>1 DEF SubmitRefinds, Goes, IInv, Types
    <2>2. Fits(q)'
      BY <2>1 DEF Fits, FitsAs, NoRequest
    <2> QED BY <2>1, <2>2, NoRequestTyped, ReadsInv DEF SubmitRefinds, IInv, Types
  <1>2. CASE Pending # {}
    <2>1. PICK i \in Pending : Goes(q, [request[q] EXCEPT !.at = "update", !.id = i, !.fresh = TRUE])
      BY <1>2 DEF SubmitRefinds
    <2> DEFINE fields == [request[q] EXCEPT !.at = "update", !.id = i, !.fresh = TRUE]
    <2>2. /\ fields \in Request /\ fields.at = "update" /\ fields.by = request[q].by /\ fields.id = i
          /\ i \in Created /\ request[q].by \in Users
      <3>1. request[q] \in Request /\ request[q].by \in Users
        BY DEF SubmitRefinds, IInv, Types, Fits, FitsAs
      <3> QED BY <3>1 DEF Request, Steps, Pending, Created
    <2>3. Goes(q, fields)
      BY <2>1
    <2> HIDE DEF fields
    <2>4. request'[q] = fields /\ UNCHANGED <<round, minted, begun>>
      BY <2>3 DEF Goes, IInv, Types, SubmitRefinds
    <2>5. Fits(q)'
      BY <2>2, <2>4 DEF Fits, FitsAs, Created, Pending
    <2> QED BY <2>2, <2>3, <2>4, <2>5, ReadsInv DEF IInv, Types
  <1> QED BY <1>1, <1>2

\* What a submission does after its row.
LEMMA AfterRowTyped ==
  ASSUME IInv, NEW q \in Requests, NEW i \in Rounds, NEW opened \in BOOLEAN
  PROVE  /\ AfterRow(q, i, opened) \in Request
         /\ AfterRow(q, i, opened).at \in {"token", "supersede", "latest"}
         /\ AfterRow(q, i, opened).id = i
  <1>1. request[q] \in Request
    BY DEF IInv, Types
  <1> QED BY <1>1, BoundsAssumption DEF AfterRow, Request, Steps

LEMMA CreateInv == ASSUME IInv, NEW q \in Requests, SubmitCreates(q) PROVE IInv'
  <1>0. request[q] \in Request /\ request[q].at = "create" /\ request[q].by \in Users
    BY DEF SubmitCreates, IInv, Types, Fits, FitsAs
  <1>1. CASE Pending # {}
    <2> DEFINE fields == [request[q] EXCEPT !.at = "refind"]
    <2>1. fields \in Request /\ fields.at = "refind" /\ fields.by = request[q].by
      BY <1>0 DEF Request, Steps
    <2>2. Goes(q, fields) /\ UNCHANGED <<minted, begun>>
      BY <1>1 DEF SubmitCreates
    <2> HIDE DEF fields
    <2>3. request'[q] = fields
      BY <2>2 DEF Goes, IInv, Types
    <2>4. Fits(q)'
      BY <1>0, <2>1, <2>3 DEF Fits, FitsAs
    <2> QED BY <2>1, <2>2, <2>4, ReadsInv DEF IInv, Types
  <1>2. CASE Pending = {}
    <2> DEFINE i == Cardinality(Created) + 1
               row == [NoRow EXCEPT !.status = "PENDING", !.by = request[q].by, !.snap = request[q].pages]
    <2>1. i <= MaxRounds /\ i \in Nat /\ i \notin Created /\ Created \union {i} = 1..i
      BY <1>2, NextNumber DEF SubmitCreates
    <2>2. i \in Rounds
      BY <2>1, NextNumber, BoundsAssumption DEF Rounds
    <2>3. /\ row \in Row /\ row.status = "PENDING" /\ row.by = request[q].by /\ row.resolver = None
      <3>1. request[q].pages \in {0} \union Versions
        BY <1>0 DEF Request
      <3>2. row \in Row
        BY <1>0, <3>1, NoRowTyped DEF Row
      <3> QED BY <3>2 DEF NoRow
    <2>4. Writes(q, {i}, [j \in Rounds |-> row], AfterRow(q, i, TRUE)) /\ UNCHANGED <<minted, begun>>
      BY <1>2 DEF SubmitCreates
    <2> DEFINE S == {i}
               after == AfterRow(q, i, TRUE)
    <2>a. S = {i}
      OBVIOUS
    <2> HIDE DEF i, row, S, after
    <2>5. /\ round' = [j \in Rounds |-> IF j \in {i} THEN row ELSE round[j]] /\ UNCHANGED version
          /\ Hear(q, S, after)
      BY <2>4 DEF Writes, Hear, S, after
    <2>6. Created' = 1..i /\ Pending' = {i} /\ Created \subseteq Created' /\ i \in Created'
      BY <1>2, <2>1, <2>2, <2>3, <2>5 DEF Created, Pending
    <2>7. /\ after \in Request /\ after.id = i
          /\ after.at \in {"token", "supersede", "latest"}
      BY <2>2, AfterRowTyped DEF after
    <2>8. request' \in [Requests -> Request] /\ request'[q] = after
      BY <2>5, <2>7, OthersHear
    <2>9. \A p \in Requests \ {q} : Fits(p)'
      BY <2>a, <2>5, <2>6, <2>7, OthersFit
    <2>10. Fits(q)'
      BY <2>6, <2>7, <2>8 DEF Fits, FitsAs
    <2>11. Types'
      BY <2>3, <2>4, <2>5, <2>8 DEF IInv, Types
    <2>12. Waiting' /\ Alone' /\ Blank'
      BY <1>0, <2>2, <2>3, <2>5, <2>6 DEF Waiting, Alone, Blank, IInv
    <2>13. Numbered'
      BY <2>1, <2>6, BoundsAssumption DEF Numbered
    <2> QED BY <2>9, <2>10, <2>11, <2>12, <2>13 DEF IInv
  <1> QED BY <1>1, <1>2

\* A submission's later writes, and the answers': they write rows that exist.
LEMMA UpdateInv ==
  ASSUME IInv, NEW q \in Requests,
         SubmitUpdates(q) \/ IssueReviewToken(q) \/ Supersede(q) \/ Prune(q)
  PROVE  IInv'
  <1>0. /\ request[q] \in Request /\ round \in [Rounds -> Row] /\ Created \subseteq Rounds
        /\ minted \in 0..MaxLinks /\ \A i \in Created : round[i].status # "none"
    BY DEF IInv, Types, Created
  <1>1. CASE SubmitUpdates(q)
    <2> DEFINE i == request[q].id
               row == [round[i] EXCEPT !.by = request[q].by,
                                       !.snap = IF request[q].pages # 0 THEN request[q].pages ELSE @]
               S == {i}
               after == AfterRow(q, i, FALSE)
    <2>1. i \in Created /\ request[q].by \in Users /\ i \in Rounds
      BY <1>0, <1>1 DEF SubmitUpdates, IInv, Fits, FitsAs
    <2>2. request[q].pages \in {0} \union Versions /\ round[i] \in Row
      BY <1>0, <2>1 DEF Request
    <2>3. /\ row \in Row /\ row.status = round[i].status /\ row.by \in Users
          /\ row.resolver = round[i].resolver
      <3> DEFINE by == request[q].by
                 snap == IF request[q].pages # 0 THEN request[q].pages ELSE round[i].snap
      <3>1. by \in Users \union {None} /\ snap \in {0} \union Versions
        BY <2>1, <2>2 DEF Row
      <3>2. row = [round[i] EXCEPT !.by = by, !.snap = snap]
        OBVIOUS
      <3> HIDE DEF i, by, snap, row
      <3>3. row \in Row
        BY <2>2, <3>1, <3>2 DEF Row
      <3> QED BY <2>1, <2>2, <3>2, <3>3 DEF Row, by
    <2>4. Writes(q, {i}, [j \in Rounds |-> [round[j] EXCEPT !.by = request[q].by,
                                  !.snap = IF request[q].pages # 0 THEN request[q].pages ELSE @]],
                 AfterRow(q, i, FALSE))
      BY <1>1 DEF SubmitUpdates
    <2>5. /\ round' \in [Rounds -> Row] /\ round'[i] = row /\ \A j \in Rounds \ {i} : round'[j] = round[j]
          /\ Hear(q, S, after) /\ UNCHANGED version
      BY <1>0, <2>1, <2>3, <2>4 DEF Writes, Hear
    <2>6. after \in Request /\ after.id = i /\ after.at \in {"token", "supersede", "latest"}
      BY <2>1, AfterRowTyped
    <2>7. S = {i} /\ UNCHANGED <<minted, begun>>
      BY <1>1 DEF SubmitUpdates
    <2> HIDE DEF i, row, S, after
    <2> QED BY <1>0, <2>1, <2>3, <2>5, <2>6, <2>7, WritesInv
  <1>2. CASE IssueReviewToken(q)
    <2> DEFINE i == request[q].id
               row == [round[i] EXCEPT !.link = minted', !.revoked = FALSE, !.invited = request[q].client]
               fields == [request[q] EXCEPT !.at = IF request[q].opened THEN "supersede" ELSE "latest"]
    <2>1. i \in Created /\ i \in Rounds
      BY <1>0, <1>2 DEF IssueReviewToken, IInv, Fits, FitsAs
    <2>2. /\ request[q].client \in Clients \union {None} /\ round[i] \in Row
          /\ minted' \in 0..MaxLinks /\ UNCHANGED begun
      <3>1. minted < MaxLinks /\ minted' = minted + 1 /\ UNCHANGED begun
        BY <1>2 DEF IssueReviewToken
      <3> QED BY <1>0, <2>1, <3>1, BoundsAssumption DEF Request
    <2>3. row \in Row /\ row.status = round[i].status /\ row.by = round[i].by /\ row.resolver = round[i].resolver
      BY <2>2 DEF Row
    <2>4. fields \in Request /\ fields.at \in {"supersede", "latest"} /\ fields.id = i
      BY <1>0 DEF Request, Steps
    <2>5. Writes(q, {i}, [j \in Rounds |-> [round[j] EXCEPT !.link = minted', !.revoked = FALSE,
                                                            !.invited = request[q].client]], fields)
      BY <1>2 DEF IssueReviewToken
    <2>6. /\ round' \in [Rounds -> Row] /\ round'[i] = row /\ \A j \in Rounds \ {i} : round'[j] = round[j]
          /\ Hear(q, {i}, fields) /\ UNCHANGED version
      BY <1>0, <2>1, <2>3, <2>5 DEF Writes, Hear
    <2>7. round[i].status = "PENDING" => round[i].by \in Users
      BY <2>1 DEF IInv, Waiting, Pending
    <2> HIDE DEF i, row, fields
    <2> QED BY <1>0, <2>1, <2>2, <2>3, <2>4, <2>6, <2>7, WritesInv
  <1>3. CASE Supersede(q)
    <2> DEFINE S == {i \in Rounds \ {request[q].id} : round[i].link # 0 /\ ~round[i].revoked}
               fields == [request[q] EXCEPT !.at = "latest"]
    <2>1. fields \in Request /\ fields.at = "latest" /\ fields.id \in Created
      BY <1>0, <1>3 DEF Request, Steps, Supersede, IInv, Fits, FitsAs
    <2>2. S \subseteq Created
      BY DEF IInv, Blank
    <2>3. Writes(q, S, [j \in Rounds |-> [round[j] EXCEPT !.revoked = TRUE]], fields) /\ UNCHANGED <<minted, begun>>
      BY <1>3 DEF Supersede
    <2> HIDE DEF S, fields
    <2>4. \A i \in S : [round[i] EXCEPT !.revoked = TRUE] \in Row
      BY <1>0, <2>2 DEF Row
    <2>5. /\ round' \in [Rounds -> Row] /\ \A i \in Rounds \ S : round'[i] = round[i]
          /\ \A i \in S : round'[i] = [round[i] EXCEPT !.revoked = TRUE]
          /\ Hear(q, S, fields) /\ UNCHANGED version
      BY <1>0, <2>2, <2>3, <2>4 DEF Writes, Hear
    <2>6. ASSUME NEW i \in S
          PROVE  /\ round'[i].status = round[i].status /\ round'[i].by = round[i].by
                 /\ round'[i].resolver = round[i].resolver
      <3>1. round[i] \in Row
        BY <1>0, <2>2
      <3> QED BY <3>1, <2>5 DEF Row
    <2>7. \A i \in S : round[i].status = "PENDING" => round[i].by \in Users
      BY <1>0, <2>2 DEF IInv, Waiting, Pending
    <2> QED BY <1>0, <2>1, <2>2, <2>3, <2>5, <2>6, <2>7, WritesInv
  <1>4. CASE Prune(q)
    <2> DEFINE S == {i \in Created \ {request[q].id} : round[i].status # "APPROVED"}
    <2>1. S \subseteq Created
      OBVIOUS
    <2>2. Writes(q, S, [j \in Rounds |-> [round[j] EXCEPT !.snap = 0]], NoRequest) /\ UNCHANGED <<minted, begun>>
      BY <1>4 DEF Prune
    <2> HIDE DEF S
    <2>3. \A i \in S : [round[i] EXCEPT !.snap = 0] \in Row
      BY <1>0, <2>1 DEF Row
    <2>4. /\ round' \in [Rounds -> Row] /\ \A i \in Rounds \ S : round'[i] = round[i]
          /\ \A i \in S : round'[i] = [round[i] EXCEPT !.snap = 0]
          /\ Hear(q, S, NoRequest) /\ UNCHANGED version
      BY <1>0, <2>1, <2>2, <2>3 DEF Writes, Hear
    <2>5. ASSUME NEW i \in S
          PROVE  /\ round'[i].status = round[i].status /\ round'[i].by = round[i].by
                 /\ round'[i].resolver = round[i].resolver
      <3>1. round[i] \in Row
        BY <1>0, <2>1
      <3> QED BY <3>1, <2>4 DEF Row
    <2>6. \A i \in S : round[i].status = "PENDING" => round[i].by \in Users
      BY <1>0, <2>1 DEF IInv, Waiting, Pending
    <2>7. NoRequest.at = "idle"
      BY DEF NoRequest
    <2> QED BY <1>0, <2>1, <2>2, <2>4, <2>5, <2>6, <2>7, NoRequestTyped, WritesInv
  <1> QED BY <1>1, <1>2, <1>3, <1>4

\* A request begins, and holds what it has read.
LEMMA BeginsInv ==
  ASSUME IInv, NEW q \in Requests, NEW fields \in Request, Begins(q, fields), FitsAs(fields)
  PROVE  IInv'
  <1>1. Goes(q, fields) /\ minted' \in 0..MaxLinks /\ request'[q] = fields /\ UNCHANGED round
    BY DEF Begins, Goes, IInv, Types
  <1>2. begun' \in 0..MaxRequests
    <2>1. begun \in 0..MaxRequests /\ begun < MaxRequests /\ begun' = begun + 1
      BY DEF Begins, IInv, Types
    <2> QED BY <2>1, BoundsAssumption
  <1>3. Fits(q)'
    BY <1>1 DEF Fits, FitsAs, Created
  <1> QED BY <1>1, <1>2, <1>3, ReadsInv

\* The request goes on and its row stays as it is.
LEMMA GoesInv ==
  ASSUME IInv, NEW q \in Requests, NEW fields \in Request, Goes(q, fields), FitsAs(fields),
         UNCHANGED <<minted, begun>>
  PROVE  IInv'
  <1>1. /\ minted' \in 0..MaxLinks /\ begun' \in 0..MaxRequests
        /\ request'[q] = fields /\ UNCHANGED round
    BY DEF Goes, IInv, Types
  <1>2. Fits(q)'
    BY <1>1 DEF Fits, FitsAs, Created
  <1> QED BY <1>1, <1>2, ReadsInv

\* Of rounds that exist there is a newest.
LEMMA NewestOf ==
  ASSUME IInv, NEW S \in SUBSET Created, S # {}
  PROVE  Newest(S) \in S /\ \A j \in S : j <= Newest(S)
  <1>1. PICK n \in 0..MaxRounds : Created = 1..n
    BY DEF IInv, Numbered
  <1>2. n \in Nat /\ S \subseteq 1..n
    BY <1>1, BoundsAssumption
  <1> DEFINE T == {n - j : j \in S}
  <1>3. T \subseteq Nat /\ T # {}
    <2>1. \A j \in S : n - j \in Nat
      BY <1>2
    <2> QED BY <2>1
  <1>4. PICK m \in T : \A k \in T : m <= k
    <2> HIDE DEF T
    <2>1. PICK m \in T : \A k \in T : <<k, m>> \notin OpToRel(<, Nat)
      BY <1>3, WFMin, NatLessThanWellFounded, Zenon
    <2>2. \A k \in T : ~(k < m)
      BY <1>3, <2>1, Zenon DEF OpToRel
    <2> QED BY <1>3, <2>2
  <1>5. PICK i \in S : m = n - i
    OBVIOUS
  <1>6. \A j \in S : j <= i
    <2> TAKE j \in S
    <2>1. n - i <= n - j
      BY <1>4, <1>5
    <2> QED BY <1>2, <2>1
  <1> QED BY <1>6 DEF Newest

LEMMA ReadingInv ==
  ASSUME IInv, NEW q \in Requests,
         \/ \E i \in Rounds, verdict \in Verdicts :
              (\E by \in Users : ResolveReads(q, i, by, verdict)) \/ AnswerReads(q, i, verdict)
         \/ \E i \in Rounds : SignReads(q, i) \/ RevokeReads(q, i)
         \/ \E by \in Users, ack \in BOOLEAN : PublishReadsSite(q, by, ack)
  PROVE  IInv'
  <1>0. round \in [Rounds -> Row] /\ version \in Versions /\ NoRequest \in Request
    BY NoRequestTyped DEF IInv, Types
  <1>1. ASSUME NEW i \in Rounds, NEW verdict \in Verdicts, NEW by \in Users, ResolveReads(q, i, by, verdict)
        PROVE  IInv'
    <2> DEFINE fields == [NoRequest EXCEPT !.at = "resolve", !.by = by, !.id = i, !.fresh = TRUE,
                                           !.pages = round[i].snap, !.verdict = verdict]
    <2>1. round[i].snap \in {0} \union Versions /\ round[i].status = "PENDING" /\ round[i].by # by
      BY <1>0, <1>1 DEF Row, ResolveReads
    <2>2. /\ fields \in Request /\ fields.at = "resolve" /\ fields.by = by /\ fields.id = i
          /\ fields.pages = round[i].snap
      BY <1>0, <2>1 DEF Request, Steps
    <2>3. Begins(q, fields) /\ i \in Created
      BY <1>1 DEF ResolveReads, Created
    <2> HIDE DEF fields
    <2>4. FitsAs(fields)
      BY <2>1, <2>2, <2>3 DEF FitsAs
    <2> QED BY <2>2, <2>3, <2>4, BeginsInv
  <1>2. ASSUME NEW i \in Rounds, NEW verdict \in Verdicts, AnswerReads(q, i, verdict)
        PROVE  IInv'
    <2> DEFINE fields == [NoRequest EXCEPT !.at = "answer", !.id = i, !.fresh = TRUE,
                             !.client = round[i].signer, !.pages = round[i].snap, !.verdict = verdict]
    <2>1. /\ round[i].snap \in {0} \union Versions /\ round[i].status = "PENDING"
          /\ round[i].signer \in Clients
      BY <1>0, <1>2 DEF Row, AnswerReads
    <2>2. /\ fields \in Request /\ fields.at = "answer" /\ fields.client = round[i].signer /\ fields.id = i
          /\ fields.pages = round[i].snap
      BY <1>0, <2>1 DEF Request, Steps
    <2>3. Begins(q, fields) /\ i \in Created
      BY <1>2 DEF AnswerReads, Created
    <2> HIDE DEF fields
    <2>4. FitsAs(fields)
      BY <2>1, <2>2, <2>3 DEF FitsAs
    <2> QED BY <2>2, <2>3, <2>4, BeginsInv
  <1>3. ASSUME NEW i \in Rounds, SignReads(q, i) PROVE IInv'
    <2> DEFINE fields == [NoRequest EXCEPT !.at = "sign", !.id = i, !.client = round[i].invited]
    <2>1. round[i].invited \in Clients /\ round[i].link # 0
      BY <1>0, <1>3 DEF Row, SignReads, Live
    <2>2. fields \in Request /\ fields.at = "sign" /\ fields.client = round[i].invited /\ fields.id = i
      BY <1>0, <2>1 DEF Request, Steps
    <2>3. Begins(q, fields)
      BY <1>3 DEF SignReads
    <2>4. i \in Created
      BY <2>1 DEF IInv, Blank
    <2> HIDE DEF fields
    <2>5. FitsAs(fields)
      BY <2>1, <2>2, <2>4 DEF FitsAs
    <2> QED BY <2>2, <2>3, <2>5, BeginsInv
  <1>4. ASSUME NEW i \in Rounds, RevokeReads(q, i) PROVE IInv'
    <2> DEFINE fields == [NoRequest EXCEPT !.at = "revoke", !.id = i, !.link = round[i].link, !.fresh = TRUE]
    <2>1. round[i].link \in 0..MaxLinks /\ i \in Created
      BY <1>0, <1>4 DEF Row, RevokeReads
    <2>2. fields \in Request /\ fields.at = "revoke" /\ fields.link = round[i].link /\ fields.id = i
      BY <1>0, <2>1 DEF Request, Steps
    <2>3. Begins(q, fields)
      BY <1>4 DEF RevokeReads
    <2> HIDE DEF fields
    <2>4. FitsAs(fields)
      BY <2>1, <2>2 DEF FitsAs
    <2> QED BY <2>2, <2>3, <2>4, BeginsInv
  <1>5. ASSUME NEW by \in Users, NEW ack \in BOOLEAN, PublishReadsSite(q, by, ack) PROVE IInv'
    <2> DEFINE fields == [NoRequest EXCEPT !.at = "gate", !.by = by, !.pages = version, !.ack = ack]
    <2>1. fields \in Request /\ fields.at = "gate" /\ fields.id = 0
      BY <1>0 DEF Request, Steps, NoRequest
    <2>2. Begins(q, fields)
      BY <1>5 DEF PublishReadsSite
    <2> HIDE DEF fields
    <2>3. FitsAs(fields)
      BY <2>1 DEF FitsAs
    <2> QED BY <2>1, <2>2, <2>3, BeginsInv
  <1> QED BY <1>1, <1>2, <1>3, <1>4, <1>5

\* The gate, the pruning's read, and a request that ends.
LEMMA GoingInv ==
  ASSUME IInv, NEW q \in Requests, Gate(q) \/ PublishQueues(q) \/ PruneReadsLatest(q) \/ Fails(q)
  PROVE  IInv'
  <1>0. request[q] \in Request /\ NoRequest \in Request /\ FitsAs(NoRequest)
    BY NoRequestTyped DEF IInv, Types, FitsAs, NoRequest
  <1>1. CASE PublishQueues(q) \/ Fails(q)
    BY <1>0, <1>1, GoesInv DEF PublishQueues, Fails
  <1>2. CASE PruneReadsLatest(q)
    <2> DEFINE fields == [NoRequest EXCEPT !.at = "prune", !.id = Newest(Created)]
    <2>1. Newest(Created) \in Created /\ Newest(Created) \in Rounds
      BY <1>2, NewestOf DEF PruneReadsLatest, IInv, Fits, FitsAs, Created
    <2>2. fields \in Request /\ fields.at = "prune" /\ fields.id = Newest(Created)
      BY <1>0, <2>1 DEF Request, Steps
    <2>3. Goes(q, fields) /\ UNCHANGED <<minted, begun>>
      BY <1>2 DEF PruneReadsLatest
    <2> HIDE DEF fields
    <2>4. FitsAs(fields)
      BY <2>1, <2>2 DEF FitsAs
    <2> QED BY <2>2, <2>3, <2>4, GoesInv
  <1>3. CASE Gate(q)
    <2>1. ASSUME NEW fields \in Request, Goes(q, fields), fields.at = "queue", UNCHANGED <<minted, begun>>
          PROVE  IInv'
      BY <2>1, GoesInv DEF FitsAs
    <2>2. [request[q] EXCEPT !.at = "queue"] \in Request /\ [request[q] EXCEPT !.at = "queue"].at = "queue"
      BY <1>0 DEF Request, Steps
    <2>3. ASSUME NEW i \in Rounds
          PROVE  /\ [request[q] EXCEPT !.at = "queue", !.id = i] \in Request
                 /\ [request[q] EXCEPT !.at = "queue", !.id = i].at = "queue"
      BY <1>0 DEF Request, Steps
    <2>4. CASE request[q].by \in Exempt
      BY <1>3, <2>1, <2>2, <2>4 DEF Gate
    <2>5. CASE request[q].by \notin Exempt
      <3> DEFINE standing == {i \in Created : ~round[i].revoked}
      <3>1. PICK i \in standing : Goes(q, [request[q] EXCEPT !.at = "queue", !.id = i])
        <4>1. standing # {} /\ Goes(q, [request[q] EXCEPT !.at = "queue", !.id = Newest(standing)])
          BY <1>3, <2>5 DEF Gate
        <4>2. Newest(standing) \in standing
          BY <4>1, NewestOf
        <4> QED BY <4>1, <4>2
      <3>2. i \in Rounds
        BY DEF Created
      <3> QED BY <1>3, <2>1, <2>3, <3>1, <3>2 DEF Gate
    <2> QED BY <2>4, <2>5
  <1> QED BY <1>1, <1>2, <1>3

\* The writes to one row that exists.
LEMMA OneRowInv ==
  ASSUME IInv, NEW q \in Requests, request[q].id \in Created, NEW row \in Row,
         round' = [i \in Rounds |-> IF i \in {request[q].id} THEN row ELSE round[i]],
         Hear(q, {request[q].id}, NoRequest), UNCHANGED <<version, minted, begun>>,
         row.status # "none",
         row.status = "PENDING" => /\ round[request[q].id].status = "PENDING"
                                   /\ row.by = round[request[q].id].by
                                   /\ row.resolver = round[request[q].id].resolver
  PROVE  IInv'
  <1> DEFINE i == request[q].id
             S == {i}
  <1>1. i \in Created /\ i \in Rounds /\ S \subseteq Created /\ S = {i}
    BY DEF Created
  <1>2. /\ round' \in [Rounds -> Row] /\ round'[i] = row /\ \A j \in Rounds \ S : round'[j] = round[j]
        /\ Hear(q, S, NoRequest) /\ minted' \in 0..MaxLinks
    BY <1>1 DEF IInv, Types
  <1>3. round[i].status = "PENDING" => round[i].by \in Users
    BY <1>1 DEF IInv, Waiting, Pending
  <1>4. NoRequest \in Request /\ NoRequest.at = "idle"
    BY NoRequestTyped DEF NoRequest
  <1> HIDE DEF i, S
  <1>5. \A j \in S : /\ round'[j].status # "none"
                     /\ round'[j].status = "PENDING" =>
                          /\ round[j].status = "PENDING" /\ round'[j].by \in Users
                          /\ round'[j].resolver = round[j].resolver
    BY <1>1, <1>2, <1>3 DEF i
  <1> QED BY <1>1, <1>2, <1>4, <1>5, WritesInv

LEMMA AnswerInv ==
  ASSUME IInv, NEW q \in Requests,
         ResolveWrites(q) \/ AnswerWrites(q) \/ SignWrites(q) \/ RevokeWrites(q)
  PROVE  IInv'
  <1> DEFINE i == request[q].id
  <1>0. /\ request[q] \in Request /\ round \in [Rounds -> Row] /\ version \in Versions
        /\ i \in Created /\ i \in Rounds /\ round[i] \in Row /\ round[i].status # "none"
    BY DEF ResolveWrites, AnswerWrites, SignWrites, RevokeWrites, IInv, Types, Fits, FitsAs, Created
  <1>1. CASE ResolveWrites(q)
    <2> DEFINE row == [round[i] EXCEPT !.status = request[q].verdict, !.resolver = request[q].by,
                                       !.on = version, !.shown = request[q].pages]
    <2>1. request[q].by \in Users /\ request[q].verdict \in Verdicts /\ request[q].pages \in {0} \union Versions
      BY <1>0, <1>1 DEF ResolveWrites, IInv, Fits, FitsAs, Request
    <2>2. row \in Row /\ row.status \in Verdicts
      BY <1>0, <2>1 DEF Row
    <2>3. /\ round' = [j \in Rounds |-> IF j \in {i} THEN row ELSE round[j]]
          /\ Hear(q, {i}, NoRequest) /\ UNCHANGED <<version, minted, begun>>
      BY <1>1 DEF ResolveWrites, Writes, Hear
    <2> HIDE DEF row
    <2> QED BY <1>0, <2>2, <2>3, OneRowInv DEF Verdicts
  <1>2. CASE AnswerWrites(q)
    <2> DEFINE row == [round[i] EXCEPT !.status = request[q].verdict, !.signer = request[q].client,
                                       !.on = version, !.shown = request[q].pages]
    <2>1. /\ request[q].client \in Clients /\ request[q].verdict \in Verdicts
          /\ request[q].pages \in {0} \union Versions
      BY <1>0, <1>2 DEF AnswerWrites, IInv, Fits, FitsAs, Request
    <2>2. row \in Row /\ row.status \in Verdicts
      BY <1>0, <2>1 DEF Row
    <2>3. /\ round' = [j \in Rounds |-> IF j \in {i} THEN row ELSE round[j]]
          /\ Hear(q, {i}, NoRequest) /\ UNCHANGED <<version, minted, begun>>
      BY <1>2 DEF AnswerWrites, Writes, Hear
    <2> HIDE DEF row
    <2> QED BY <1>0, <2>2, <2>3, OneRowInv DEF Verdicts
  <1>3. CASE SignWrites(q)
    <2> DEFINE row == [round[i] EXCEPT !.signer = request[q].client]
    <2>1. request[q].client \in Clients
      BY <1>0, <1>3 DEF SignWrites, IInv, Fits, FitsAs
    <2>2. row \in Row /\ row.status = round[i].status /\ row.by = round[i].by /\ row.resolver = round[i].resolver
      BY <1>0, <2>1 DEF Row
    <2>3. /\ round' = [j \in Rounds |-> IF j \in {i} THEN row ELSE round[j]]
          /\ Hear(q, {i}, NoRequest) /\ UNCHANGED <<version, minted, begun>>
      BY <1>3 DEF SignWrites, Writes, Hear
    <2> HIDE DEF row
    <2> QED BY <1>0, <2>2, <2>3, OneRowInv
  <1>4. CASE RevokeWrites(q)
    <2>1. CASE request[q].fresh /\ ~round[i].revoked
      <3> DEFINE row == [round[i] EXCEPT !.revoked = TRUE]
      <3>1. row \in Row /\ row.status = round[i].status /\ row.by = round[i].by /\ row.resolver = round[i].resolver
        BY <1>0 DEF Row
      <3>2. /\ round' = [j \in Rounds |-> IF j \in {i} THEN row ELSE round[j]]
            /\ Hear(q, {i}, NoRequest) /\ UNCHANGED <<version, minted, begun>>
        BY <1>4, <2>1 DEF RevokeWrites, Writes, Hear
      <3> HIDE DEF row
      <3> QED BY <1>0, <3>1, <3>2, OneRowInv
    <2>2. CASE ~(request[q].fresh /\ ~round[i].revoked)
      <3>1. Goes(q, NoRequest) /\ UNCHANGED <<minted, begun>>
        BY <1>4, <2>2 DEF RevokeWrites
      <3>2. FitsAs(NoRequest)
        BY DEF FitsAs, NoRequest
      <3> QED BY <3>1, <3>2, NoRequestTyped, GoesInv
    <2> QED BY <2>1, <2>2
  <1> QED BY <1>1, <1>2, <1>3, <1>4

LEMMA StepInv == IInv /\ [Next]_vars => IInv'
  <1> SUFFICES ASSUME IInv, [Next]_vars PROVE IInv'
    OBVIOUS
  <1>1. CASE UNCHANGED vars
    BY <1>1 DEF vars, IInv, Types, Fits, FitsAs, Waiting, Alone, Numbered, Blank, Created, Pending
  <1>2. CASE Edit
    <2>1. version' \in Versions /\ UNCHANGED <<round, minted, request, begun>>
      BY <1>2, BoundsAssumption DEF Edit, IInv, Types, Versions
    <2> QED BY <2>1 DEF IInv, Types, Fits, FitsAs, Waiting, Alone, Numbered, Blank, Created, Pending
  <1>3. ASSUME NEW q \in Requests, Submits(q) PROVE IInv'
    BY <1>3, SubmitInv, CreateInv, RefindInv, UpdateInv, GoingInv DEF Submits
  <1>4. ASSUME NEW q \in Requests, Answers(q) PROVE IInv'
    BY <1>4, ReadingInv, AnswerInv DEF Answers
  <1>5. ASSUME NEW q \in Requests, Publishes(q) \/ Fails(q) PROVE IInv'
    BY <1>5, ReadingInv, GoingInv DEF Publishes
  <1> QED BY <1>1, <1>2, <1>3, <1>4, <1>5 DEF Next

LEMMA AlwaysInv == Spec => []IInv
  BY InitInv, StepInv, PTL DEF Spec

\* Every variable has its type, and one round at most waits for an answer.
THEOREM ReviewTypes == Spec => []TypeOK
  <1>1. IInv => TypeOK
    <2> SUFFICES ASSUME IInv PROVE Cardinality(Pending) <= 1
      BY DEF IInv, Types, TypeOK
    <2>1. CASE Pending = {}
      BY <2>1, FS_EmptySet
    <2>2. ASSUME NEW i \in Pending PROVE Cardinality(Pending) = 1
      <3>1. Pending = {i}
        BY DEF IInv, Alone
      <3> QED BY <3>1, FS_Singleton
    <2> QED BY <2>1, <2>2
  <1> QED BY <1>1, AlwaysInv, PTL

-----------------------------------------------------------------------------
(* What a step may do to a round.                                          *)

\* The row of i becomes what the request q makes of it.
Rewrites(q, i) ==
  \/ /\ request[q].at = "create" /\ i \notin Created
     /\ round'[i] = [NoRow EXCEPT !.status = "PENDING", !.by = request[q].by, !.snap = request[q].pages]
  \/ /\ request[q].at = "update" /\ request[q].id = i
     /\ round'[i] = [round[i] EXCEPT !.by = request[q].by,
                       !.snap = IF request[q].pages # 0 THEN request[q].pages ELSE @]
  \/ /\ request[q].at = "token" /\ request[q].id = i
     /\ round'[i] = [round[i] EXCEPT !.link = minted', !.revoked = FALSE, !.invited = request[q].client]
  \/ /\ request[q].at = "supersede" /\ request[q].id # i
     /\ round'[i] = [round[i] EXCEPT !.revoked = TRUE]
  \/ /\ request[q].at = "prune" /\ request[q].id # i
     /\ round'[i] = [round[i] EXCEPT !.snap = 0]
  \/ /\ request[q].at = "resolve" /\ request[q].id = i
     /\ round'[i] = [round[i] EXCEPT !.status = request[q].verdict, !.resolver = request[q].by,
                                     !.on = version, !.shown = request[q].pages]
  \/ /\ request[q].at = "answer" /\ request[q].id = i
     /\ round'[i] = [round[i] EXCEPT !.status = request[q].verdict, !.signer = request[q].client,
                                     !.on = version, !.shown = request[q].pages]
  \/ /\ request[q].at = "sign" /\ request[q].id = i
     /\ round'[i] = [round[i] EXCEPT !.signer = request[q].client]
  \/ /\ request[q].at = "revoke" /\ request[q].id = i /\ request[q].fresh
     /\ round'[i] = [round[i] EXCEPT !.revoked = TRUE]

LEMMA RowsWritten ==
  ASSUME IInv, [Next]_vars, NEW i \in Rounds, round'[i] # round[i]
  PROVE  \E q \in Requests : Rewrites(q, i)
  <1>0. round \in [Rounds -> Row]
    BY DEF IInv, Types
  <1>1. CASE UNCHANGED vars \/ Edit
    BY <1>1 DEF vars, Edit
  <1>2. ASSUME NEW q \in Requests, Submits(q) PROVE Rewrites(q, i)
    <2>1. CASE \E by \in Users, client \in Clients \union {None}, pages \in {0} \union Versions :
                 Submit(q, by, client, pages)
      BY <2>1 DEF Submit, Begins, Goes
    <2>2. CASE SubmitCreates(q)
      <3>1. Cardinality(Created) + 1 \notin Created
        BY NextNumber
      <3> QED BY <2>2, <3>1 DEF SubmitCreates, Goes, Writes, Rewrites
    <2>3. CASE SubmitUpdates(q)
      BY <2>3 DEF SubmitUpdates, Writes, Rewrites
    <2>4. CASE IssueReviewToken(q)
      BY <2>4 DEF IssueReviewToken, Writes, Rewrites
    <2>5. CASE Supersede(q)
      BY <2>5 DEF Supersede, Writes, Rewrites
    <2>6. CASE Prune(q)
      BY <2>6 DEF Prune, Writes, Rewrites
    <2>7. CASE SubmitRefinds(q) \/ PruneReadsLatest(q)
      BY <2>7 DEF SubmitRefinds, PruneReadsLatest, Goes
    <2> QED BY <1>2, <2>1, <2>2, <2>3, <2>4, <2>5, <2>6, <2>7 DEF Submits
  <1>3. ASSUME NEW q \in Requests, Answers(q) PROVE Rewrites(q, i)
    <2>1. CASE ResolveWrites(q)
      BY <2>1 DEF ResolveWrites, Writes, Rewrites
    <2>2. CASE AnswerWrites(q)
      BY <2>2 DEF AnswerWrites, Writes, Rewrites
    <2>3. CASE SignWrites(q)
      BY <2>3 DEF SignWrites, Writes, Rewrites
    <2>4. CASE RevokeWrites(q)
      <3>1. CASE request[q].fresh /\ ~round[request[q].id].revoked
        BY <2>4, <3>1 DEF RevokeWrites, Writes, Rewrites
      <3>2. CASE ~(request[q].fresh /\ ~round[request[q].id].revoked)
        BY <2>4, <3>2 DEF RevokeWrites, Goes
      <3> QED BY <3>1, <3>2
    <2>5. CASE ~(ResolveWrites(q) \/ AnswerWrites(q) \/ SignWrites(q) \/ RevokeWrites(q))
      BY <1>3, <2>5 DEF Answers, ResolveReads, AnswerReads, SignReads, RevokeReads, Begins, Goes
    <2> QED BY <2>1, <2>2, <2>3, <2>4, <2>5
  <1>4. ASSUME NEW q \in Requests, Publishes(q) \/ Fails(q) PROVE Rewrites(q, i)
    BY <1>4 DEF Publishes, PublishReadsSite, Gate, PublishQueues, Fails, Begins, Goes
  <1> QED BY <1>1, <1>2, <1>3, <1>4 DEF Next

\* A withdrawal kills the link its sender was shown.
THEOREM WithdrawnAsShown == Spec => WithdrawalIsFresh
  <1>1. IInv /\ [Next]_vars =>
          [\A i \in Rounds : round'[i].revoked /\ ~round[i].revoked =>
             \E q \in Requests :
               \/ request[q].at = "revoke" /\ request[q].id = i /\ request[q].link = round[i].link
               \/ request[q].at = "supersede" /\ request[q].id # i]_vars
    <2> SUFFICES ASSUME IInv, [Next]_vars, NEW i \in Rounds, round'[i].revoked, ~round[i].revoked
                 PROVE  \E q \in Requests :
                          \/ request[q].at = "revoke" /\ request[q].id = i /\ request[q].link = round[i].link
                          \/ request[q].at = "supersede" /\ request[q].id # i
      OBVIOUS
    <2>1. PICK q \in Requests : Rewrites(q, i)
      BY RowsWritten
    <2>2. round[i] \in Row /\ FitsAs(request[q]) /\ NoRow \in Row /\ ~NoRow.revoked
      BY NoRowTyped DEF IInv, Types, Fits, NoRow
    <2>3. request[q].at \in {"supersede", "revoke"}
      BY <2>1, <2>2 DEF Rewrites, Row
    <2> QED BY <2>1, <2>2, <2>3 DEF Rewrites, FitsAs
  <1> QED BY <1>1, AlwaysInv, PTL DEF Spec, WithdrawalIsFresh

\* The newest round loses its pages only to a pruning that did not know it.
THEOREM NewestIsKept == Spec => NewestKeepsPages
  <1>1. IInv /\ [Next]_vars =>
          [\A i \in Created : i = Newest(Created) /\ round[i].snap # 0 /\ round'[i].snap = 0 =>
             \E q \in Requests : request[q].at = "prune" /\ request[q].id < i]_vars
    <2> SUFFICES ASSUME IInv, [Next]_vars, NEW i \in Created, i = Newest(Created),
                        round[i].snap # 0, round'[i].snap = 0
                 PROVE  \E q \in Requests : request[q].at = "prune" /\ request[q].id < i
      OBVIOUS
    <2>0. i \in Rounds /\ i \in Nat /\ \A j \in Created : j \in Nat
      BY BoundsAssumption DEF Created, Rounds
    <2>1. PICK q \in Requests : Rewrites(q, i)
      BY <2>0, RowsWritten
    <2>2. round[i] \in Row /\ FitsAs(request[q])
      BY <2>0 DEF IInv, Types, Fits
    <2>a. (IF request[q].pages # 0 THEN request[q].pages ELSE round[i].snap) # 0
      OBVIOUS
    <2>3. request[q].at = "prune" /\ request[q].id # i
      BY <2>1, <2>2, <2>a DEF Rewrites, Row
    <2>4. request[q].id \in Created
      BY <2>2, <2>3 DEF FitsAs
    <2>5. request[q].id <= i
      BY <2>4, NewestOf
    <2>6. request[q].id \in Nat
      BY <2>0, <2>4
    <2>7. request[q].id < i
      BY <2>0, <2>3, <2>5, <2>6
    <2> QED BY <2>3, <2>7
  <1> QED BY <1>1, AlwaysInv, PTL DEF Spec, NewestKeepsPages

\* No answer is made unsound but by a write that overlooked a change.
THEOREM AnswersAreSound == Spec => SoundnessKept
  <1>1. IInv /\ [Next]_vars =>
          [\A i \in Rounds : Sound(i) => Sound(i)' \/ \E q \in Requests : OverlooksChange(q, i)]_vars
    <2> SUFFICES ASSUME IInv, [Next]_vars, NEW i \in Rounds, Sound(i),
                        \A q \in Requests : ~OverlooksChange(q, i)
                 PROVE  Sound(i)'
      OBVIOUS
    <2>1. CASE round'[i] = round[i]
      BY <2>1 DEF Sound
    <2>2. CASE round'[i] # round[i]
      <3>1. PICK q \in Requests : Rewrites(q, i)
        BY <2>2, RowsWritten
      <3>2. /\ round[i] \in Row /\ FitsAs(request[q]) /\ NoRow \in Row /\ request[q] \in Request
            /\ request[q].fresh \/ ~(request[q].id = i /\ request[q].at \in {"update", "resolve", "answer"})
        BY NoRowTyped DEF IInv, Types, Fits, OverlooksChange
      <3>3. round[i].status = "PENDING" => round[i].by \in Users /\ round[i].resolver = None
        BY DEF IInv, Waiting, Pending
      <3>4. CASE request[q].at \in {"create", "update"}
        BY <3>1, <3>2, <3>4 DEF Rewrites, FitsAs, Row, Sound, Verdicts
      <3>5. CASE request[q].at \in {"token", "supersede", "revoke", "prune"}
        <4>1. /\ round'[i].status = round[i].status /\ round'[i].by = round[i].by
              /\ round'[i].resolver = round[i].resolver /\ round'[i].signer = round[i].signer
              /\ round'[i].shown = round[i].shown /\ round'[i].snap \in {0, round[i].snap}
          <5>1. CASE request[q].at = "token"
            BY <3>1, <3>2, <5>1 DEF Rewrites, Row
          <5>2. CASE request[q].at = "prune"
            BY <3>1, <3>2, <5>2 DEF Rewrites, Row
          <5>3. CASE request[q].at \in {"supersede", "revoke"}
            BY <3>1, <3>2, <5>3 DEF Rewrites, Row
          <5> QED BY <3>5, <5>1, <5>2, <5>3
        <4> QED BY <4>1 DEF Sound
      <3>6. CASE request[q].at = "resolve"
        <4>1. /\ round'[i] = [round[i] EXCEPT !.status = request[q].verdict, !.resolver = request[q].by,
                                              !.on = version, !.shown = request[q].pages]
              /\ request[q].id = i /\ request[q].fresh
          BY <3>1, <3>2, <3>6 DEF Rewrites
        <4>2. /\ round'[i].resolver = request[q].by /\ round'[i].by = round[i].by
              /\ round'[i].snap = round[i].snap /\ round'[i].shown = request[q].pages
          BY <3>2, <4>1 DEF Row
        <4>3. round[i].by # request[q].by /\ request[q].by \in Users /\ round[i].snap = request[q].pages
          BY <3>2, <3>6, <4>1 DEF FitsAs
        <4> QED BY <4>2, <4>3, PeopleAssumption DEF Sound
      <3>7. CASE request[q].at = "answer"
        <4>1. /\ round'[i] = [round[i] EXCEPT !.status = request[q].verdict, !.signer = request[q].client,
                                              !.on = version, !.shown = request[q].pages]
              /\ request[q].id = i /\ request[q].fresh
          BY <3>1, <3>2, <3>7 DEF Rewrites
        <4>2. /\ round'[i].resolver = round[i].resolver /\ round'[i].by = round[i].by
              /\ round'[i].signer = request[q].client
              /\ round'[i].snap = round[i].snap /\ round'[i].shown = request[q].pages
          BY <3>2, <4>1 DEF Row
        <4>3. round[i].status = "PENDING" /\ request[q].client \in Clients /\ round[i].snap = request[q].pages
          BY <3>2, <3>7, <4>1 DEF FitsAs
        <4> QED BY <3>3, <4>2, <4>3, PeopleAssumption DEF Sound
      <3>8. CASE request[q].at = "sign"
        BY <3>1, <3>2, <3>8, PeopleAssumption DEF Rewrites, FitsAs, Row, Sound
      <3> QED BY <3>1, <3>4, <3>5, <3>6, <3>7, <3>8 DEF Rewrites
    <2> QED BY <2>1, <2>2
  <1> QED BY <1>1, AlwaysInv, PTL DEF Spec, SoundnessKept

\* A publish that waits for its job waits as it did.
Waits(q) ==
  /\ request[q].at = "queue" /\ request'[q].id = request[q].id
  /\ request'[q].pages = request[q].pages /\ request'[q].ack = request[q].ack

\* Nothing but the gate makes a request wait for its job.
LEMMA OnlyTheGate ==
  ASSUME IInv, [Next]_vars, NEW q \in Requests, request'[q].at = "queue", ~Waits(q)
  PROVE  Gate(q)
  <1>0. request \in [Requests -> Request] /\ NoRequest \in Request /\ NoRequest.at = "idle"
    BY NoRequestTyped DEF IInv, Types, NoRequest
  <1>1. ASSUME NEW p \in Requests, NEW fields, fields.at # "queue" \/ p # q, Goes(p, fields) PROVE FALSE
    BY <1>0, <1>1 DEF Goes, Waits
  <1>2. ASSUME NEW p \in Requests, NEW S, NEW fields, fields.at # "queue" \/ p # q, Hear(p, S, fields)
        PROVE  FALSE
    <2>1. p # q
      BY <1>0, <1>2 DEF Hear
    <2>2. request'[q] = [request[q] EXCEPT !.fresh = @ /\ request[q].id \notin S] /\ request[q] \in Request
      BY <1>0, <1>2, <2>1 DEF Hear
    <2> QED BY <2>2 DEF Request, Waits
  <1>4. ASSUME NEW p \in Requests, NEW fields, fields.at # "queue", Begins(p, fields) PROVE FALSE
    BY <1>1, <1>4 DEF Begins
  <1>5. CASE UNCHANGED vars \/ Edit
    BY <1>5 DEF vars, Edit, Waits
  <1>6. ASSUME NEW p \in Requests, Submits(p) PROVE FALSE
    <2>0. request[p] \in Request
      BY <1>0
    <2>1. CASE \E by \in Users, client \in Clients \union {None}, pages \in {0} \union Versions :
                 Submit(p, by, client, pages)
      <3>1. PICK by \in Users, client \in Clients \union {None}, pages \in {0} \union Versions :
                   Submit(p, by, client, pages)
        BY <2>1
      <3> DEFINE found == [NoRequest EXCEPT !.by = by, !.client = client, !.pages = pages]
                 creates == [found EXCEPT !.at = "create"]
                 updates(i) == [found EXCEPT !.at = "update", !.id = i, !.fresh = TRUE]
      <3>2. Begins(p, creates) \/ \E i \in Pending : Begins(p, updates(i))
        BY <3>1 DEF Submit
      <3>3. creates.at = "create" /\ \A i \in Pending : updates(i).at = "update"
        BY DEF NoRequest
      <3> HIDE DEF found, creates, updates
      <3> QED BY <1>4, <3>2, <3>3
    <2>2. CASE SubmitRefinds(p) \/ PruneReadsLatest(p)
      <3> DEFINE updates(i) == [request[p] EXCEPT !.at = "update", !.id = i, !.fresh = TRUE]
                 prunes == [NoRequest EXCEPT !.at = "prune", !.id = Newest(Created)]
      <3>1. Goes(p, NoRequest) \/ Goes(p, prunes) \/ \E i \in Pending : Goes(p, updates(i))
        BY <2>2 DEF SubmitRefinds, PruneReadsLatest
      <3>2. prunes.at = "prune" /\ \A i \in Pending : updates(i).at = "update"
        BY <2>0 DEF NoRequest, Request
      <3> HIDE DEF prunes, updates
      <3> QED BY <1>0, <1>1, <3>1, <3>2
    <2>3. CASE SubmitCreates(p)
      <3>1. CASE Pending # {}
        <4>1. Goes(p, [request[p] EXCEPT !.at = "refind"])
          BY <2>3, <3>1 DEF SubmitCreates
        <4>2. [request[p] EXCEPT !.at = "refind"].at = "refind"
          BY <2>0 DEF Request
        <4> QED BY <1>1, <4>1, <4>2
      <3>2. CASE Pending = {}
        <4>1. Hear(p, {Cardinality(Created) + 1}, AfterRow(p, Cardinality(Created) + 1, TRUE))
          BY <2>3, <3>2 DEF SubmitCreates, Writes, Hear
        <4>2. AfterRow(p, Cardinality(Created) + 1, TRUE).at # "queue"
          BY <2>0 DEF AfterRow, Request
        <4> QED BY <1>2, <4>1, <4>2
      <3> QED BY <3>1, <3>2
    <2>4. CASE SubmitUpdates(p)
      <3>1. Hear(p, {request[p].id}, AfterRow(p, request[p].id, FALSE))
        BY <2>4 DEF SubmitUpdates, Writes, Hear
      <3>2. AfterRow(p, request[p].id, FALSE).at # "queue"
        BY <2>0 DEF AfterRow, Request
      <3> QED BY <1>2, <3>1, <3>2
    <2>5. CASE IssueReviewToken(p)
      <3> DEFINE fields == [request[p] EXCEPT !.at = IF request[p].opened THEN "supersede" ELSE "latest"]
      <3>1. Hear(p, {request[p].id}, fields)
        BY <2>5 DEF IssueReviewToken, Writes, Hear
      <3>2. fields.at # "queue"
        BY <2>0 DEF Request
      <3> QED BY <1>2, <3>1, <3>2
    <2>6. CASE Supersede(p)
      <3>1. Hear(p, {i \in Rounds \ {request[p].id} : round[i].link # 0 /\ ~round[i].revoked},
                 [request[p] EXCEPT !.at = "latest"])
        BY <2>6 DEF Supersede, Writes, Hear
      <3>2. [request[p] EXCEPT !.at = "latest"].at # "queue"
        BY <2>0 DEF Request
      <3> QED BY <1>2, <3>1, <3>2
    <2>7. CASE Prune(p)
      <3>1. Hear(p, {i \in Created \ {request[p].id} : round[i].status # "APPROVED"}, NoRequest)
        BY <2>7 DEF Prune, Writes, Hear
      <3> QED BY <1>0, <1>2, <3>1
    <2> QED BY <1>6, <2>1, <2>2, <2>3, <2>4, <2>5, <2>6, <2>7 DEF Submits
  <1>7. ASSUME NEW p \in Requests, Answers(p) PROVE FALSE
    <2>1. CASE ResolveWrites(p) \/ AnswerWrites(p) \/ SignWrites(p) \/ RevokeWrites(p)
      <3>2. Hear(p, {request[p].id}, NoRequest) \/ Goes(p, NoRequest)
        BY <2>1 DEF ResolveWrites, AnswerWrites, SignWrites, RevokeWrites, Writes, Hear
      <3> QED BY <1>0, <1>1, <1>2, <3>2
    <2>2. CASE ~(ResolveWrites(p) \/ AnswerWrites(p) \/ SignWrites(p) \/ RevokeWrites(p))
      <3>1. PICK i \in Rounds, verdict \in Verdicts :
              \/ \E by \in Users : ResolveReads(p, i, by, verdict)
              \/ AnswerReads(p, i, verdict) \/ SignReads(p, i) \/ RevokeReads(p, i)
        BY <1>7, <2>2 DEF Answers, Verdicts
      <3>2. CASE \E by \in Users : ResolveReads(p, i, by, verdict)
        <4>1. PICK by \in Users : ResolveReads(p, i, by, verdict)
          BY <3>2
        <4> DEFINE fields == [NoRequest EXCEPT !.at = "resolve", !.by = by, !.id = i, !.fresh = TRUE,
                                               !.pages = round[i].snap, !.verdict = verdict]
        <4>2. Begins(p, fields) /\ fields.at # "queue"
          BY <4>1 DEF ResolveReads, NoRequest
        <4> QED BY <1>4, <4>2
      <3>3. CASE AnswerReads(p, i, verdict)
        <4> DEFINE fields == [NoRequest EXCEPT !.at = "answer", !.id = i, !.fresh = TRUE,
                                !.client = round[i].signer, !.pages = round[i].snap, !.verdict = verdict]
        <4>2. Begins(p, fields) /\ fields.at # "queue"
          BY <3>3 DEF AnswerReads, NoRequest
        <4> QED BY <1>4, <4>2
      <3>4. CASE SignReads(p, i)
        <4> DEFINE fields == [NoRequest EXCEPT !.at = "sign", !.id = i, !.client = round[i].invited]
        <4>2. Begins(p, fields) /\ fields.at # "queue"
          BY <3>4 DEF SignReads, NoRequest
        <4> QED BY <1>4, <4>2
      <3>5. CASE RevokeReads(p, i)
        <4> DEFINE fields == [NoRequest EXCEPT !.at = "revoke", !.id = i, !.link = round[i].link, !.fresh = TRUE]
        <4>2. Begins(p, fields) /\ fields.at # "queue"
          BY <3>5 DEF RevokeReads, NoRequest
        <4> QED BY <1>4, <4>2
      <3> QED BY <3>1, <3>2, <3>3, <3>4, <3>5
    <2> QED BY <2>1, <2>2
  <1>8. ASSUME NEW p \in Requests, Publishes(p) PROVE Gate(q)
    <2>1. CASE \E by \in Users, ack \in BOOLEAN : PublishReadsSite(p, by, ack)
      <3>1. PICK by \in Users, ack \in BOOLEAN : PublishReadsSite(p, by, ack)
        BY <2>1
      <3> DEFINE fields == [NoRequest EXCEPT !.at = "gate", !.by = by, !.pages = version, !.ack = ack]
      <3>2. Begins(p, fields) /\ fields.at # "queue"
        BY <3>1 DEF PublishReadsSite, NoRequest
      <3> QED BY <1>4, <3>2
    <2>2. CASE Gate(p)
      BY <1>1, <2>2 DEF Gate
    <2>3. CASE PublishQueues(p)
      BY <1>0, <1>1, <2>3 DEF PublishQueues
    <2> QED BY <1>8, <2>1, <2>2, <2>3 DEF Publishes
  <1>9. ASSUME NEW p \in Requests, Fails(p) PROVE FALSE
    BY <1>0, <1>1, <1>9 DEF Fails
  <1> QED BY <1>5, <1>6, <1>7, <1>8, <1>9 DEF Next

\* Who passes the gate on a round is covered by it.
LEMMA GateCovers ==
  ASSUME IInv, NEW q \in Requests, Gate(q), Cleared(q)'
  PROVE  Covers(q)'
  <1> DEFINE standing == {j \in Created : ~round[j].revoked}
             i == Newest(standing)
  <1>1. /\ request[q] \in Request /\ request \in [Requests -> Request] /\ request[q].id = 0
        /\ UNCHANGED round /\ Created' = Created
    BY DEF Gate, Goes, IInv, Types, Fits, FitsAs, Created
  <1>2. request[q].by \notin Exempt
    <2> SUFFICES ASSUME request[q].by \in Exempt PROVE FALSE
      OBVIOUS
    <2>1. request'[q] = [request[q] EXCEPT !.at = "queue"]
      BY <1>1 DEF Gate, Goes
    <2>2. request'[q].id = 0
      BY <1>1, <2>1 DEF Request
    <2> QED BY <2>2 DEF Cleared
  <1>3. /\ standing # {} /\ round[i].status = "APPROVED"
        /\ Stale(q, round[i]) => request[q].ack
        /\ request'[q] = [request[q] EXCEPT !.at = "queue", !.id = i]
    BY <1>1, <1>2 DEF Gate, Goes
  <1>4. i \in standing /\ \A j \in standing : j <= i
    BY <1>3, NewestOf
  <1>5. \A j \in Created : j \in Nat /\ j \in Rounds
    BY BoundsAssumption DEF Created, Rounds
  <1> HIDE DEF i
  <1>6. \A j \in Created : j > i => round[j].revoked
    BY <1>4, <1>5
  <1>7. request'[q].id = i /\ request'[q].pages = request[q].pages /\ request'[q].ack = request[q].ack
    BY <1>1, <1>3 DEF Request
  <1>8. request[q].pages \in Nat /\ round[i].on \in Nat
    BY <1>1, <1>4, <1>5, BoundsAssumption DEF Request, IInv, Types, Row, Versions
  <1>9. request[q].pages <= round[i].on \/ request[q].ack
    BY <1>3, <1>8 DEF Stale
  <1> QED BY <1>1, <1>3, <1>4, <1>6, <1>7, <1>9 DEF Covers

\* No request but those named takes an approval away.
LEMMA ApprovalStays ==
  ASSUME IInv, [Next]_vars, NEW q \in Requests, Cleared(q), Covers(q),
         \A p \in Requests : ~TakesAway(p, request[q].id)
  PROVE  LET i == request[q].id IN
         /\ round'[i].status = "APPROVED" /\ ~round'[i].revoked /\ round'[i].on = round[i].on
         /\ \A j \in Created' : j > i => round'[j].revoked
  <1> DEFINE i == request[q].id
  <1>0. i \in Rounds /\ round \in [Rounds -> Row] /\ round[i] \in Row
    BY DEF IInv, Types, Request, Cleared
  <1>1. /\ round[i].status = "APPROVED" /\ ~round[i].revoked
        /\ \A j \in Created : j > i => round[j].revoked
    BY DEF Covers
  <1>2. \A p \in Requests : ~TakesAway(p, i)
    OBVIOUS
  <1> HIDE DEF i
  <1>3. round'[i].status = "APPROVED" /\ ~round'[i].revoked /\ round'[i].on = round[i].on
    <2>1. CASE round'[i] = round[i]
      BY <1>1, <2>1
    <2>2. CASE round'[i] # round[i]
      <3>1. PICK p \in Requests : Rewrites(p, i)
        BY <1>0, <2>2, RowsWritten
      <3>2. FitsAs(request[p]) /\ ~TakesAway(p, i)
        BY <1>2 DEF IInv, Fits
      <3>3. CASE request[p].at \in {"resolve", "answer"}
        BY <1>1, <3>1, <3>2, <3>3 DEF Rewrites, FitsAs, TakesAway
      <3>4. CASE request[p].at \in {"create", "supersede", "revoke"}
        BY <3>1, <3>2, <3>4 DEF Rewrites, TakesAway
      <3>5. CASE request[p].at \in {"update", "token", "prune", "sign"}
        BY <1>0, <1>1, <3>1, <3>5 DEF Rewrites, Row
      <3> QED BY <3>1, <3>3, <3>4, <3>5 DEF Rewrites
    <2> QED BY <2>1, <2>2
  <1>4. ASSUME NEW j \in Created', j > i PROVE round'[j].revoked
    <2>0. j \in Rounds /\ round'[j].status # "none"
      BY DEF Created
    <2>1. CASE round'[j] = round[j]
      BY <1>1, <1>4, <2>0, <2>1 DEF Created
    <2>2. CASE round'[j] # round[j]
      <3>1. PICK p \in Requests : Rewrites(p, j)
        BY <2>0, <2>2, RowsWritten
      <3>2. FitsAs(request[p]) /\ ~TakesAway(p, i) /\ round[j] \in Row
        BY <1>0, <1>2, <2>0 DEF IInv, Fits
      <3>3. CASE request[p].at \in {"create", "token"}
        BY <1>4, <3>1, <3>2, <3>3 DEF Rewrites, TakesAway
      <3>4. CASE request[p].at \in {"supersede", "revoke"}
        BY <3>1, <3>2, <3>4 DEF Rewrites, Row
      <3>5. CASE request[p].at = "prune"
        <4>1. round'[j] = [round[j] EXCEPT !.snap = 0]
          BY <3>1, <3>5 DEF Rewrites
        <4>2. round'[j].status = round[j].status /\ round'[j].revoked = round[j].revoked
          BY <3>2, <4>1 DEF Row
        <4> QED BY <1>1, <1>4, <2>0, <4>2 DEF Created
      <3>6. CASE request[p].at \in {"update", "resolve", "answer", "sign"}
        <4>1. j \in Created
          BY <3>1, <3>2, <3>6 DEF Rewrites, FitsAs
        <4>2. round'[j].revoked = round[j].revoked
          BY <3>1, <3>2, <3>6 DEF Rewrites, Row
        <4> QED BY <1>1, <1>4, <4>1, <4>2
      <3> QED BY <3>1, <3>3, <3>4, <3>5, <3>6 DEF Rewrites
    <2> QED BY <2>1, <2>2
  <1> QED BY <1>3, <1>4 DEF i

\* From the gate to its job a publish keeps the approval it passed on, but for the
\* requests named.
THEOREM ApprovalIsKept == Spec => ClearedStaysCovered
  <1>1. IInv /\ [Next]_vars =>
          [\A q \in Requests : Cleared(q)' /\ (Cleared(q) => Covers(q)) =>
             Covers(q)' \/ \E p \in Requests : TakesAway(p, request'[q].id)]_vars
    <2> SUFFICES ASSUME IInv, [Next]_vars, NEW q \in Requests, Cleared(q)', Cleared(q) => Covers(q),
                        \A p \in Requests : ~TakesAway(p, request'[q].id)
                 PROVE  Covers(q)'
      OBVIOUS
    <2>1. CASE ~Waits(q)
      BY <2>1, OnlyTheGate, GateCovers DEF Cleared
    <2>2. CASE Waits(q)
      <3>1. Cleared(q) /\ request'[q].id = request[q].id
        BY <2>2 DEF Waits, Cleared
      <3>2. Covers(q) /\ \A p \in Requests : ~TakesAway(p, request[q].id)
        BY <3>1
      <3> QED BY <2>2, <3>1, <3>2, ApprovalStays DEF Waits, Covers
    <2> QED BY <2>1, <2>2
  <1> QED BY <1>1, AlwaysInv, PTL DEF Spec, ClearedStaysCovered
=============================================================================
