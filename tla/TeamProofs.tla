------------------------------ MODULE TeamProofs ------------------------------
(* What holds of a workspace's team for any number of users, transfers and   *)
(* requests.                                                                 *)
EXTENDS TeamProperties, TLAPS

-----------------------------------------------------------------------------
(* Types.                                                                  *)

\* What a request that passed its checks is about: an acceptance and a suspension
\* name a user, a transfer is started by one, and a role change gives a role
\* below OWNER.
Fits(q) ==
  /\ q.op \in {"accept", "revoke"} => q.who \in Users
  /\ q.op = "initiate" => q.by \in Users
  /\ q.op = "changeRole" => q.role \in {"ADMIN", "EDITOR"}
RequestsFit == \A r \in Requests : Fits(request[r])

\* A transfer that may be accepted was started by a user.
TransfersFit == \A t \in Transfers : transfer[t].status = "PENDING" => transfer[t].from \in Users

\* A transaction that deletes an account is about a user, and hands to another one
\* only what it has read to be the user's.
DepartureFits ==
  /\ departure.at # "idle" => departure.user \in Users
  /\ departure.at = "owned" => departure.owned
  /\ ~departure.owned => departure.heir = Gone
  /\ departure.heir # Gone => departure.heir \in Users \ {departure.user}

\* The inductive invariant.
Typed == TypeOK /\ RequestsFit /\ TransfersFit /\ DepartureFits

\* A request that passes its checks is typed if what it passes with is.
LEMMA PassTyped ==
  ASSUME Typed, NEW r \in Requests, NEW fields \in Request, Passes(r, fields),
         Fits(fields)
  PROVE  Typed'
  BY DEF Typed, TypeOK, RequestsFit, TransfersFit, DepartureFits, Passes, people, deleting

\* A request that ends leaves the others as they were.
LEMMA EndTyped ==
  ASSUME Typed, NEW r \in Requests, Ends(r)
  PROVE  request' \in [Requests -> Request] /\ RequestsFit'
  <1>1. NoRequest \in Request
    BY DEF NoRequest, Request, Roles
  <1>2. request' = [request EXCEPT ![r] = NoRequest]
    BY DEF Ends
  <1>3. request' \in [Requests -> Request]
    BY <1>1, <1>2 DEF Typed, TypeOK
  <1>4. \A q \in Requests : request'[q] = request[q] \/ request'[q] = NoRequest
    BY <1>2 DEF Typed, TypeOK
  <1>5. RequestsFit'
    BY <1>4 DEF Typed, RequestsFit, Fits, NoRequest
  <1> QED BY <1>3, <1>5

\* The row of a transfer that is settled.
LEMMA SettledTyped ==
  /\ NoTransfer \in Transfer
  /\ \A s \in {"COMPLETED", "CANCELLED", "EXPIRED"} :
       Settled(s) \in Transfer /\ Settled(s).status = s
  BY DEF NoTransfer, Settled, Transfer

\* The checks of every request keep the types.
LEMMA CheckTyped ==
  ASSUME Typed, NEW r \in Requests, Check(r)
  PROVE  Typed'
  <1> DEFINE With(op, by, who, as, t) ==
        [op |-> op, by |-> by, who |-> who, role |-> as, transfer |-> t]
  <1>1. PICK by \in Users :
          \/ \E to \in Users : CheckInitiate(r, by, to)
          \/ \E t \in Transfers : CheckAccept(r, by, t)
          \/ CheckCancel(r, by)
          \/ \E who \in Users :
               \/ \E to \in {"ADMIN", "EDITOR"} : CheckChangeRole(r, by, who, to)
               \/ CheckRevoke(r, by, who) \/ CheckDelete(r, by, who)
    BY DEF Check
  <1>2. ASSUME NEW to \in Users, CheckInitiate(r, by, to) PROVE Typed'
    <2>1. [NoRequest EXCEPT !.op = "initiate", !.by = by, !.who = to] \in Request
      BY DEF NoRequest, Request, Roles
    <2> QED BY <1>2, <2>1, PassTyped DEF CheckInitiate, NoRequest, Fits
  <1>3. ASSUME NEW t \in Transfers, CheckAccept(r, by, t) PROVE Typed'
    <2>1. transfer[t].from \in Users
      BY <1>3 DEF Typed, TransfersFit, CheckAccept
    <2>2. [NoRequest EXCEPT !.op = "accept", !.by = by, !.who = transfer[t].from,
                            !.transfer = t] \in Request
      BY <2>1 DEF NoRequest, Request, Roles
    <2> QED BY <1>3, <2>1, <2>2, PassTyped DEF CheckAccept, NoRequest, Fits
  <1>4. CASE CheckCancel(r, by)
    <2>1. [NoRequest EXCEPT !.op = "cancel"] \in Request
      BY DEF NoRequest, Request, Roles
    <2> QED BY <1>4, <2>1, PassTyped DEF CheckCancel, NoRequest, Fits
  <1>5. ASSUME NEW who \in Users, NEW to \in {"ADMIN", "EDITOR"}, CheckChangeRole(r, by, who, to)
        PROVE  Typed'
    <2>1. [NoRequest EXCEPT !.op = "changeRole", !.who = who, !.role = to] \in Request
      BY DEF NoRequest, Request, Roles
    <2> QED BY <1>5, <2>1, PassTyped DEF CheckChangeRole, NoRequest, Fits
  <1>6. ASSUME NEW who \in Users, CheckRevoke(r, by, who) PROVE Typed'
    <2>1. [NoRequest EXCEPT !.op = "revoke", !.who = who] \in Request
      BY DEF NoRequest, Request, Roles
    <2> QED BY <1>6, <2>1, PassTyped DEF CheckRevoke, NoRequest, Fits
  <1>7. ASSUME NEW who \in Users, CheckDelete(r, by, who) PROVE Typed'
    <2>1. [NoRequest EXCEPT !.op = "delete", !.who = who] \in Request
      BY DEF NoRequest, Request, Roles
    <2> QED BY <1>7, <2>1, PassTyped DEF CheckDelete, NoRequest, Fits
  <1> QED BY <1>1, <1>2, <1>3, <1>4, <1>5, <1>6, <1>7

\* The writes of every request keep the types.
LEMMA WriteTyped ==
  ASSUME Typed, NEW r \in Requests, Write(r)
  PROVE  Typed'
  <1> USE DEF Typed, TypeOK, people, deleting, TransfersFit, DepartureFits
  <1>0. request[r] \in Request /\ Fits(request[r])
    BY DEF RequestsFit
  <1>1. ASSUME NEW t \in Transfers, WriteInitiate(r, t) PROVE Typed'
    <2>1. [status |-> "PENDING", from |-> request[r].by, to |-> request[r].who,
           late |-> FALSE] \in Transfer
      BY <1>0 DEF Request, Transfer
    <2>2. request[r].by \in Users
      BY <1>0, <1>1 DEF WriteInitiate, Fits
    <2> QED BY <1>1, <2>1, <2>2, EndTyped DEF WriteInitiate
  <1>2. CASE WriteAccept(r)
    <2>1. request[r].by \in account => request[r].by \in Users
      OBVIOUS
    <2>2. role' \in [Users -> Roles \union {"none"}]
      BY <1>2 DEF WriteAccept, Roles
    <2>3. transfer' \in [Transfers -> Transfer]
      BY <1>2, SettledTyped DEF WriteAccept
    <2>4. TransfersFit'
      BY <1>2, SettledTyped DEF WriteAccept
    <2> QED BY <1>2, <2>1, <2>2, <2>3, <2>4, EndTyped DEF WriteAccept
  <1>3. CASE WriteCancel(r)
    BY <1>3, SettledTyped, EndTyped DEF WriteCancel
  <1>4. CASE WriteChangeRole(r)
    <2>1. request[r].role \in Roles
      BY <1>0 DEF Request
    <2>2. role' \in [Users -> Roles \union {"none"}]
      BY <1>4, <2>1 DEF WriteChangeRole
    <2> QED BY <1>4, <2>2, EndTyped DEF WriteChangeRole
  <1>5. CASE WriteRevoke(r)
    <2>1. request[r].who \in Users
      BY <1>0, <1>5 DEF WriteRevoke, Fits
    <2> QED BY <1>5, <2>1, EndTyped DEF WriteRevoke
  <1>6. CASE WriteDelete(r)
    BY <1>6, EndTyped DEF WriteDelete
  <1> QED BY <1>1, <1>2, <1>3, <1>4, <1>5, <1>6 DEF Write

\* What the deletion of an account writes.
LEMMA Departs ==
  ASSUME Typed, DepartureWrites
  PROVE  LET u == departure.user
             heir == departure.heir IN
         /\ u \in Users
         /\ heir # Gone => heir \in Users \ {u} /\ role[heir] # "none" /\ departure.owned
         /\ owner' = IF departure.owned THEN heir ELSE owner
         /\ \A v \in Users : role'[v] = IF v = u \/ owner' = Gone THEN "none"
                                       ELSE IF v = heir THEN "OWNER" ELSE role[v]
         /\ suspended' = IF owner' = Gone THEN {} ELSE suspended \ {u}
         /\ account' = account \ {u}
  <1> DEFINE u == departure.user
             heir == departure.heir
  <1>1. u \in Users /\ (heir # Gone => heir \in Users \ {u} /\ departure.owned)
    BY DEF DepartureWrites, Typed, DepartureFits
  <1>2. ASSUME NEW v \in Users
        PROVE  role'[v] = IF v = u \/ owner' = Gone THEN "none"
                          ELSE IF v = heir THEN "OWNER" ELSE role[v]
    <2>1. role'[v] = CASE v = u \/ owner' = Gone -> "none"
                       [] v = heir -> "OWNER"
                       [] OTHER -> role[v]
      BY DEF DepartureWrites
    <2>2. v = heir => heir # Gone /\ owner' = heir /\ v # u
      BY <1>1, GoneAssumption DEF DepartureWrites
    <2> QED BY <2>1, <2>2
  <1> QED BY <1>1, <1>2 DEF DepartureWrites

\* A user who is deleted leaves the types as they are.
LEMMA SweepTyped ==
  ASSUME Typed, DepartureWrites
  PROVE  Typed'
  <1> USE DEF Typed, TypeOK
  <1>1. role' \in [Users -> Roles \union {"none"}]
    <2>1. \A v \in Users : role'[v] \in Roles \union {"none"}
      BY Departs DEF Roles
    <2>2. role' = [v \in Users |-> role'[v]]
      BY DEF DepartureWrites
    <2> QED BY <2>1, <2>2
  <1>2. owner' \in Users \union {Gone}
    BY Departs
  <1>3. suspended' \subseteq Users /\ account' \subseteq Users
    BY Departs
  <1>4. sweep' \subseteq Users /\ departure' = NoDeparture /\ UNCHANGED <<leaving, transfer, request>>
    BY DEF DepartureWrites
  <1>5. departure' \in Departure /\ DepartureFits'
    BY <1>4 DEF NoDeparture, Departure, DepartureFits
  <1> QED BY <1>1, <1>2, <1>3, <1>4, <1>5 DEF RequestsFit, TransfersFit

\* The run and its reads.
LEMMA ReadsTyped ==
  ASSUME Typed,
         \/ \E u \in Users : DepartureBegins(u)
         \/ DepartureFindsHeir \/ SweepReads \/ SweepStops
  PROVE  Typed'
  <1> USE DEF Typed, TypeOK, people
  <1>1. ASSUME NEW u \in Users, DepartureBegins(u) PROVE Typed'
    <2>1. departure' = [at |-> IF owner = u THEN "owned" ELSE "read",
                        user |-> u, owned |-> owner = u, heir |-> Gone]
      BY <1>1 DEF DepartureBegins
    <2>2. departure' \in Departure /\ DepartureFits'
      BY <2>1 DEF Departure, DepartureFits
    <2> QED BY <1>1, <2>2 DEF DepartureBegins, RequestsFit, TransfersFit
  <1>2. CASE DepartureFindsHeir
    <2>1. PICK heir \in (Users \ {departure.user}) \union {Gone} :
            departure' = [departure EXCEPT !.at = "read", !.heir = heir]
      BY <1>2 DEF DepartureFindsHeir, Heirs
    <2>2. departure.owned /\ departure.user \in Users /\ departure \in Departure
      BY <1>2 DEF DepartureFindsHeir, DepartureFits
    <2>3. departure' \in Departure /\ DepartureFits'
      BY <2>1, <2>2 DEF Departure, DepartureFits
    <2> QED BY <1>2, <2>3 DEF DepartureFindsHeir, RequestsFit, TransfersFit
  <1>3. CASE SweepReads
    BY <1>3 DEF SweepReads, RequestsFit, TransfersFit, DepartureFits
  <1>4. CASE SweepStops
    BY <1>4 DEF SweepStops, RequestsFit, TransfersFit, DepartureFits, NoDeparture, Departure
  <1> QED BY <1>1, <1>2, <1>3, <1>4

\* Every step keeps the types.
LEMMA StepTyped ==
  ASSUME Typed, [Next]_vars
  PROVE  Typed'
  <1>1. ASSUME NEW r \in Requests, Check(r) PROVE Typed'
    BY <1>1, CheckTyped
  <1>2. ASSUME NEW r \in Requests, Write(r) PROVE Typed'
    BY <1>2, WriteTyped
  <1>3. ASSUME NEW r \in Requests, Fails(r) PROVE Typed'
    BY <1>3, EndTyped DEF Fails, Typed, TypeOK, TransfersFit, DepartureFits, people, deleting
  <1>4. ASSUME NEW u \in Users, Join(u) PROVE Typed'
    BY <1>4 DEF Join, Typed, TypeOK, RequestsFit, TransfersFit, DepartureFits, people, deleting, Roles
  <1>5. ASSUME NEW u \in Users,
               RequestAccountDeletion(u) \/ CancelAccountDeletion(u) \/ AccountComesDue(u)
        PROVE  Typed'
    BY <1>5 DEF RequestAccountDeletion, CancelAccountDeletion, AccountComesDue, Typed, TypeOK,
                RequestsFit, TransfersFit, DepartureFits, deleting
  <1>6. CASE DepartureWrites
    BY <1>6, SweepTyped
  <1>7. ASSUME NEW u \in Users, NEW by \in Users, Reactivate(by, u) PROVE Typed'
    BY <1>7 DEF Reactivate, Typed, TypeOK, RequestsFit, TransfersFit, DepartureFits, people, deleting
  <1>8. ASSUME NEW t \in Transfers, TransferLapses(t) PROVE Typed'
    <2>1. [transfer[t] EXCEPT !.late = TRUE] \in Transfer
      BY DEF Typed, TypeOK, Transfer
    <2> QED BY <1>8, <2>1 DEF TransferLapses, Typed, TypeOK, RequestsFit, TransfersFit, DepartureFits, people, deleting
  <1>9. CASE ExpireTransfers
    BY <1>9, SettledTyped DEF ExpireTransfers, Typed, TypeOK, RequestsFit, TransfersFit, DepartureFits, people, deleting
  <1>10. CASE \/ \E u \in Users : DepartureBegins(u)
              \/ DepartureFindsHeir \/ SweepReads \/ SweepStops
    BY <1>10, ReadsTyped
  <1>11. CASE UNCHANGED vars
    BY <1>11 DEF vars, Typed, TypeOK, RequestsFit, TransfersFit, DepartureFits, people, deleting
  <1> QED BY <1>1, <1>2, <1>3, <1>4, <1>5, <1>6, <1>7, <1>8, <1>9, <1>10, <1>11 DEF Next

\* Every reachable state has its types, and its requests fit.
LEMMA AlwaysTyped == Spec => []Typed
  <1>1. Init => Typed
    BY DEF Init, Typed, TypeOK, RequestsFit, Fits, TransfersFit, DepartureFits, Roles, NoTransfer,
           Transfer, NoRequest, Request, NoDeparture, Departure
  <1>2. Typed /\ [Next]_vars => Typed'
    BY StepTyped
  <1> QED BY <1>1, <1>2, PTL DEF Spec

\* Every variable of the team has its type, whatever its size.
THEOREM TeamTypes == Spec => []TypeOK
  <1>1. Typed => TypeOK
    BY DEF Typed
  <1> QED BY <1>1, AlwaysTyped, PTL

-----------------------------------------------------------------------------
(* Somebody owns the workspace.                                            *)

\* The writes of requests keep it: an acceptance finds the account, and no other
\* write makes a row of a user who has none.
LEMMA WriteKeepsOwner ==
  ASSUME Typed, OwnerExists, NEW r \in Requests, Write(r)
  PROVE  OwnerExists'
  <1> USE DEF OwnerExists, Members, Typed, TypeOK, people
  <1>1. CASE WriteAccept(r)
    <2>1. CASE owner # Gone /\ request[r].by \in account
      <3>1. owner' = request[r].by /\ account' = account
        BY <1>1, <2>1 DEF WriteAccept
      <3>2. \A u \in Users : role'[u] # "none" => role[u] # "none" \/ u = request[r].by
        BY <1>1, <2>1 DEF WriteAccept
      <3>3. owner' # Gone
        BY <2>1, <3>1, GoneAssumption
      <3> QED BY <2>1, <3>1, <3>2, <3>3
    <2>2. CASE ~(owner # Gone /\ request[r].by \in account)
      BY <1>1, <2>2 DEF WriteAccept
    <2> QED BY <2>1, <2>2
  <1>2. CASE WriteChangeRole(r)
    <2>1. \A u \in Users : role'[u] # "none" => role[u] # "none"
      BY <1>2 DEF WriteChangeRole
    <2> QED BY <1>2, <2>1 DEF WriteChangeRole
  <1>3. CASE WriteDelete(r)
    <2>1. \A u \in Users : role'[u] # "none" => role[u] # "none"
      BY <1>3 DEF WriteDelete
    <2> QED BY <1>3, <2>1 DEF WriteDelete
  <1>4. CASE WriteCancel(r) \/ WriteRevoke(r) \/ \E t \in Transfers : WriteInitiate(r, t)
    BY <1>4 DEF WriteCancel, WriteRevoke, WriteInitiate
  <1> QED BY <1>1, <1>2, <1>3, <1>4 DEF Write

\* An account's end hands the workspace to a member, who has an account, or
\* ends it with all its members, or finds that it is not the owner's.
LEMMA SweepKeepsOwner ==
  ASSUME Typed, OwnerExists, DepartureWrites
  PROVE  OwnerExists' \/ DepartsUnread
  <1> USE DEF OwnerExists, Members, Typed, TypeOK
  <1> DEFINE u == departure.user
             heir == departure.heir
  <1>1. \A v \in Users : role'[v] # "none" => v # u /\ owner' # Gone /\ (v = heir \/ role[v] # "none")
    BY Departs
  <1>2. heir # Gone => heir \in account \ {u}
    BY Departs
  <1>3. account' = account \ {u}
    BY Departs
  <1>4. Members' \subseteq account' /\ (owner' = Gone => Members' = {})
    BY <1>1, <1>2, <1>3, GoneAssumption
  <1>5. CASE departure.owned
    <2>1. owner' = heir
      BY <1>5, Departs
    <2> QED BY <1>2, <1>3, <1>4, <2>1
  <1>6. CASE ~departure.owned
    <2>1. owner' = owner
      BY <1>6, Departs
    <2>2. CASE owner = u
      BY <1>3, <1>6, <2>2 DEF DepartsUnread, DepartureWrites
    <2>3. CASE owner # u
      BY <1>3, <1>4, <2>1, <2>3
    <2> QED BY <2>2, <2>3
  <1> QED BY <1>5, <1>6

\* Every step keeps the owner, or deletes an account that did not have it when read.
LEMMA StepKeepsOwner ==
  ASSUME Typed, OwnerExists, [Next]_vars
  PROVE  OwnerExists' \/ DepartsUnread
  <1>1. ASSUME NEW r \in Requests, Write(r) PROVE OwnerExists'
    BY <1>1, WriteKeepsOwner
  <1>2. ASSUME NEW u \in Users, Join(u) PROVE OwnerExists'
    <2>1. \A v \in Users : role'[v] # "none" => role[v] # "none" \/ v = u
      BY <1>2 DEF Join, Typed, TypeOK
    <2> QED BY <1>2, <2>1 DEF Join, people, OwnerExists, Members
  <1>3. CASE DepartureWrites
    BY <1>3, SweepKeepsOwner
  <1>4. CASE UNCHANGED <<account, owner, role>>
    BY <1>4 DEF OwnerExists, Members
  <1>5. ASSUME NEW r \in Requests, Check(r) \/ Fails(r) PROVE UNCHANGED <<account, owner, role>>
    BY <1>5 DEF Check, Fails, CheckInitiate, CheckAccept, CheckCancel, CheckChangeRole,
                CheckRevoke, CheckDelete, Passes, people
  <1>6. ASSUME NEW u \in Users,
               \/ RequestAccountDeletion(u) \/ CancelAccountDeletion(u) \/ AccountComesDue(u)
               \/ DepartureBegins(u) \/ \E by \in Users : Reactivate(by, u)
        PROVE  UNCHANGED <<account, owner, role>>
    BY <1>6 DEF RequestAccountDeletion, CancelAccountDeletion, AccountComesDue, DepartureBegins,
                Reactivate, people
  <1>7. CASE \/ \E t \in Transfers : TransferLapses(t)
             \/ ExpireTransfers \/ SweepReads \/ DepartureFindsHeir \/ SweepStops
             \/ UNCHANGED vars
    BY <1>4, <1>7 DEF TransferLapses, ExpireTransfers, SweepReads, DepartureFindsHeir,
                          SweepStops, vars, people
  <1> QED BY <1>1, <1>2, <1>3, <1>4, <1>5, <1>6, <1>7 DEF Next

\* No order of transfers, role changes and account deletions leaves a workspace
\* to an account that is gone, but for the acceptance the deletion did not read.
THEOREM SomebodyOwnsIt == Spec => OwnerIsKept
  <1>1. Typed /\ [Next]_vars => [OwnerExists => OwnerExists' \/ DepartsUnread]_vars
    BY StepKeepsOwner
  <1> QED BY <1>1, AlwaysTyped, PTL DEF Spec, OwnerIsKept

-----------------------------------------------------------------------------
(* The owner's role.                                                       *)

\* A write that does not overlook what became of its check leaves the owner the
\* one active member whose row says OWNER.
LEMMA WriteKeepsCharge ==
  ASSUME Typed, InCharge, NEW r \in Requests, Write(r), ~Overlooks(r)
  PROVE  InCharge'
  <1> USE DEF InCharge, Typed, TypeOK, people
  <1> SUFFICES ASSUME owner' # Gone PROVE InCharge'
    OBVIOUS
  <1>1. request[r] # NoRequest /\ request'[r] = NoRequest
    BY DEF Write, WriteInitiate, WriteAccept, WriteCancel, WriteChangeRole, WriteRevoke,
           WriteDelete, Ends, NoRequest
  <1>2. CASE WriteAccept(r)
    <2>1. CASE owner # Gone /\ request[r].by \in account
      <3>1. request[r].who = owner /\ request[r].by # owner /\ request[r].by \notin suspended
        BY <1>1, <1>2 DEF WriteAccept, Overlooks, RequestsFit, Fits
      <3>2. ASSUME NEW u \in Users
            PROVE  role'[u] = "OWNER" <=> u = request[r].by
        <4>1. role'[u] = CASE u = owner /\ role[u] # "none" -> "EDITOR"
                           [] u = request[r].by -> "OWNER"
                           [] OTHER -> role[u]
          BY <1>2, <2>1, <3>1 DEF WriteAccept
        <4>2. CASE u = owner
          BY <2>1, <3>1, <4>1, <4>2
        <4>3. CASE u # owner
          BY <2>1, <3>1, <4>1, <4>3
        <4> QED BY <4>2, <4>3
      <3>3. owner' = request[r].by /\ suspended' = suspended /\ request[r].by \in Users
        BY <1>2, <2>1 DEF WriteAccept
      <3> QED BY <3>1, <3>2, <3>3
    <2>2. CASE ~(owner # Gone /\ request[r].by \in account)
      BY <1>2, <2>2 DEF WriteAccept
    <2> QED BY <2>1, <2>2
  <1>3. CASE WriteChangeRole(r)
    <2>1. request[r].who # owner /\ request[r].role # "OWNER"
      BY <1>1, <1>3 DEF WriteChangeRole, Overlooks, RequestsFit, Fits
    <2>2. \A u \in Users : role'[u] = "OWNER" <=> role[u] = "OWNER"
      BY <1>3, <2>1 DEF WriteChangeRole
    <2> QED BY <1>3, <2>2 DEF WriteChangeRole
  <1>4. CASE WriteRevoke(r)
    <2>1. request[r].who # owner
      BY <1>1, <1>4 DEF WriteRevoke, Overlooks
    <2> QED BY <1>4, <2>1 DEF WriteRevoke
  <1>5. CASE WriteDelete(r)
    <2>1. request[r].who # owner
      BY <1>1, <1>5 DEF WriteDelete, Overlooks
    <2>2. \A u \in Users : role'[u] = "OWNER" <=> role[u] = "OWNER"
      BY <1>5, <2>1 DEF WriteDelete
    <2> QED BY <1>5, <2>2 DEF WriteDelete
  <1>6. CASE WriteCancel(r) \/ \E t \in Transfers : WriteInitiate(r, t)
    BY <1>6 DEF WriteCancel, WriteInitiate
  <1> QED BY <1>2, <1>3, <1>4, <1>5, <1>6 DEF Write

\* An account's end makes its heir the owner in both places, if what it read of
\* them is still so.
LEMMA SweepKeepsCharge ==
  ASSUME Typed, InCharge, DepartureWrites, ~DepartsOnStaleReads
  PROVE  InCharge'
  <1> USE DEF InCharge, Typed, TypeOK
  <1> DEFINE u == departure.user
             heir == departure.heir
  <1> SUFFICES ASSUME owner' # Gone PROVE InCharge'
    OBVIOUS
  <1>1. u \in Users /\ suspended' = suspended \ {u}
        /\ owner' = IF departure.owned THEN heir ELSE owner
    BY Departs
  <1>2. ASSUME NEW v \in Users
        PROVE  role'[v] = IF v = u THEN "none" ELSE IF v = heir THEN "OWNER" ELSE role[v]
    BY Departs
  <1>3. departure.owned = (owner = u) /\ heir \notin suspended
    <2>1. u \notin account' /\ departure.at = "read" /\ departure.owned \in BOOLEAN
      BY Departs DEF DepartureWrites, Departure
    <2> QED BY <2>1 DEF DepartsOnStaleReads
  <1>4. CASE owner = u
    <2>1. departure.owned /\ owner' = heir /\ heir \in Users \ {u} /\ owner # Gone
      BY <1>1, <1>3, <1>4, Departs, GoneAssumption
    <2> QED BY <1>1, <1>2, <1>3, <1>4, <2>1
  <1>5. CASE owner # u
    <2>1. ~departure.owned /\ owner' = owner /\ heir = Gone
      BY <1>1, <1>3, <1>5 DEF DepartureFits
    <2>2. \A v \in Users : role'[v] = IF v = u THEN "none" ELSE role[v]
      BY <1>2, <2>1, GoneAssumption
    <2> QED BY <1>1, <1>5, <2>1, <2>2
  <1> QED BY <1>4, <1>5

\* Every step but an overlooking write does.
LEMMA StepKeepsCharge ==
  ASSUME Typed, InCharge, [Next]_vars
  PROVE  InCharge' \/ DepartsOnStaleReads \/ \E r \in Requests : Overlooks(r)
  <1>1. ASSUME NEW r \in Requests, Write(r) PROVE InCharge' \/ Overlooks(r)
    BY <1>1, WriteKeepsCharge
  <1>2. ASSUME NEW u \in Users, Join(u) PROVE InCharge'
    <2>1. \A v \in Users : role'[v] = "OWNER" <=> role[v] = "OWNER"
      BY <1>2 DEF Join, Typed, TypeOK
    <2> QED BY <1>2, <2>1 DEF Join, InCharge, Typed, TypeOK
  <1>3. CASE DepartureWrites
    BY <1>3, SweepKeepsCharge
  <1>4. ASSUME NEW u \in Users, NEW by \in Users, Reactivate(by, u) PROVE InCharge'
    BY <1>4 DEF Reactivate, InCharge
  <1>5. CASE UNCHANGED <<owner, role, suspended>>
    BY <1>5 DEF InCharge
  <1>6. ASSUME NEW r \in Requests, Check(r) \/ Fails(r) PROVE UNCHANGED <<owner, role, suspended>>
    BY <1>6 DEF Check, Fails, CheckInitiate, CheckAccept, CheckCancel, CheckChangeRole,
                CheckRevoke, CheckDelete, Passes
  <1>7. ASSUME NEW u \in Users,
               \/ RequestAccountDeletion(u) \/ CancelAccountDeletion(u) \/ AccountComesDue(u)
               \/ DepartureBegins(u)
        PROVE  UNCHANGED <<owner, role, suspended>>
    BY <1>7 DEF RequestAccountDeletion, CancelAccountDeletion, AccountComesDue, DepartureBegins
  <1>8. CASE \/ \E t \in Transfers : TransferLapses(t)
             \/ ExpireTransfers \/ SweepReads \/ DepartureFindsHeir \/ SweepStops
             \/ UNCHANGED vars
    BY <1>5, <1>8 DEF TransferLapses, ExpireTransfers, SweepReads, DepartureFindsHeir,
                          SweepStops, vars
  <1> QED BY <1>1, <1>2, <1>3, <1>4, <1>5, <1>6, <1>7, <1>8 DEF Next

\* The owner stays the one active OWNER, but for the writes that have a name.
THEOREM OwnerKeepsTheRole == Spec => OwnerStaysInCharge
  <1>1. Typed /\ [Next]_vars =>
          [InCharge => InCharge' \/ DepartsOnStaleReads \/ \E r \in Requests : Overlooks(r)]_vars
    BY StepKeepsCharge
  <1> QED BY <1>1, AlwaysTyped, PTL DEF Spec, OwnerStaysInCharge

-----------------------------------------------------------------------------
(* Transfers.                                                              *)

\* A step changes a transfer only while it is open, or accepts it.
Reopens(t) ==
  \E r \in Requests : /\ request[r].op = "accept" /\ request[r].transfer = t
                      /\ transfer'[t].status = "COMPLETED"
LEMMA StepKeepsSettled ==
  ASSUME Typed, [Next]_vars, NEW t \in Transfers,
         transfer[t].status \notin {"none", "PENDING"}
  PROVE  transfer'[t] = transfer[t] \/ Reopens(t)
  <1> USE DEF Typed, TypeOK, people
  <1>1. ASSUME NEW r \in Requests, WriteAccept(r) PROVE transfer'[t] = transfer[t] \/ Reopens(t)
    BY <1>1, SettledTyped DEF WriteAccept, Reopens
  <1>2. ASSUME NEW r \in Requests, Write(r), ~WriteAccept(r) PROVE transfer'[t] = transfer[t]
    BY <1>2 DEF Write, WriteInitiate, WriteCancel, WriteChangeRole, WriteRevoke, WriteDelete
  <1>3. ASSUME NEW r \in Requests, Check(r) \/ Fails(r) PROVE transfer'[t] = transfer[t]
    BY <1>3 DEF Check, Fails, CheckInitiate, CheckAccept, CheckCancel, CheckChangeRole,
                CheckRevoke, CheckDelete, Passes
  <1>4. ASSUME NEW u \in Users,
               \/ Join(u) \/ RequestAccountDeletion(u) \/ CancelAccountDeletion(u)
               \/ AccountComesDue(u) \/ DepartureBegins(u) \/ \E by \in Users : Reactivate(by, u)
        PROVE  transfer'[t] = transfer[t]
    BY <1>4 DEF Join, RequestAccountDeletion, CancelAccountDeletion, AccountComesDue,
                DepartureBegins, Reactivate
  <1>5. ASSUME NEW s \in Transfers, TransferLapses(s) PROVE transfer'[t] = transfer[t]
    BY <1>5 DEF TransferLapses
  <1>6. CASE \/ ExpireTransfers \/ SweepReads \/ DepartureFindsHeir \/ DepartureWrites
             \/ SweepStops \/ UNCHANGED vars
    BY <1>6 DEF ExpireTransfers, SweepReads, DepartureFindsHeir, DepartureWrites, SweepStops, vars
  <1> QED BY <1>1, <1>2, <1>3, <1>4, <1>5, <1>6 DEF Next

\* A settled transfer is settled for good, but for an acceptance under way.
THEOREM SettledIsSettled == Spec => SettledTransferStays
  <1>1. Typed /\ [Next]_vars =>
          [\A t \in Transfers : transfer[t].status \notin {"none", "PENDING"} =>
             \/ transfer'[t] = transfer[t]
             \/ \E r \in Requests : /\ request[r].op = "accept" /\ request[r].transfer = t
                                   /\ transfer'[t].status = "COMPLETED"]_vars
    BY StepKeepsSettled DEF Reopens
  <1> QED BY <1>1, AlwaysTyped, PTL DEF Spec, SettledTransferStays
=============================================================================
