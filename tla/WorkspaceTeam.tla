---------------------------- MODULE WorkspaceTeam ----------------------------
(***************************************************************************)
(* Who owns a workspace and who may act in it.                             *)
(*                                                                         *)
(* The owner is named twice: by Workspace.ownerId and by the role OWNER of *)
(* a member row.  Ownership moves by a transfer the owner starts and the   *)
(* invited user accepts (workspace-transfer.service.ts), or to an heir     *)
(* when the owner's account is deleted (cron account-deletion).  Admins    *)
(* meanwhile change roles, suspend and remove members (team.service.ts).   *)
(* Every one of these requests checks first and writes later, and its      *)
(* write does not look again at what was checked.                          *)
(*                                                                         *)
(* A request is two actions: the reads with their checks, and the write.   *)
(* EDITOR stands for every role below ADMIN.                               *)
(***************************************************************************)
EXTENDS Naturals, FiniteSets

CONSTANTS
  Users,      \* the people
  Transfers,  \* the transfers that may be started
  Requests,   \* the requests under way at a time
  Gone,       \* the workspace is deleted; no user; no transfer
  MaxLeavers  \* bound: the users who ask to be deleted

ASSUME BoundAssumption == MaxLeavers \in Nat
ASSUME GoneAssumption == Gone \notin Users /\ Gone \notin Transfers

VARIABLES
  account,    \* the users who have an account
  leaving,    \* each user's account deletion request
  owner,      \* Workspace.ownerId
  role,       \* each user's WorkspaceMember row
  suspended,  \* the members whose row says SUSPENDED
  transfer,   \* the WorkspaceTransfer rows
  request,    \* the requests that passed their checks
  sweep,      \* the due deletion requests the account-deletion run read
  departure   \* what the run's transaction has read of the one it is deleting

people == <<account, leaving>>
deleting == <<sweep, departure>>
vars == <<people, owner, role, suspended, transfer, request, deleting>>

-----------------------------------------------------------------------------
Roles == {"OWNER", "ADMIN", "EDITOR"}
Transfer == [status : {"none", "PENDING", "COMPLETED", "CANCELLED", "EXPIRED"},
             from : Users \union {Gone}, to : Users \union {Gone}, late : BOOLEAN]
NoTransfer == [status |-> "none", from |-> Gone, to |-> Gone, late |-> FALSE]
\* Who a settled transfer was between nobody reads again.
Settled(status) == [NoTransfer EXCEPT !.status = status]
Request == [op : {"idle", "initiate", "accept", "cancel", "changeRole", "revoke", "delete"},
            by : Users \union {Gone}, who : Users \union {Gone}, role : Roles,
            transfer : Transfers \union {Gone}]
\* The transaction that deletes one account: owned says that its user owned the
\* workspace when it looked, heir whom it found to inherit it.
Departure == [at : {"idle", "owned", "read"}, user : Users \union {Gone},
              owned : BOOLEAN, heir : Users \union {Gone}]
NoDeparture == [at |-> "idle", user |-> Gone, owned |-> FALSE, heir |-> Gone]
NoRequest == [op |-> "idle", by |-> Gone, who |-> Gone, role |-> "EDITOR", transfer |-> Gone]

Members == {u \in Users : role[u] # "none"}
Active(u) == role[u] # "none" /\ u \notin suspended
\* checkWorkspaceRole(..., "ADMIN").
MayAdminister(u) == Active(u) /\ role[u] \in {"ADMIN", "OWNER"}

\* createWorkspace: the workspace and its owner's row in one transaction.
Init ==
  /\ account = Users
  /\ leaving = [u \in Users |-> "no"]
  /\ owner \in Users
  /\ role = [u \in Users |-> IF u = owner THEN "OWNER" ELSE "none"]
  /\ suspended = {}
  /\ transfer = [t \in Transfers |-> NoTransfer]
  /\ request = [r \in Requests |-> NoRequest]
  /\ sweep = {}
  /\ departure = NoDeparture

-----------------------------------------------------------------------------
(* The checks.                                                             *)

Passes(r, fields) ==
  /\ request[r] = NoRequest
  /\ request' = [request EXCEPT ![r] = fields]
  /\ UNCHANGED <<people, owner, role, suspended, transfer, deleting>>

\* Nothing refuses the owner's own address.
CheckInitiate(r, by, to) ==
  /\ owner = by
  /\ \A t \in Transfers : transfer[t].status = "PENDING" => transfer[t].late
  /\ Passes(r, [NoRequest EXCEPT !.op = "initiate", !.by = by, !.who = to])

CheckAccept(r, by, t) ==
  /\ by \in account
  /\ transfer[t].status = "PENDING" /\ ~transfer[t].late /\ transfer[t].to = by
  /\ Passes(r, [NoRequest EXCEPT !.op = "accept", !.by = by,
                                 !.who = transfer[t].from, !.transfer = t])

CheckCancel(r, by) ==
  /\ owner = by
  /\ Passes(r, [NoRequest EXCEPT !.op = "cancel"])

\* LAST_ADMIN counts owners and admins, suspended ones too.
CheckChangeRole(r, by, who, to) ==
  /\ MayAdminister(by) /\ who # by
  /\ role[who] \in {"ADMIN", "EDITOR"}
  /\ role[who] = "ADMIN" /\ to # "ADMIN" =>
       Cardinality({u \in Users : role[u] \in {"ADMIN", "OWNER"}}) > 1
  /\ Passes(r, [NoRequest EXCEPT !.op = "changeRole", !.who = who, !.role = to])

CheckRevoke(r, by, who) ==
  /\ MayAdminister(by) /\ who # by
  /\ role[who] \in {"ADMIN", "EDITOR"}
  /\ Passes(r, [NoRequest EXCEPT !.op = "revoke", !.who = who])

\* An admin may remove themselves.
CheckDelete(r, by, who) ==
  /\ MayAdminister(by)
  /\ role[who] \in {"ADMIN", "EDITOR"}
  /\ Passes(r, [NoRequest EXCEPT !.op = "delete", !.who = who])

-----------------------------------------------------------------------------
(* The writes.                                                             *)

Ends(r) == request' = [request EXCEPT ![r] = NoRequest]

WriteInitiate(r, t) ==
  /\ request[r].op = "initiate" /\ transfer[t].status = "none"
  /\ transfer' = [transfer EXCEPT ![t] =
       [status |-> "PENDING", from |-> request[r].by, to |-> request[r].who, late |-> FALSE]]
  /\ Ends(r)
  /\ UNCHANGED <<people, owner, role, suspended, deleting>>

\* (mutant) The old owner's row is left as it is.
WriteAcceptOnly(r) ==
  /\ request[r].op = "accept"
  /\ IF owner # Gone /\ request[r].by \in account
     THEN /\ owner' = request[r].by
          /\ role' = [role EXCEPT ![request[r].by] = "OWNER"]
          /\ transfer' = [transfer EXCEPT ![request[r].transfer] = Settled("COMPLETED")]
     ELSE UNCHANGED <<owner, role, transfer>>
  /\ Ends(r)
  /\ UNCHANGED <<people, suspended, deleting>>

\* One transaction: it fails when the workspace or the new owner's account is gone.
WriteAccept(r) ==
  /\ request[r].op = "accept"
  /\ LET t == request[r].transfer
         by == request[r].by
         from == request[r].who IN
     IF owner # Gone /\ by \in account
     THEN /\ owner' = by
          /\ role' = [u \in Users |-> CASE u = from /\ role[u] # "none" -> "EDITOR"
                                        [] u = by -> IF from = by THEN "EDITOR" ELSE "OWNER"
                                        [] OTHER -> role[u]]
          /\ transfer' = [transfer EXCEPT ![t] = Settled("COMPLETED")]
     ELSE UNCHANGED <<owner, role, transfer>>
  /\ Ends(r)
  /\ UNCHANGED <<people, suspended, deleting>>

\* (mutant) Every transfer of the workspace is cancelled, settled or not.
WriteCancelAll(r) ==
  /\ request[r].op = "cancel"
  /\ transfer' = [t \in Transfers |-> Settled("CANCELLED")]
  /\ Ends(r)
  /\ UNCHANGED <<people, owner, role, suspended, deleting>>

WriteCancel(r) ==
  /\ request[r].op = "cancel"
  /\ transfer' = [t \in Transfers |-> IF transfer[t].status = "PENDING"
                                      THEN Settled("CANCELLED")
                                      ELSE transfer[t]]
  /\ Ends(r)
  /\ UNCHANGED <<people, owner, role, suspended, deleting>>

\* The three writes on a member's row find it by its id alone, whatever role it
\* has by now; a row that was deleted meanwhile makes them throw.

WriteChangeRole(r) ==
  /\ request[r].op = "changeRole"
  /\ LET who == request[r].who IN
       /\ role' = IF role[who] = "none" THEN role ELSE [role EXCEPT ![who] = request[r].role]
  /\ Ends(r)
  /\ UNCHANGED <<people, owner, suspended, transfer, deleting>>

WriteRevoke(r) ==
  /\ request[r].op = "revoke"
  /\ LET who == request[r].who IN
       /\ suspended' = IF role[who] = "none" THEN suspended ELSE suspended \union {who}
  /\ Ends(r)
  /\ UNCHANGED <<people, owner, role, transfer, deleting>>

WriteDelete(r) ==
  /\ request[r].op = "delete"
  /\ LET who == request[r].who IN
       /\ role' = [role EXCEPT ![who] = "none"]
       /\ suspended' = suspended \ {who}
  /\ Ends(r)
  /\ UNCHANGED <<people, owner, transfer, deleting>>

-----------------------------------------------------------------------------
(* Requests of one statement.                                              *)

\* acceptInvite: the row is created with the invited role, never OWNER.
Join(u) ==
  /\ owner # Gone /\ u \in account /\ role[u] = "none"
  /\ \E as \in {"ADMIN", "EDITOR"} : role' = [role EXCEPT ![u] = as]
  /\ UNCHANGED <<people, owner, suspended, transfer, request, deleting>>

Reactivate(by, who) ==
  /\ MayAdminister(by) /\ who \in suspended
  /\ suspended' = suspended \ {who}
  /\ UNCHANGED <<people, owner, role, transfer, request, deleting>>

\* Not for the owner of a workspace with more than one active member; and one
\* request per user for ever, for its userId is unique.
RequestAccountDeletion(u) ==
  /\ u \in account /\ leaving[u] = "no"
  /\ Cardinality({v \in Users : leaving[v] # "no"}) < MaxLeavers
  /\ owner = u => Cardinality({v \in Users : Active(v)}) <= 1
  /\ leaving' = [leaving EXCEPT ![u] = "asked"]
  /\ UNCHANGED <<account, owner, role, suspended, transfer, request, deleting>>

CancelAccountDeletion(u) ==
  /\ u \in account /\ leaving[u] \in {"asked", "due"}
  /\ leaving' = [leaving EXCEPT ![u] = "withdrawn"]
  /\ UNCHANGED <<account, owner, role, suspended, transfer, request, deleting>>

-----------------------------------------------------------------------------
(* The clock and the crons.                                                *)

\* 48 hours pass over a transfer, 30 days over a deletion request: no request
\* takes that long.
TransferLapses(t) ==
  /\ transfer[t].status = "PENDING" /\ ~transfer[t].late
  /\ transfer' = [transfer EXCEPT ![t].late = TRUE]
  /\ UNCHANGED <<people, owner, role, suspended, request, deleting>>

AccountComesDue(u) ==
  /\ leaving[u] = "asked" /\ \A r \in Requests : request[r] = NoRequest
  /\ leaving' = [leaving EXCEPT ![u] = "due"]
  /\ UNCHANGED <<account, owner, role, suspended, transfer, request, deleting>>

\* workspace-transfer-expiry: one updateMany.
ExpireTransfers ==
  /\ \E t \in Transfers : transfer[t].status = "PENDING" /\ transfer[t].late
  /\ transfer' = [t \in Transfers |-> IF transfer[t].status = "PENDING" /\ transfer[t].late
                                      THEN Settled("EXPIRED")
                                      ELSE transfer[t]]
  /\ UNCHANGED <<people, owner, role, suspended, request, deleting>>

\* account-deletion reads every due request once, and asks no more whether one
\* was withdrawn.
SweepReads ==
  /\ sweep = {}
  /\ \E u \in account : leaving[u] = "due"
  /\ sweep' = {u \in account : leaving[u] = "due"}
  /\ UNCHANGED <<people, owner, role, suspended, transfer, request, departure>>

\* One account's transaction is READ COMMITTED: it reads what the user owns, then
\* who inherits it, and neither read locks a row.  Its writes are one step: the
\* workspace's row and the user's, which an acceptance and an invite need too,
\* keep those before it or after it.
DepartureBegins(u) ==
  /\ departure = NoDeparture /\ u \in sweep
  /\ departure' = [at |-> IF owner = u THEN "owned" ELSE "read",
                   user |-> u, owned |-> owner = u, heir |-> Gone]
  /\ UNCHANGED <<people, owner, role, suspended, transfer, request, sweep>>

\* The longest-tenured active member inherits; which one that is, is left open.
Heirs(u) == {v \in Users \ {u} : Active(v)}

DepartureFindsHeir ==
  /\ departure.at = "owned"
  /\ LET found == Heirs(departure.user) IN
       \E heir \in IF found = {} THEN {Gone} ELSE found :
         departure' = [departure EXCEPT !.at = "read", !.heir = heir]
  /\ UNCHANGED <<people, owner, role, suspended, transfer, request, sweep>>

\* (mutant) The account goes and its workspace is forgotten.
DepartureWritesAccount ==
  /\ departure.at = "read"
  /\ account' = account \ {departure.user}
  /\ sweep' = sweep \ {departure.user}
  /\ departure' = NoDeparture
  /\ UNCHANGED <<leaving, owner, role, suspended, transfer, request>>

\* The heir's row is written by its id: the transaction fails when it is gone.
DepartureWrites ==
  /\ departure.at = "read"
  /\ LET u == departure.user
         heir == departure.heir IN
     /\ heir # Gone => role[heir] # "none"
     /\ owner' = IF departure.owned THEN heir ELSE owner
     /\ role' = [v \in Users |-> CASE v = u \/ owner' = Gone -> "none"
                                   [] v = heir -> "OWNER"
                                   [] OTHER -> role[v]]
     /\ suspended' = IF owner' = Gone THEN {} ELSE suspended \ {u}
     /\ account' = account \ {u}
     /\ sweep' = sweep \ {u}
  /\ departure' = NoDeparture
  /\ UNCHANGED <<leaving, transfer, request>>

\* A transaction that fails ends the run: the rest is for the next one.
SweepStops ==
  /\ sweep # {}
  /\ sweep' = {}
  /\ departure' = NoDeparture
  /\ UNCHANGED <<people, owner, role, suspended, transfer, request>>

-----------------------------------------------------------------------------
Check(r) ==
  \E by \in Users :
    \/ \E to \in Users : CheckInitiate(r, by, to)
    \/ \E t \in Transfers : CheckAccept(r, by, t)
    \/ CheckCancel(r, by)
    \/ \E who \in Users :
         \/ \E to \in {"ADMIN", "EDITOR"} : CheckChangeRole(r, by, who, to)
         \/ CheckRevoke(r, by, who) \/ CheckDelete(r, by, who)

Write(r) ==
  \/ \E t \in Transfers : WriteInitiate(r, t)
  \/ WriteAccept(r) \/ WriteCancel(r) \/ WriteChangeRole(r) \/ WriteRevoke(r)
  \/ WriteDelete(r)

\* A request is killed, or its write fails, before it writes.
Fails(r) ==
  /\ request[r] # NoRequest
  /\ Ends(r)
  /\ UNCHANGED <<people, owner, role, suspended, transfer, deleting>>

Next ==
  \/ \E r \in Requests : Check(r) \/ Write(r) \/ Fails(r)
  \/ \E u \in Users :
       \/ Join(u) \/ RequestAccountDeletion(u) \/ CancelAccountDeletion(u) \/ AccountComesDue(u) \/ DepartureBegins(u)
       \/ \E by \in Users : Reactivate(by, u)
  \/ \E t \in Transfers : TransferLapses(t)
  \/ ExpireTransfers \/ SweepReads \/ DepartureFindsHeir \/ DepartureWrites \/ SweepStops

Spec == Init /\ [][Next]_vars
=============================================================================
