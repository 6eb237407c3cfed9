---------------------------- MODULE TeamProperties ----------------------------
(* What must be true of a workspace's owner and of its transfers.           *)
EXTENDS WorkspaceTeam

\* Every variable has its type.
TypeOK ==
  /\ account \in SUBSET Users
  /\ leaving \in [Users -> {"no", "asked", "due", "withdrawn"}]
  /\ owner \in Users \union {Gone}
  /\ role \in [Users -> Roles \union {"none"}]
  /\ suspended \in SUBSET Users
  /\ transfer \in [Transfers -> Transfer]
  /\ request \in [Requests -> Request]
  /\ sweep \in SUBSET Users
  /\ departure \in Departure

(* The workspace belongs to somebody who exists.                           *)
OwnerExists ==
  /\ owner # Gone => owner \in account
  /\ owner = Gone => Members = {}
  /\ Members \subseteq account

(* No order of transfers and account deletions leaves the workspace to an  *)
(* account that is gone, or members in a workspace that is, except one:    *)
(* the departing user accepts a transfer after the cron has read what they *)
(* own (account-deletion/route.ts:42-60, ownerId has no foreign key;       *)
(* workspace-transfer.service.ts:72-97).                                   *)
DepartsUnread ==
  /\ departure.at = "read" /\ ~departure.owned
  /\ owner = departure.user /\ owner \notin account'
OwnerIsKept == [][OwnerExists => OwnerExists' \/ DepartsUnread]_vars

(* Only a solo workspace is deleted with its owner's account; its members  *)
(* inherit any other (account-deletion/route.ts:38-41, the comment).       *)
OnlySoloDeleted == [][owner # Gone /\ owner' = Gone => Heirs(owner) = {}]_vars

(* The owner is in charge, and nobody else is: exactly one member row says *)
(* OWNER, it is the owner's, and it is active.                             *)
InCharge ==
  owner # Gone =>
    /\ {u \in Users : role[u] = "OWNER"} = {owner}
    /\ owner \notin suspended

(* No step ends that, except the writes that overlook what became of their *)
(* check, and those have a name: an owner accepts their own transfer, a    *)
(* suspended member accepts one, one is accepted from somebody who is not  *)
(* the owner any more, a role change, a suspension or a removal finds its  *)
(* member become the owner, or an account is deleted after the workspace   *)
(* has changed hands or the heir it found has been suspended               *)
(* (workspace-transfer.service.ts:72-97, team.service.ts:187-246,          *)
(* account-deletion/route.ts:42-60).                                       *)
Overlooks(r) ==
  /\ request[r] # NoRequest /\ request'[r] = NoRequest
  /\ \/ /\ request[r].op = "accept"
        /\ \/ request[r].who \in {request[r].by} \union (Users \ {owner})
           \/ request[r].by \in suspended
     \/ /\ request[r].op \in {"changeRole", "revoke", "delete"}
        /\ request[r].who = owner
DepartsOnStaleReads ==
  /\ departure.at = "read" /\ departure.user \notin account'
  /\ \/ departure.owned # (owner = departure.user)
     \/ departure.heir \in suspended
OwnerStaysInCharge ==
  [][InCharge => InCharge' \/ DepartsOnStaleReads \/ \E r \in Requests : Overlooks(r)]_vars

(* A transfer that was completed, cancelled or expired stays so, unless an *)
(* acceptance had read it PENDING before (workspace-transfer.service.ts:   *)
(* 57-58, 93-96, workspace-transfer-expiry/route.ts:12-15).                *)
SettledTransferStays ==
  [][\A t \in Transfers : transfer[t].status \notin {"none", "PENDING"} =>
       \/ transfer'[t] = transfer[t]
       \/ \E r \in Requests : /\ request[r].op = "accept" /\ request[r].transfer = t
                             /\ transfer'[t].status = "COMPLETED"]_vars
=============================================================================
