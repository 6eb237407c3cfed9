---------------------------- MODULE StripeBilling ----------------------------
(***************************************************************************)
(* The plan of one workspace, kept in step with Stripe.                    *)
(*                                                                         *)
(* Stripe owns the subscriptions and tells of every change by an event; it *)
(* delivers an event until the webhook route answers 2xx, in any order,    *)
(* more than once, and possibly to two instances at a time.  The route     *)
(* (webhooks/stripe/route.ts) inserts the event's id before it handles it  *)
(* (the claim), answers a duplicate at once, and deletes the claim when    *)
(* the handler throws.  The handlers (stripe-webhook.service.ts) keep the  *)
(* workspace's Subscription row and Workspace.plan; besides them the       *)
(* cancel and reactivate requests (billing.service.ts) and the downgrade   *)
(* cron (billing-downgrade/route.ts) write the same row.                   *)
(*                                                                         *)
(* One action is one statement on the database or one call of Stripe.      *)
(***************************************************************************)
EXTENDS Naturals, Sequences, FiniteSets

CONSTANTS
  Subs,       \* the Stripe subscriptions this workspace may come to have
  Handlers,   \* the instances of the webhook route
  Paid,       \* the paid plans
  NoRow,      \* the workspace has no Subscription row
  MaxEvents,  \* bound: events Stripe emits
  MaxFaults   \* bound: statements that fail, instances that are killed

ASSUME PaidAssumption == "FREE" \notin Paid
ASSUME BoundsAssumption == MaxEvents \in Nat /\ MaxFaults \in Nat

VARIABLES
  stripe,     \* Stripe's own record of every subscription
  replayed,   \* the idempotency keys Stripe has an answer for
  events,     \* the events emitted so far, in order
  settled,    \* the events answered 2xx: never delivered again
  claimed,    \* processedWebhookEvent
  row,        \* the workspace's Subscription row
  plan,       \* Workspace.plan, what every entitlement gate reads
  over,       \* more sites are published than FREE allows
  invoices,   \* the events an Invoice row was written for
  hook,       \* per instance: where it is, its event, the plan it read
  mirror,     \* the cancel or reactivate request
  cron,       \* the downgrade sweep
  faults,     \* faults so far
  written,    \* history: the events whose write, or decision to write nothing, was made
  done,       \* history: the events whose handler returned
  cause       \* history: why the row may differ from Stripe's record

database == <<claimed, row, plan, over, invoices>>
vars == <<stripe, replayed, events, settled, database, hook, mirror, cron, faults, written, done, cause>>

-----------------------------------------------------------------------------
Plans == Paid \union {"FREE"}
Snapshot == [status : {"none", "session", "active", "past_due", "canceled"},
             plan : Plans, cancel : BOOLEAN]
Kinds == {"checkout", "updated", "payment_failed", "deleted", "paid"}
Event == [kind : Kinds, sub : Subs, at : Snapshot]
Row == [sub : Subs, status : {"ACTIVE", "PAST_DUE", "CANCELLED"}, plan : Plans, cancel : BOOLEAN]
ASSUME RowAssumption == NoRow \notin Row

\* STRIPE_STATUS_MAP.  Stripe's other statuses, which are stored in upper case, do not
\* occur here.
Local(status) ==
  CASE status = "active" -> "ACTIVE"
    [] status = "past_due" -> "PAST_DUE"
    [] status = "canceled" -> "CANCELLED"

Hook == [pc : {"idle", "claimed", "found", "notify", "reconcile", "unpublish", "threw"},
         ev : 0..MaxEvents, plan : Plans]
IdleHook == [pc |-> "idle", ev |-> 0, plan |-> "FREE"]

Mirror == [pc : {"idle", "read", "called"}, sub : Subs \union {NoRow}, want : BOOLEAN, late : BOOLEAN]
IdleMirror == [pc |-> "idle", sub |-> NoRow, want |-> FALSE, late |-> FALSE]

Emitted == 1..Len(events)
EventOf(h) == events[hook[h].ev]

\* findUnique by stripeSubscriptionId finds the workspace's row.
RowIs(s) == row # NoRow /\ row.sub = s

Init ==
  /\ stripe = [s \in Subs |-> [status |-> "none", plan |-> "FREE", cancel |-> FALSE]]
  /\ replayed = {}
  /\ events = <<>>
  /\ settled = {}
  /\ claimed = {}
  /\ row = NoRow
  /\ plan = "FREE"
  /\ over = FALSE
  /\ invoices = {}
  /\ hook = [h \in Handlers |-> IdleHook]
  /\ mirror = IdleMirror
  /\ cron = "idle"
  /\ faults = 0
  /\ written = {}
  /\ done = {}
  /\ cause = {}

-----------------------------------------------------------------------------
(* Stripe and its customer.                                                *)

\* Stripe changes its record and emits the events of the change.
Becomes(s, at, kinds) ==
  /\ Len(events) + Len(kinds) <= MaxEvents
  /\ stripe' = [stripe EXCEPT ![s] = at]
  /\ events' = events \o [i \in 1..Len(kinds) |-> [kind |-> kinds[i], sub |-> s, at |-> at]]
  /\ mirror' = IF mirror.pc = "called" /\ mirror.sub = s /\ at.cancel # stripe[s].cancel
               THEN [mirror EXCEPT !.late = TRUE] ELSE mirror
  /\ UNCHANGED <<replayed, settled, database, hook, cron, faults, written, done, cause>>

\* createCheckoutSession refuses while a row that is not CANCELLED exists.
\* The session stays payable whatever happens to the row meanwhile.
OpenSession(s, p) ==
  /\ row # NoRow => row.status = "CANCELLED"
  /\ stripe[s].status = "none"
  /\ stripe' = [stripe EXCEPT ![s] = [status |-> "session", plan |-> p, cancel |-> FALSE]]
  /\ UNCHANGED <<replayed, events, settled, database, hook, mirror, cron, faults, written, done, cause>>

PaySession(s) ==
  /\ stripe[s].status = "session"
  /\ Becomes(s, [stripe[s] EXCEPT !.status = "active"], <<"checkout">>)

PortalPlan(s, p) ==
  /\ stripe[s].status = "active" /\ stripe[s].plan # p
  /\ Becomes(s, [stripe[s] EXCEPT !.plan = p], <<"updated">>)

PortalCancel(s) ==
  /\ stripe[s].status = "active"
  /\ Becomes(s, [stripe[s] EXCEPT !.cancel = ~@], <<"updated">>)

PaymentFails(s) ==
  /\ stripe[s].status = "active"
  /\ Becomes(s, [stripe[s] EXCEPT !.status = "past_due"], <<"payment_failed", "updated">>)

\* A renewal, or the retried payment of a subscription that is past due.
PaymentSucceeds(s) ==
  /\ stripe[s].status \in {"active", "past_due"}
  /\ Becomes(s, [stripe[s] EXCEPT !.status = "active"],
             IF stripe[s].status = "active" THEN <<"paid">> ELSE <<"paid", "updated">>)

\* The period ends on a cancelling subscription, Stripe gives up on the card, or
\* somebody ends it at once in Stripe's dashboard.
SubscriptionEnds(s) ==
  /\ stripe[s].status \in {"active", "past_due"}
  /\ Becomes(s, [stripe[s] EXCEPT !.status = "canceled"], <<"deleted">>)

-----------------------------------------------------------------------------
(* The webhook route.                                                      *)

Goto(h, pc) == hook' = [hook EXCEPT ![h].pc = pc]
NowIdle(h) == hook' = [hook EXCEPT ![h] = IdleHook]

\* A later event of the same subscription, told of another state, was written before.
Overtaken(i) ==
  \E j \in written : j > i /\ events[j].sub = events[i].sub /\ events[j].at # events[i].at

\* The event's write, and what is known of the row from now on.
Written(h, causes) ==
  /\ written' = written \union {hook[h].ev}
  /\ cause' = causes \union (IF Overtaken(hook[h].ev) THEN {"overtaken"} ELSE {})

\* The handler returns and the route answers 200.
Answer(h) ==
  /\ NowIdle(h)
  /\ settled' = settled \union {hook[h].ev}
  /\ done' = done \union {hook[h].ev}

\* (mutant) The claim is an upsert: a copy is handled beside the first.
DeliverUpsert(h, i) ==
  /\ hook[h].pc = "idle"
  /\ i \in Emitted \ settled
  /\ claimed' = claimed \union {i}
  /\ hook' = [hook EXCEPT ![h] = [pc |-> "claimed", ev |-> i, plan |-> "FREE"]]
  /\ UNCHANGED <<stripe, replayed, events, settled, row, plan, over, invoices, mirror, cron,
                 faults, written, done, cause>>

\* The claim: an insert on the unique eventId; a duplicate is answered 200.
Deliver(h, i) ==
  /\ hook[h].pc = "idle"
  /\ i \in Emitted \ settled
  /\ IF i \in claimed
     THEN /\ settled' = settled \union {i}
          /\ UNCHANGED <<claimed, hook>>
     ELSE /\ claimed' = claimed \union {i}
          /\ hook' = [hook EXCEPT ![h] = [pc |-> "claimed", ev |-> i, plan |-> "FREE"]]
          /\ UNCHANGED settled
  /\ UNCHANGED <<stripe, replayed, events, row, plan, over, invoices, mirror, cron, faults, written, done, cause>>

\* handleCheckoutCompleted asks Stripe for the subscription as it is now.
Retrieve(h) ==
  /\ hook[h].pc = "claimed" /\ EventOf(h).kind = "checkout"
  /\ hook' = [hook EXCEPT ![h].pc = "found", ![h].plan = stripe[EventOf(h).sub].plan]
  /\ UNCHANGED <<stripe, replayed, events, settled, database, mirror, cron, faults, written, done, cause>>

\* The other handlers look for the row of the event's subscription.
FindRow(h) ==
  /\ hook[h].pc = "claimed" /\ EventOf(h).kind # "checkout"
  /\ RowIs(EventOf(h).sub)
  /\ Goto(h, "found")
  /\ UNCHANGED <<stripe, replayed, events, settled, database, mirror, cron, faults, written, done, cause>>

\* (mutant) No row: an update is let pass as the end of a subscription is.
RowMissingPasses(h) ==
  /\ hook[h].pc = "claimed" /\ EventOf(h).kind \in {"updated", "paid"}
  /\ ~RowIs(EventOf(h).sub)
  /\ Answer(h)
  /\ UNCHANGED <<stripe, replayed, events, database, mirror, cron, faults, written, cause>>

\* No row: an update or an invoice throws, so that Stripe tries again ...
RowMissing(h) ==
  /\ hook[h].pc = "claimed" /\ EventOf(h).kind \in {"updated", "paid"}
  /\ ~RowIs(EventOf(h).sub)
  /\ Goto(h, "threw")
  /\ UNCHANGED <<stripe, replayed, events, settled, database, mirror, cron, faults, written, done, cause>>

\* ... and the end of a subscription or a failed payment is let pass.
Ignore(h) ==
  /\ hook[h].pc = "claimed" /\ EventOf(h).kind \in {"deleted", "payment_failed"}
  /\ ~RowIs(EventOf(h).sub)
  /\ Answer(h)
  /\ Written(h, cause)
  /\ UNCHANGED <<stripe, replayed, events, database, mirror, cron, faults>>

\* handleCheckoutCompleted: the upsert on workspaceId, and Workspace.plan.
WriteCheckout(h) ==
  /\ hook[h].pc = "found" /\ EventOf(h).kind = "checkout"
  /\ row' = [sub |-> EventOf(h).sub, status |-> "ACTIVE", plan |-> hook[h].plan, cancel |-> FALSE]
  /\ plan' = hook[h].plan
  /\ Answer(h)
  /\ Written(h, cause \ {"downgraded"})
  /\ UNCHANGED <<stripe, replayed, events, claimed, over, invoices, mirror, cron, faults>>

\* handleSubscriptionUpdated: the row and Workspace.plan in one transaction.
WriteUpdated(h) ==
  /\ hook[h].pc = "found" /\ EventOf(h).kind = "updated" /\ RowIs(EventOf(h).sub)
  /\ row' = [row EXCEPT !.status = Local(EventOf(h).at.status),
                        !.plan = EventOf(h).at.plan, !.cancel = EventOf(h).at.cancel]
  /\ plan' = EventOf(h).at.plan
  /\ Answer(h)
  /\ Written(h, cause \ {"downgraded"})
  /\ UNCHANGED <<stripe, replayed, events, claimed, over, invoices, mirror, cron, faults>>

\* handleInvoicePaymentFailed: PAST_DUE, then the owner is notified.
WritePaymentFailed(h) ==
  /\ hook[h].pc = "found" /\ EventOf(h).kind = "payment_failed" /\ RowIs(EventOf(h).sub)
  /\ row' = [row EXCEPT !.status = "PAST_DUE"]
  /\ Goto(h, "notify")
  /\ Written(h, cause)
  /\ UNCHANGED <<stripe, replayed, events, settled, claimed, plan, over, invoices, mirror, cron, faults, done>>

NotifyOwner(h) ==
  /\ hook[h].pc = "notify"
  /\ Answer(h)
  /\ UNCHANGED <<stripe, replayed, events, database, mirror, cron, faults, written, cause>>

\* (mutant) The row is cancelled and Workspace.plan forgotten.
WriteDeletedRowOnly(h) ==
  /\ hook[h].pc = "found" /\ EventOf(h).kind = "deleted" /\ RowIs(EventOf(h).sub)
  /\ row' = [row EXCEPT !.status = "CANCELLED"]
  /\ Goto(h, "reconcile")
  /\ Written(h, cause)
  /\ UNCHANGED <<stripe, replayed, events, settled, claimed, plan, over, invoices, mirror, cron,
                 faults, done>>

\* (mutant) The sites are left as they are.
WriteDeletedOnly(h) ==
  /\ hook[h].pc = "found" /\ EventOf(h).kind = "deleted" /\ RowIs(EventOf(h).sub)
  /\ row' = [row EXCEPT !.status = "CANCELLED"]
  /\ plan' = "FREE"
  /\ Answer(h)
  /\ Written(h, cause)
  /\ UNCHANGED <<stripe, replayed, events, claimed, over, invoices, mirror, cron, faults>>

\* handleSubscriptionDeleted: CANCELLED and FREE in one transaction, then the sites.
WriteDeleted(h) ==
  /\ hook[h].pc = "found" /\ EventOf(h).kind = "deleted" /\ RowIs(EventOf(h).sub)
  /\ row' = [row EXCEPT !.status = "CANCELLED"]
  /\ plan' = "FREE"
  /\ Goto(h, "reconcile")
  /\ Written(h, cause)
  /\ UNCHANGED <<stripe, replayed, events, settled, claimed, over, invoices, mirror, cron, faults, done>>

\* The row was given to another subscription after it was read: P2025.
RowTaken(h) ==
  /\ hook[h].pc = "found" /\ EventOf(h).kind \in {"updated", "payment_failed", "deleted"}
  /\ ~RowIs(EventOf(h).sub)
  /\ Goto(h, "threw")
  /\ UNCHANGED <<stripe, replayed, events, settled, database, mirror, cron, faults, written, done, cause>>

\* handleInvoicePaid: an upsert on the invoice's id.
WriteInvoice(h) ==
  /\ hook[h].pc = "found" /\ EventOf(h).kind = "paid"
  /\ invoices' = invoices \union {hook[h].ev}
  /\ Answer(h)
  /\ UNCHANGED <<stripe, replayed, events, claimed, row, plan, over, mirror, cron, faults, written, cause>>

\* reconcileWorkspaceToFreePlan: find, then unpublish what was found, and only that.
Left == IF "republished" \in cause THEN BOOLEAN ELSE {FALSE}

FindExcess(h) ==
  /\ hook[h].pc = "reconcile" /\ over
  /\ Goto(h, "unpublish")
  /\ UNCHANGED <<stripe, replayed, events, settled, database, mirror, cron, faults, written, done, cause>>

NoExcess(h) ==
  /\ hook[h].pc = "reconcile" /\ ~over
  /\ Answer(h)
  /\ UNCHANGED <<stripe, replayed, events, database, mirror, cron, faults, written, cause>>

Unpublish(h) ==
  /\ hook[h].pc = "unpublish"
  /\ over' \in Left
  /\ Answer(h)
  /\ UNCHANGED <<stripe, replayed, events, claimed, row, plan, invoices, mirror, cron, faults, written, cause>>

\* (mutant) The claim is deleted and the answer is a 200 all the same.
ReleaseQuietly(h) ==
  /\ hook[h].pc = "threw"
  /\ claimed' = claimed \ {hook[h].ev}
  /\ settled' = settled \union {hook[h].ev}
  /\ NowIdle(h)
  /\ UNCHANGED <<stripe, replayed, events, row, plan, over, invoices, mirror, cron, faults,
                 written, done, cause>>

\* The handler threw: the claim is deleted and the answer is a 500.  A copy of
\* the event may have been answered as a duplicate meanwhile.
Release(h) ==
  /\ hook[h].pc = "threw"
  /\ claimed' = claimed \ {hook[h].ev}
  /\ cause' = cause \union (IF hook[h].ev \in settled THEN {"stranded"} ELSE {})
  /\ NowIdle(h)
  /\ UNCHANGED <<stripe, replayed, events, settled, row, plan, over, invoices, mirror, cron, faults,
                 written, done>>

\* A statement of the handler fails.
HandlerFails(h) ==
  /\ hook[h].pc \in {"claimed", "found", "notify", "reconcile", "unpublish"}
  /\ faults < MaxFaults /\ faults' = faults + 1
  /\ Goto(h, "threw")
  /\ UNCHANGED <<stripe, replayed, events, settled, database, mirror, cron, written, done, cause>>

\* The instance is killed, or the delete of the claim fails: the claim stays.
ClaimStrands(h) ==
  /\ hook[h].pc # "idle"
  /\ faults < MaxFaults /\ faults' = faults + 1
  /\ NowIdle(h)
  /\ cause' = cause \union {"stranded"}
  /\ UNCHANGED <<stripe, replayed, events, settled, database, mirror, cron, written, done>>

-----------------------------------------------------------------------------
(* Cancel and reactivate: Stripe first, then its answer into the row.      *)

MirrorRead(want) ==
  /\ mirror.pc = "idle" /\ row # NoRow
  /\ mirror' = [pc |-> "read", sub |-> row.sub, want |-> want, late |-> FALSE]
  /\ UNCHANGED <<stripe, replayed, events, settled, database, hook, cron, faults, written, done, cause>>

\* A first call under its idempotency key: Stripe flips the flag and tells of it.
MirrorCall ==
  /\ mirror.pc = "read" /\ <<mirror.sub, mirror.want>> \notin replayed
  /\ LET s == mirror.sub
         at == [stripe[s] EXCEPT !.cancel = mirror.want] IN
       /\ stripe[s].status \in {"active", "past_due"}
       /\ Len(events) < MaxEvents
       /\ stripe' = [stripe EXCEPT ![s] = at]
       /\ events' = IF at = stripe[s] THEN events
                    ELSE Append(events, [kind |-> "updated", sub |-> s, at |-> at])
       /\ replayed' = replayed \union {<<s, mirror.want>>}
  /\ mirror' = [mirror EXCEPT !.pc = "called"]
  /\ UNCHANGED <<settled, database, hook, cron, faults, written, done, cause>>

\* The key `cancel:<subscription>:<flag>` was used before: Stripe answers what
\* it answered then, and changes nothing.
MirrorReplayed ==
  /\ mirror.pc = "read" /\ <<mirror.sub, mirror.want>> \in replayed
  /\ mirror' = [mirror EXCEPT !.pc = "called"]
  /\ cause' = cause \union (IF stripe[mirror.sub].cancel # mirror.want THEN {"replayed"} ELSE {})
  /\ UNCHANGED <<stripe, replayed, events, settled, database, hook, cron, faults, written, done>>

\* Stripe refuses, and nothing is written.
MirrorRefused ==
  /\ mirror.pc = "read" /\ stripe[mirror.sub].status = "canceled"
  /\ mirror' = IdleMirror
  /\ UNCHANGED <<stripe, replayed, events, settled, database, hook, cron, faults, written, done, cause>>

\* The row of the workspace, whichever subscription it is of by now.
MirrorWrite ==
  /\ mirror.pc = "called"
  /\ row' = [row EXCEPT !.cancel = mirror.want]
  /\ cause' = cause \union (IF mirror.late \/ row.sub # mirror.sub THEN {"late"} ELSE {})
  /\ mirror' = IdleMirror
  /\ UNCHANGED <<stripe, replayed, events, settled, claimed, plan, over, invoices, hook, cron,
                 faults, written, done>>

\* The write fails after Stripe agreed: the event is left to bring the row round.
MirrorWriteFails ==
  /\ mirror.pc = "called"
  /\ faults < MaxFaults /\ faults' = faults + 1
  /\ mirror' = IdleMirror
  /\ UNCHANGED <<stripe, replayed, events, settled, database, hook, cron, written, done, cause>>

-----------------------------------------------------------------------------
(* The downgrade cron, and the sites.                                      *)

\* PAST_DUE, still on a paid plan, and past the days of grace.
CronRead ==
  /\ cron = "idle"
  /\ row # NoRow /\ row.status = "PAST_DUE" /\ row.plan # "FREE"
  /\ cron' = "due"
  /\ UNCHANGED <<stripe, replayed, events, settled, database, hook, mirror, faults, written, done, cause>>

\* By the row's id, whatever the row says by now.
CronWrite ==
  /\ cron = "due"
  /\ row' = [row EXCEPT !.plan = "FREE", !.status = "CANCELLED"]
  /\ plan' = "FREE"
  /\ cron' = "reconcile"
  /\ cause' = cause \union {"downgraded"}
  /\ UNCHANGED <<stripe, replayed, events, settled, claimed, over, invoices, hook, mirror, faults,
                 written, done>>

CronFindExcess ==
  /\ cron = "reconcile"
  /\ cron' = IF over THEN "unpublish" ELSE "idle"
  /\ UNCHANGED <<stripe, replayed, events, settled, database, hook, mirror, faults, written, done, cause>>

CronUnpublish ==
  /\ cron = "unpublish"
  /\ over' \in Left
  /\ cron' = "idle"
  /\ UNCHANGED <<stripe, replayed, events, settled, claimed, row, plan, invoices, hook, mirror,
                 faults, written, done, cause>>

\* The run dies.  After its transaction no later run finds the row again.
CronDies ==
  /\ cron # "idle"
  /\ faults < MaxFaults /\ faults' = faults + 1
  /\ cron' = "idle"
  /\ cause' = cause \union (IF cron = "due" THEN {} ELSE {"unreconciled"})
  /\ UNCHANGED <<stripe, replayed, events, settled, database, hook, mirror, written, done>>

\* A member publishes one site more than FREE allows: startPublish has no cap.
PublishMore ==
  /\ over' = TRUE
  /\ cause' = cause \union
       (IF plan = "FREE" \/ cron = "unpublish" \/ \E h \in Handlers : hook[h].pc = "unpublish"
        THEN {"republished"} ELSE {})
  /\ UNCHANGED <<stripe, replayed, events, settled, claimed, row, plan, invoices, hook, mirror,
                 cron, faults, written, done>>

-----------------------------------------------------------------------------
Handle(h) ==
  \/ Retrieve(h) \/ FindRow(h) \/ RowMissing(h) \/ Ignore(h)
  \/ WriteCheckout(h) \/ WriteUpdated(h) \/ WritePaymentFailed(h) \/ NotifyOwner(h) \/ WriteDeleted(h)
  \/ RowTaken(h) \/ WriteInvoice(h)
  \/ FindExcess(h) \/ NoExcess(h) \/ Unpublish(h) \/ Release(h)

Fault(h) == HandlerFails(h) \/ ClaimStrands(h)

MirrorGoes == MirrorCall \/ MirrorReplayed \/ MirrorRefused \/ MirrorWrite
CronGoes == CronWrite \/ CronFindExcess \/ CronUnpublish

Customer ==
  \E s \in Subs :
    \/ \E p \in Paid : OpenSession(s, p) \/ PortalPlan(s, p)
    \/ PaySession(s) \/ PortalCancel(s)
    \/ PaymentFails(s) \/ PaymentSucceeds(s) \/ SubscriptionEnds(s)

Next ==
  \/ Customer
  \/ \E h \in Handlers :
       \/ \E i \in Emitted : Deliver(h, i)
       \/ Handle(h)
       \/ Fault(h)
  \/ \E want \in BOOLEAN : MirrorRead(want)
  \/ MirrorGoes
  \/ MirrorWriteFails
  \/ CronRead \/ CronGoes \/ CronDies
  \/ PublishMore

Spec == Init /\ [][Next]_vars

(* Stripe delivers an event it has no 2xx for again and again, an instance *)
(* that is not killed runs on, and so do a request and a run of the cron.  *)
(* Nobody is bound to buy, to cancel or to publish.                        *)
Fairness ==
  /\ \A i \in 1..MaxEvents : SF_vars(\E h \in Handlers : Deliver(h, i))
  /\ \A h \in Handlers : WF_vars(Handle(h))
  /\ WF_vars(MirrorGoes)
  /\ WF_vars(CronGoes)

FairSpec == Spec /\ Fairness
=============================================================================
