-------------------------- MODULE BillingProperties --------------------------
(* What must be true of a workspace's plan.                                *)
EXTENDS StripeBilling

\* Every variable has its type.
TypeOK ==
  /\ stripe \in [Subs -> Snapshot]
  /\ replayed \in SUBSET (Subs \X BOOLEAN)
  /\ events \in Seq(Event) /\ Len(events) <= MaxEvents
  /\ settled \in SUBSET Emitted
  /\ claimed \in SUBSET Emitted
  /\ row \in Row \union {NoRow}
  /\ plan \in Plans
  /\ over \in BOOLEAN
  /\ invoices \in SUBSET Emitted
  /\ hook \in [Handlers -> Hook]
  /\ \A h \in Handlers : hook[h].pc # "idle" => hook[h].ev \in Emitted
  /\ mirror \in Mirror
  /\ mirror.pc # "idle" => row # NoRow
  /\ cron \in {"idle", "due", "reconcile", "unpublish"}
  /\ cron # "idle" => row # NoRow
  /\ faults \in 0..MaxFaults
  /\ written \in SUBSET Emitted
  /\ done \in SUBSET Emitted
  /\ cause \in SUBSET {"overtaken", "stranded", "replayed", "late", "downgraded", "unreconciled",
                       "republished"}

(* A paid entitlement has a subscription row behind it, on that very plan, *)
(* that has not been cancelled: no order of events, no overlap of webhook, *)
(* cron and request, and no crash leaves a workspace on a paid plan whose  *)
(* row was cancelled or says another plan (stripe-webhook.service.ts:118,  *)
(* 188, 228 and the cron's transaction).                                   *)
EntitlementIsBacked ==
  plan \in Paid => row # NoRow /\ row.plan = plan /\ row.status # "CANCELLED"

(* The claim makes an event's handler return once: no two instances work   *)
(* on the same event, and none works on an event whose handler returned.   *)
(* A redelivery repeats a PAST_DUE or a notification only of a handler     *)
(* that threw, whose claim was released (route.ts:67-82).                  *)
Working(h) == hook[h].pc # "idle"
HandledOnce ==
  /\ \A h \in Handlers : Working(h) => hook[h].ev \in claimed /\ hook[h].ev \notin done
  /\ \A g, h \in Handlers : Working(g) /\ Working(h) /\ hook[g].ev = hook[h].ev => g = h

(* An event answered 2xx has been handled, is being handled by the         *)
(* instance that has the claim, or was stranded: its instance was killed,  *)
(* or a duplicate was answered while a handler that later threw still had  *)
(* the claim (route.ts:79, 110-119).                                       *)
SettledIsHandled ==
  "stranded" \notin cause =>
    \A i \in settled : i \in done \/ \E h \in Handlers : Working(h) /\ hook[h].ev = i

(* When Stripe has nothing left to deliver and no request or sweep runs,   *)
(* the row and the plan say what Stripe says of the row's subscription --  *)
(* unless one of the known causes is to blame: an event overtook an older  *)
(* one of the same subscription, a claim was stranded, the cron downgraded *)
(* a row Stripe has not ended, or a cancel request was answered from its   *)
(* idempotency key or written late.                                        *)
Quiet ==
  /\ settled = Emitted
  /\ \A h \in Handlers : hook[h].pc = "idle"
  /\ mirror.pc = "idle" /\ cron = "idle"
FollowsStripe(s) ==
  /\ row.status = Local(stripe[s].status)
  /\ IF stripe[s].status = "canceled"
     THEN plan = "FREE"
     ELSE plan = stripe[s].plan /\ row.plan = plan /\ row.cancel = stripe[s].cancel
RowFollowsStripe ==
  Quiet /\ cause \subseteq {"republished", "unreconciled"} =>
    IF row = NoRow
    THEN plan = "FREE" /\ \A s \in Subs : stripe[s].status \in {"none", "session"}
    ELSE FollowsStripe(row.sub)

(* A workspace that fell to FREE keeps within the sites FREE allows, or is *)
(* about to: some instance, the cron or an event still to be delivered     *)
(* will reconcile it.  Only a run that died in between, or a member who    *)
(* published again, leaves it over (billing-downgrade/route.ts:42-56).     *)
WillReconcile ==
  \/ cron \in {"reconcile", "unpublish"}
  \/ \E h \in Handlers : hook[h].pc \in {"reconcile", "unpublish"}
  \/ \E i \in Emitted \ done : events[i].kind = "deleted"
FreeIsWithinCap ==
  plan = "FREE" /\ over => WillReconcile \/ cause \intersect {"stranded", "unreconciled", "republished"} # {}

(* Every event Stripe emits is settled some day, although one handler at a *)
(* time may throw, be killed or lose its claim: only an update or an       *)
(* invoice of a subscription the row is not of is retried for ever         *)
(* (stripe-webhook.service.ts:160-168).                                    *)
Orphan(i) ==
  i \in Emitted /\ events[i].kind \in {"updated", "paid"} /\ ~RowIs(events[i].sub)
EventsSettle ==
  \A i \in 1..MaxEvents : <>[]~Orphan(i) => [](i \in Emitted => <>(i \in settled))

-----------------------------------------------------------------------------
(* Why the row follows Stripe: what is true between two steps (inductive). *)

\* The events about a subscription, and the last of them.
Tells(i, s, kinds) == events[i].sub = s /\ events[i].kind \in kinds
Newest(i, kinds) == \A j \in Emitted : Tells(j, events[i].sub, kinds) => j <= i
RowKinds == Kinds \ {"paid"}

\* Stripe tells of every change, of a subscription's checkout first: the last event
\* that changes the row tells what Stripe has, and the last update its plan and
\* whether it is cancelling.
EventsTell ==
  /\ \A i \in Emitted : LET e == events[i] IN
       /\ stripe[e.sub].status \notin {"none", "session"}
       /\ e.kind = "checkout" => e.at.status = "active"
       /\ e.kind = "payment_failed" => e.at.status = "past_due"
       /\ e.kind = "deleted" => e.at.status = "canceled" /\ stripe[e.sub].status = "canceled"
       /\ e.kind = "updated" /\ Newest(i, {"updated"}) =>
            e.at.plan = stripe[e.sub].plan /\ e.at.cancel = stripe[e.sub].cancel
       /\ e.kind \in RowKinds /\ Newest(i, RowKinds) => e.at = stripe[e.sub]
       /\ e.kind = "checkout" => \A j \in Emitted : events[j].sub = e.sub => i <= j
  /\ \A s \in Subs :
       /\ stripe[s].status \notin {"none", "session"} => \E i \in Emitted : Tells(i, s, {"checkout"})
       /\ stripe[s].cancel => \E i \in Emitted : Tells(i, s, {"updated"})

\* What was done was written, a checkout once and before the updates; and a handler
\* that read the plan of a checkout read it before any update, or has one to come.
HandlersTell ==
  /\ \A h \in Handlers :
       /\ hook[h].pc \in {"notify", "reconcile", "unpublish"} => hook[h].ev \in written
       /\ hook[h].pc = "found" /\ EventOf(h).kind = "checkout" =>
            \/ hook[h].plan = stripe[EventOf(h).sub].plan
            \/ \E i \in Emitted : Tells(i, EventOf(h).sub, {"updated"})
  /\ \A i \in done : events[i].kind \in RowKinds => i \in written
  /\ \A i \in written :
       /\ events[i].kind = "checkout" => i \in done /\ row # NoRow
       /\ events[i].kind = "updated" => \E c \in written : Tells(c, events[i].sub, {"checkout"})
  /\ row # NoRow => \E c \in written : Tells(c, row.sub, {"checkout"})

\* What the request is about to write is what Stripe has.
MirrorTells ==
  mirror.pc = "called" /\ ~mirror.late /\ "replayed" \notin cause =>
    stripe[mirror.sub].cancel = mirror.want

\* The last event of these kinds is still to be written.
Untold(s, kinds) == \E i \in Emitted \ written : Tells(i, s, kinds) /\ Newest(i, kinds)

\* The row says what Stripe says, or the event that will make it so is still to come.
RowTells ==
  row # NoRow /\ cause \intersect {"overtaken", "replayed", "late"} = {} =>
    /\ row.cancel = stripe[row.sub].cancel \/ Untold(row.sub, {"updated"})
    /\ "downgraded" \notin cause =>
         /\ row.plan = stripe[row.sub].plan \/ Untold(row.sub, {"updated"})
         /\ row.status = Local(stripe[row.sub].status) \/ Untold(row.sub, RowKinds)
         /\ plan = row.plan \/ \E i \in written : Tells(i, row.sub, {"deleted"})

TellsAll == EventsTell /\ HandlersTell /\ MirrorTells /\ RowTells
=============================================================================
