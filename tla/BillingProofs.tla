---------------------------- MODULE BillingProofs ----------------------------
(* What holds of a workspace's plan for any number of subscriptions, webhook *)
(* instances, events and faults.                                             *)
EXTENDS BillingProperties, SequenceTheorems, WellFoundedInduction, TLAPS

-----------------------------------------------------------------------------
(* The invariant behind the types.                                         *)

\* A subscription that somebody asked for is of a paid plan.
StripeFits == \A s \in Subs : stripe[s].status # "none" => stripe[s].plan \in Paid

\* So is what every event tells, and an update tells of a subscription that runs.
EventFits(e) ==
  /\ e.at.plan \in Paid
  /\ e.kind = "updated" => e.at.status \in {"active", "past_due"}
EventsFit ==
  \A i \in Emitted : EventFits(events[i]) /\ stripe[events[i].sub].status # "none"

\* What an instance has read of a checkout is a paid plan; sites are taken down
\* for the end of a subscription only, and owners told of failed payments only.
HookFits(h) ==
  /\ hook[h].pc = "found" /\ EventOf(h).kind = "checkout" => hook[h].plan \in Paid
  /\ hook[h].pc \in {"reconcile", "unpublish"} => EventOf(h).kind = "deleted"
  /\ hook[h].pc = "notify" => EventOf(h).kind = "payment_failed"
HooksFit == \A h \in Handlers : HookFits(h)

\* An event whose handler returned was answered 2xx.
DoneFits == done \subseteq settled

\* A request that is under way is about a subscription.
MirrorFits == mirror.pc # "idle" => mirror.sub \in Subs

\* The inductive invariant of the types.
Typed == TypeOK /\ StripeFits /\ EventsFit /\ HooksFit /\ DoneFits /\ MirrorFits

\* The event an instance works on.
LEMMA WorkedOn ==
  ASSUME Typed, NEW h \in Handlers, hook[h].pc # "idle"
  PROVE  /\ hook[h] \in Hook /\ hook[h].ev \in Emitted
         /\ EventOf(h) \in Event /\ EventFits(EventOf(h))
         /\ stripe[EventOf(h).sub].status # "none"
  <1>1. hook[h] \in Hook /\ hook[h].ev \in Emitted
    BY DEF Typed, TypeOK
  <1>2. EventOf(h) \in Event
    BY <1>1, ElementOfSeq DEF Typed, TypeOK, EventOf, Emitted
  <1> QED BY <1>1, <1>2 DEF Typed, EventsFit, EventOf

\* STRIPE_STATUS_MAP gives the row a status.
LEMMA LocalTyped ==
  /\ \A x \in {"active", "past_due", "canceled"} : Local(x) \in {"ACTIVE", "PAST_DUE", "CANCELLED"}
  /\ \A x \in {"active", "past_due"} : Local(x) # "CANCELLED"
  BY DEF Local

-----------------------------------------------------------------------------
(* Stripe emits events.                                                    *)

\* Events are only added, and what is added fits.
Grows ==
  /\ events' \in Seq(Event) /\ Len(events') <= MaxEvents
  /\ Emitted \subseteq Emitted'
  /\ \A i \in Emitted : events'[i] = events[i]
  /\ \A i \in Emitted' \ Emitted :
       EventFits(events'[i]) /\ stripe'[events'[i].sub].status # "none"
  /\ \A s \in Subs : stripe[s].status # "none" => stripe'[s].status # "none"

\* Added events leave what instances work on as it was.
LEMMA GrownTyped ==
  ASSUME Typed, Grows, stripe' \in [Subs -> Snapshot], StripeFits',
         replayed' \in SUBSET (Subs \X BOOLEAN), mirror' \in Mirror,
         mirror'.pc # "idle" => row # NoRow, MirrorFits',
         UNCHANGED <<settled, database, hook, cron, faults, written, done>>,
         cause' = cause
  PROVE  Typed'
  <1> USE DEF Typed, TypeOK, database
  <1>1. TypeOK'
    BY DEF Grows
  <1>2. EventsFit'
    <2>1. ASSUME NEW i \in Emitted PROVE events[i].sub \in Subs
      <3>1. events \in Seq(Event) /\ i \in 1..Len(events)
        BY DEF Emitted
      <3>2. events[i] \in Event
        BY <3>1, ElementOfSeq
      <3> QED BY <3>2 DEF Event
    <2> QED BY <2>1 DEF Grows, EventsFit
  <1>3. HooksFit'
    <2>1. ASSUME NEW h \in Handlers, hook[h].pc # "idle" PROVE HookFits(h)'
      <3>1. EventOf(h)' = EventOf(h)
        BY <2>1, WorkedOn DEF Grows, EventOf
      <3> QED BY <3>1 DEF HooksFit, HookFits
    <2>2. ASSUME NEW h \in Handlers, hook[h].pc = "idle" PROVE HookFits(h)'
      BY <2>2 DEF HookFits
    <2> QED BY <2>1, <2>2 DEF HooksFit
  <1> QED BY <1>1, <1>2, <1>3 DEF DoneFits

\* A change of a subscription emits events of its new state.
LEMMA BecomesTyped ==
  ASSUME Typed, NEW s \in Subs, NEW at \in Snapshot, NEW kinds \in Seq(Kinds),
         at.plan \in Paid, at.status # "none", Becomes(s, at, kinds),
         \A i \in 1..Len(kinds) : kinds[i] = "updated" => at.status \in {"active", "past_due"}
  PROVE  Typed' /\ Grows /\ UNCHANGED <<settled, database, hook, cron, faults, written, done, cause>>
  <1> DEFINE new == [i \in 1..Len(kinds) |-> [kind |-> kinds[i], sub |-> s, at |-> at]]
  <1>1. Len(kinds) \in Nat /\ \A i \in 1..Len(kinds) : kinds[i] \in Kinds
    BY ElementOfSeq, LenProperties
  <1>2. \A i \in 1..Len(kinds) : new[i] \in Event /\ EventFits(new[i])
    BY <1>1 DEF Event, EventFits
  <1>3. new \in Seq(Event) /\ Len(new) = Len(kinds)
    BY <1>1, <1>2
  <1>4. events \in Seq(Event)
    BY DEF Typed, TypeOK
  <1>5. events' = events \o new /\ Len(events) + Len(kinds) <= MaxEvents
    BY DEF Becomes
  <1> HIDE DEF new
  <1>6. /\ events' \in Seq(Event) /\ Len(events') = Len(events) + Len(new)
        /\ \A i \in 1..(Len(events) + Len(new)) :
             events'[i] = IF i <= Len(events) THEN events[i] ELSE new[i - Len(events)]
    BY <1>3, <1>4, <1>5, ConcatProperties
  <1>7. Len(events) \in Nat /\ Len(new) \in Nat
    BY <1>3, <1>4, LenProperties
  <1>8. \A i \in Emitted' : i <= Len(events) \/ i - Len(events) \in 1..Len(new)
    BY <1>6, <1>7 DEF Emitted
  <1>9. Grows
    <2>1. \A i \in 1..Len(kinds) : new[i].sub = s
      BY <1>1 DEF new
    <2>2. stripe' = [stripe EXCEPT ![s] = at] /\ stripe \in [Subs -> Snapshot]
      BY DEF Becomes, Typed, TypeOK
    <2> QED BY <1>2, <1>3, <1>5, <1>6, <1>7, <1>8, <2>1, <2>2 DEF Grows, Emitted
  <1>10. stripe' \in [Subs -> Snapshot] /\ StripeFits' /\ replayed' = replayed
    BY DEF Becomes, Typed, TypeOK, StripeFits
  <1>11. mirror' \in Mirror /\ mirror'.pc = mirror.pc /\ MirrorFits'
    BY DEF Becomes, Typed, TypeOK, Mirror, MirrorFits
  <1>12. UNCHANGED <<settled, database, hook, cron, faults, written, done, cause>>
    BY DEF Becomes
  <1> QED BY <1>9, <1>10, <1>11, <1>12, GrownTyped DEF Typed, TypeOK

\* What customers do keeps the types; all it changes is Stripe's record, its
\* events and whether a request is late.
LEMMA CustomerTyped ==
  ASSUME Typed, Customer
  PROVE  Typed' /\ Grows /\ UNCHANGED <<settled, database, hook, cron, faults, written, done, cause>>
  <1> DEFINE Goal == Typed' /\ Grows /\ UNCHANGED <<settled, database, hook, cron, faults, written, done, cause>>
  <1>1. \A s \in Subs : stripe[s] \in Snapshot /\ (stripe[s].status # "none" => stripe[s].plan \in Paid)
    BY DEF Typed, TypeOK, StripeFits
  <1>2. ASSUME NEW s \in Subs, NEW p \in Paid, OpenSession(s, p) PROVE Goal
    <2>1. [status |-> "session", plan |-> p, cancel |-> FALSE] \in Snapshot
      BY DEF Snapshot, Plans
    <2>2. stripe' \in [Subs -> Snapshot] /\ StripeFits'
      BY <1>2, <2>1 DEF OpenSession, Typed, TypeOK, StripeFits
    <2>3. Grows
      BY <1>2, <2>1 DEF OpenSession, Grows, Typed, TypeOK, Emitted
    <2> QED BY <1>2, <2>2, <2>3, GrownTyped DEF OpenSession, Typed, TypeOK, MirrorFits
  <1>3. ASSUME NEW s \in Subs, NEW p \in Paid, PortalPlan(s, p) PROVE Goal
    <2>1. <<"updated">> \in Seq(Kinds)
      BY DEF Kinds
    <2>2. [stripe[s] EXCEPT !.plan = p] \in Snapshot
      BY <1>1 DEF Snapshot, Plans
    <2>3. stripe[s].status = "active"
      BY <1>3 DEF PortalPlan
    <2> QED BY <1>1, <1>3, <2>1, <2>2, <2>3, BecomesTyped DEF PortalPlan, Snapshot
  <1>4. ASSUME NEW s \in Subs, PaySession(s) PROVE Goal
    <2>1. <<"checkout">> \in Seq(Kinds)
      BY DEF Kinds
    <2>2. [stripe[s] EXCEPT !.status = "active"] \in Snapshot
      BY <1>1 DEF Snapshot
    <2>3. stripe[s].status = "session"
      BY <1>4 DEF PaySession
    <2> QED BY <1>1, <1>4, <2>1, <2>2, <2>3, BecomesTyped DEF PaySession, Snapshot
  <1>5. ASSUME NEW s \in Subs, PortalCancel(s) PROVE Goal
    <2>1. <<"updated">> \in Seq(Kinds)
      BY DEF Kinds
    <2>2. [stripe[s] EXCEPT !.cancel = ~@] \in Snapshot
      BY <1>1 DEF Snapshot
    <2>3. stripe[s].status = "active"
      BY <1>5 DEF PortalCancel
    <2> QED BY <1>1, <1>5, <2>1, <2>2, <2>3, BecomesTyped DEF PortalCancel, Snapshot
  <1>6. ASSUME NEW s \in Subs, PaymentFails(s) PROVE Goal
    <2>1. <<"payment_failed", "updated">> \in Seq(Kinds)
      BY DEF Kinds
    <2>2. [stripe[s] EXCEPT !.status = "past_due"] \in Snapshot
      BY <1>1 DEF Snapshot
    <2>3. stripe[s].status = "active"
      BY <1>6 DEF PaymentFails
    <2> QED BY <1>1, <1>6, <2>1, <2>2, <2>3, BecomesTyped DEF PaymentFails, Snapshot
  <1>7. ASSUME NEW s \in Subs, PaymentSucceeds(s) PROVE Goal
    <2>1. <<"paid">> \in Seq(Kinds) /\ <<"paid", "updated">> \in Seq(Kinds)
      BY DEF Kinds
    <2>2. [stripe[s] EXCEPT !.status = "active"] \in Snapshot
      BY <1>1 DEF Snapshot
    <2>3. stripe[s].status \in {"active", "past_due"}
      BY <1>7 DEF PaymentSucceeds
    <2>4. PICK kinds \in Seq(Kinds) : Becomes(s, [stripe[s] EXCEPT !.status = "active"], kinds)
      BY <1>7, <2>1 DEF PaymentSucceeds
    <2> QED BY <1>1, <2>2, <2>3, <2>4, BecomesTyped DEF Snapshot
  <1>8. ASSUME NEW s \in Subs, SubscriptionEnds(s) PROVE Goal
    <2>1. <<"deleted">> \in Seq(Kinds) /\ Len(<<"deleted">>) = 1 /\ <<"deleted">>[1] = "deleted"
      BY DEF Kinds
    <2>2. [stripe[s] EXCEPT !.status = "canceled"] \in Snapshot
      BY <1>1 DEF Snapshot
    <2>3. stripe[s].status \in {"active", "past_due"}
      BY <1>8 DEF SubscriptionEnds
    <2>4. \A i \in 1..Len(<<"deleted">>) : <<"deleted">>[i] # "updated"
      BY <2>1
    <2> QED BY <1>1, <1>8, <2>1, <2>2, <2>3, <2>4, BecomesTyped DEF SubscriptionEnds, Snapshot
  <1> QED BY <1>2, <1>3, <1>4, <1>5, <1>6, <1>7, <1>8 DEF Customer

\* So does the request that flips a subscription's cancellation.
LEMMA MirrorCallTyped ==
  ASSUME Typed, MirrorCall
  PROVE  Typed' /\ Grows /\ UNCHANGED <<settled, database, hook, cron, faults, written, done, cause>>
  <1> DEFINE s == mirror.sub
             at == [stripe[s] EXCEPT !.cancel = mirror.want]
             e == [kind |-> "updated", sub |-> s, at |-> at]
  <1>1. mirror \in Mirror /\ stripe[s].status \in {"active", "past_due"} /\ s \in Subs
    BY DEF MirrorCall, Typed, TypeOK, MirrorFits
  <1>2. stripe[s] \in Snapshot /\ stripe[s].plan \in Paid
    BY <1>1 DEF Typed, TypeOK, StripeFits
  <1>3. at \in Snapshot /\ at.plan \in Paid /\ at.status = stripe[s].status
    BY <1>1, <1>2 DEF Snapshot, Mirror
  <1>4. e \in Event /\ EventFits(e)
    BY <1>1, <1>3 DEF Event, EventFits, Kinds
  <1>5. /\ Len(events) < MaxEvents /\ stripe' = [stripe EXCEPT ![s] = at]
        /\ events' = IF at = stripe[s] THEN events ELSE Append(events, e)
        /\ replayed' = replayed \union {<<s, mirror.want>>}
        /\ mirror' = [mirror EXCEPT !.pc = "called"]
        /\ UNCHANGED <<settled, database, hook, cron, faults, written, done, cause>>
    BY DEF MirrorCall
  <1> HIDE DEF at, e
  <1>6. stripe' \in [Subs -> Snapshot] /\ StripeFits'
    BY <1>1, <1>3, <1>5 DEF Typed, TypeOK, StripeFits
  <1>7. Grows
    <2>1. events \in Seq(Event) /\ Len(events) \in Nat /\ MaxEvents \in Nat
      BY LenProperties, BoundsAssumption DEF Typed, TypeOK
    <2>0. stripe \in [Subs -> Snapshot] /\ at.status # "none" /\ e.sub = s
      BY <1>1, <1>3 DEF Typed, TypeOK, e
    <2>2. CASE events' = events
      BY <1>1, <1>5, <2>0, <2>1, <2>2 DEF Grows, Emitted
    <2>3. CASE events' = Append(events, e)
      <3>1. /\ events' \in Seq(Event) /\ Len(events') = Len(events) + 1
            /\ \A i \in 1..Len(events) : events'[i] = events[i]
            /\ events'[Len(events) + 1] = e
        BY <1>4, <2>1, <2>3
      <3> QED BY <1>1, <1>4, <1>5, <2>0, <2>1, <3>1 DEF Grows, Emitted
    <2> QED BY <1>5, <2>2, <2>3
  <1>8. mirror.pc = "read" /\ row # NoRow /\ replayed \in SUBSET (Subs \X BOOLEAN)
    BY DEF MirrorCall, Typed, TypeOK
  <1>9. <<s, mirror.want>> \in Subs \X BOOLEAN
    BY <1>1 DEF Mirror
  <1>10. replayed' \in SUBSET (Subs \X BOOLEAN)
    BY <1>5, <1>8, <1>9
  <1>11. mirror' \in Mirror /\ mirror'.sub = s
    BY <1>1, <1>5 DEF Mirror
  <1> QED BY <1>1, <1>5, <1>6, <1>7, <1>8, <1>10, <1>11, GrownTyped DEF MirrorFits

-----------------------------------------------------------------------------
(* The webhook route.                                                      *)

\* An instance that takes a state which fits.
LEMMA HookTyped ==
  ASSUME Typed, NEW h \in Handlers, NEW k \in Hook, events' = events,
         hook' = [hook EXCEPT ![h] = k], k.pc # "idle" => k.ev \in Emitted,
         k.pc = "found" /\ events[k.ev].kind = "checkout" => k.plan \in Paid,
         k.pc \in {"reconcile", "unpublish"} => events[k.ev].kind = "deleted",
         k.pc = "notify" => events[k.ev].kind = "payment_failed"
  PROVE  /\ hook' \in [Handlers -> Hook] /\ HooksFit'
         /\ \A g \in Handlers : hook'[g].pc # "idle" => hook'[g].ev \in Emitted'
  <1>1. hook \in [Handlers -> Hook] /\ \A g \in Handlers : hook'[g] = IF g = h THEN k ELSE hook[g]
    BY DEF Typed, TypeOK
  <1>2. HooksFit'
    BY <1>1 DEF Typed, HooksFit, HookFits, EventOf
  <1> QED BY <1>1, <1>2 DEF Typed, TypeOK, Emitted

\* An instance that goes on with its event.
LEMMA GotoTyped ==
  ASSUME Typed, NEW h \in Handlers, hook[h].pc # "idle", events' = events,
         NEW pc \in {"found", "notify", "reconcile", "unpublish", "threw"}, Goto(h, pc),
         pc = "found" => EventOf(h).kind # "checkout",
         pc \in {"reconcile", "unpublish"} => EventOf(h).kind = "deleted",
         pc = "notify" => EventOf(h).kind = "payment_failed"
  PROVE  /\ hook' \in [Handlers -> Hook] /\ HooksFit'
         /\ \A g \in Handlers : hook'[g].pc # "idle" => hook'[g].ev \in Emitted'
  <1>1. [hook[h] EXCEPT !.pc = pc] \in Hook /\ hook[h].ev \in Emitted
    BY WorkedOn DEF Hook
  <1>2. hook' = [hook EXCEPT ![h] = [hook[h] EXCEPT !.pc = pc]]
    BY DEF Goto
  <1>3. [hook[h] EXCEPT !.pc = pc].pc = pc /\ [hook[h] EXCEPT !.pc = pc].ev = hook[h].ev
    BY WorkedOn DEF Hook
  <1> QED BY <1>1, <1>2, <1>3, HookTyped DEF EventOf

\* An instance that is done with its event.
LEMMA IdleTyped ==
  ASSUME Typed, NEW h \in Handlers, events' = events, NowIdle(h)
  PROVE  /\ hook' \in [Handlers -> Hook] /\ HooksFit'
         /\ \A g \in Handlers : hook'[g].pc # "idle" => hook'[g].ev \in Emitted'
  <1>1. IdleHook \in Hook /\ IdleHook.pc = "idle"
    BY BoundsAssumption DEF IdleHook, Hook, Plans
  <1> QED BY <1>1, HookTyped DEF NowIdle

\* Every step of the route but a delivery leaves Stripe and its events alone.
LEMMA RouteLeaves ==
  ASSUME NEW h \in Handlers, Handle(h) \/ Fault(h)
  PROVE  UNCHANGED <<stripe, replayed, events, mirror, cron>>
  BY DEF Handle, Fault, Retrieve, FindRow, RowMissing, Ignore, WriteCheckout, WriteUpdated,
         WritePaymentFailed, NotifyOwner, WriteDeleted, RowTaken, WriteInvoice, FindExcess, NoExcess,
         Unpublish, Release, HandlerFails, ClaimStrands, Answer, NowIdle, Goto, Written

\* What else of the state a step of the route must keep in its type.
LEMMA RouteTyped ==
  ASSUME Typed, UNCHANGED <<stripe, replayed, events, mirror, cron>>,
         settled' \in SUBSET Emitted, claimed' \in SUBSET Emitted,
         row' \in Row \union {NoRow}, row # NoRow => row' # NoRow, plan' \in Plans,
         over' \in BOOLEAN, invoices' \in SUBSET Emitted,
         hook' \in [Handlers -> Hook], HooksFit',
         \A g \in Handlers : hook'[g].pc # "idle" => hook'[g].ev \in Emitted',
         faults' \in 0..MaxFaults, written' \in SUBSET Emitted, done' \in SUBSET settled',
         cause' \subseteq cause \union {"overtaken", "stranded"}
  PROVE  Typed'
  BY DEF Typed, TypeOK, StripeFits, EventsFit, DoneFits, MirrorFits, Emitted

\* The instance's event is claimed.
LEMMA DeliverTyped ==
  ASSUME Typed, NEW h \in Handlers, NEW i \in Emitted, Deliver(h, i)
  PROVE  Typed'
  <1>1. UNCHANGED <<stripe, replayed, events, row, plan, over, invoices, mirror, cron, faults, written, done, cause>>
    BY DEF Deliver
  <1>2. [pc |-> "claimed", ev |-> i, plan |-> "FREE"] \in Hook
    BY BoundsAssumption DEF Hook, Plans, Emitted, Typed, TypeOK
  <1>3. CASE i \in claimed
    BY <1>1, <1>3, RouteTyped DEF Deliver, Typed, TypeOK, DoneFits, HooksFit, HookFits, EventOf, Emitted
  <1>4. CASE i \notin claimed
    <2>1. /\ hook' \in [Handlers -> Hook] /\ HooksFit'
          /\ \A g \in Handlers : hook'[g].pc # "idle" => hook'[g].ev \in Emitted'
      BY <1>1, <1>2, <1>4, HookTyped DEF Deliver
    <2> QED BY <1>1, <1>4, <2>1, RouteTyped DEF Deliver, Typed, TypeOK, DoneFits
  <1> QED BY <1>3, <1>4

\* An answer settles the event and frees the instance.
LEMMA AnswerTyped ==
  ASSUME Typed, NEW h \in Handlers, hook[h].pc # "idle", events' = events, Answer(h)
  PROVE  /\ hook' \in [Handlers -> Hook] /\ HooksFit'
         /\ \A g \in Handlers : hook'[g].pc # "idle" => hook'[g].ev \in Emitted'
         /\ settled' \in SUBSET Emitted /\ done' \in SUBSET settled'
  <1>1. hook[h].ev \in Emitted
    BY WorkedOn
  <1> QED BY <1>1, IdleTyped DEF Answer, Typed, TypeOK, DoneFits

\* A handler's write is remembered as such.
LEMMA WrittenTyped ==
  ASSUME Typed, NEW h \in Handlers, hook[h].pc # "idle", NEW causes \in SUBSET cause,
         Written(h, causes)
  PROVE  written' \in SUBSET Emitted /\ cause' \subseteq cause \union {"overtaken", "stranded"}
  BY WorkedOn DEF Written, Typed, TypeOK

\* Every step of a handler keeps the types.
LEMMA HandleTyped ==
  ASSUME Typed, NEW h \in Handlers, Handle(h)
  PROVE  Typed'
  <1> USE DEF database
  <1>0. UNCHANGED <<stripe, replayed, events, mirror, cron>>
    BY RouteLeaves
  <1>1. /\ settled \in SUBSET Emitted /\ claimed \in SUBSET Emitted /\ row \in Row \union {NoRow}
        /\ plan \in Plans /\ over \in BOOLEAN /\ invoices \in SUBSET Emitted
        /\ faults \in 0..MaxFaults /\ written \in SUBSET Emitted /\ done \in SUBSET settled
        /\ hook[h] \in Hook /\ stripe \in [Subs -> Snapshot]
    BY DEF Typed, TypeOK, DoneFits
  <1>2. hook[h].pc # "idle"
    BY DEF Handle, Retrieve, FindRow, RowMissing, Ignore, WriteCheckout, WriteUpdated,
           WritePaymentFailed, NotifyOwner, WriteDeleted, RowTaken, WriteInvoice, FindExcess,
           NoExcess, Unpublish, Release
  <1>3. hook[h].ev \in Emitted /\ EventOf(h) \in Event /\ EventFits(EventOf(h))
    BY <1>2, WorkedOn
  <1>4. CASE Retrieve(h)
    <2>1. EventOf(h).kind = "checkout" /\ EventOf(h).sub \in Subs
      BY <1>3, <1>4 DEF Retrieve, Event
    <2>2. stripe[EventOf(h).sub].plan \in Paid
      BY <1>2, <2>1, WorkedOn DEF Typed, StripeFits
    <2> DEFINE k == [hook[h] EXCEPT !.pc = "found", !.plan = stripe[EventOf(h).sub].plan]
    <2>3. k \in Hook /\ k.plan \in Paid /\ k.pc = "found" /\ k.ev = hook[h].ev
      BY <1>1, <2>2 DEF Hook, Plans
    <2>4. hook' = [hook EXCEPT ![h] = k]
      BY <1>4 DEF Retrieve, Typed, TypeOK
    <2> HIDE DEF k
    <2>5. /\ hook' \in [Handlers -> Hook] /\ HooksFit'
          /\ \A g \in Handlers : hook'[g].pc # "idle" => hook'[g].ev \in Emitted'
      BY <1>0, <1>3, <2>3, <2>4, HookTyped
    <2> QED BY <1>0, <1>1, <1>4, <2>5, RouteTyped DEF Retrieve
  <1>5. CASE FindRow(h) \/ RowMissing(h) \/ RowTaken(h) \/ FindExcess(h)
    <2>1. /\ hook' \in [Handlers -> Hook] /\ HooksFit'
          /\ \A g \in Handlers : hook'[g].pc # "idle" => hook'[g].ev \in Emitted'
      BY <1>0, <1>2, <1>5, GotoTyped DEF FindRow, RowMissing, RowTaken, FindExcess, Typed, HooksFit, HookFits
    <2> QED BY <1>0, <1>1, <1>5, <2>1, RouteTyped DEF FindRow, RowMissing, RowTaken, FindExcess
  <1>6. CASE Ignore(h)
    BY <1>0, <1>1, <1>2, <1>6, AnswerTyped, WrittenTyped, RouteTyped DEF Ignore
  <1>7. CASE WriteCheckout(h)
    <2>1. hook[h].plan \in Paid
      BY <1>7 DEF WriteCheckout, Typed, HooksFit, HookFits
    <2>2. row' \in Row /\ plan' \in Plans
      BY <1>3, <1>7, <2>1 DEF WriteCheckout, Row, Plans, Event
    <2>3. row' # NoRow
      BY <2>2, RowAssumption
    <2> QED BY <1>0, <1>1, <1>2, <1>7, <2>2, <2>3, AnswerTyped, WrittenTyped, RouteTyped DEF WriteCheckout
  <1>8. CASE WriteUpdated(h)
    <2>1. /\ row \in Row /\ EventOf(h).at \in Snapshot
          /\ EventOf(h).at.status \in {"active", "past_due"}
      BY <1>1, <1>3, <1>8 DEF WriteUpdated, RowIs, Event, EventFits
    <2>2. row' \in Row /\ row' # NoRow /\ plan' \in Plans
      BY <1>8, <2>1, LocalTyped, RowAssumption DEF WriteUpdated, Row, Snapshot
    <2> QED BY <1>0, <1>1, <1>2, <1>8, <2>2, AnswerTyped, WrittenTyped, RouteTyped DEF WriteUpdated
  <1>9. CASE WritePaymentFailed(h)
    <2>1. row \in Row
      BY <1>1, <1>9 DEF WritePaymentFailed, RowIs
    <2>2. row' \in Row /\ row' # NoRow
      BY <1>9, <2>1, RowAssumption DEF WritePaymentFailed, Row
    <2>3. /\ hook' \in [Handlers -> Hook] /\ HooksFit'
          /\ \A g \in Handlers : hook'[g].pc # "idle" => hook'[g].ev \in Emitted'
      BY <1>0, <1>2, <1>9, GotoTyped DEF WritePaymentFailed
    <2> QED BY <1>0, <1>1, <1>2, <1>9, <2>2, <2>3, WrittenTyped, RouteTyped DEF WritePaymentFailed
  <1>10. CASE WriteDeleted(h)
    <2>1. row \in Row
      BY <1>1, <1>10 DEF WriteDeleted, RowIs
    <2>2. row' \in Row /\ row' # NoRow /\ plan' \in Plans
      BY <1>10, <2>1, RowAssumption DEF WriteDeleted, Row, Plans
    <2>3. /\ hook' \in [Handlers -> Hook] /\ HooksFit'
          /\ \A g \in Handlers : hook'[g].pc # "idle" => hook'[g].ev \in Emitted'
      BY <1>0, <1>2, <1>10, GotoTyped DEF WriteDeleted
    <2> QED BY <1>0, <1>1, <1>2, <1>10, <2>2, <2>3, WrittenTyped, RouteTyped DEF WriteDeleted
  <1>11. CASE NotifyOwner(h) \/ NoExcess(h)
    BY <1>0, <1>1, <1>2, <1>11, AnswerTyped, RouteTyped DEF NotifyOwner, NoExcess
  <1>12. CASE WriteInvoice(h)
    <2>1. invoices' \in SUBSET Emitted
      BY <1>1, <1>3, <1>12 DEF WriteInvoice
    <2> QED BY <1>0, <1>1, <1>2, <1>12, <2>1, AnswerTyped, RouteTyped DEF WriteInvoice
  <1>13. CASE Unpublish(h)
    <2>1. over' \in BOOLEAN
      BY <1>13 DEF Unpublish, Left
    <2> QED BY <1>0, <1>1, <1>2, <1>13, <2>1, AnswerTyped, RouteTyped DEF Unpublish
  <1>14. CASE Release(h)
    <2>1. /\ hook' \in [Handlers -> Hook] /\ HooksFit'
          /\ \A g \in Handlers : hook'[g].pc # "idle" => hook'[g].ev \in Emitted'
      BY <1>0, <1>14, IdleTyped DEF Release
    <2> QED BY <1>0, <1>1, <1>14, <2>1, RouteTyped DEF Release
  <1> QED BY <1>4, <1>5, <1>6, <1>7, <1>8, <1>9, <1>10, <1>11, <1>12, <1>13, <1>14 DEF Handle

\* So do an instance's failure and its end.
LEMMA FaultTyped ==
  ASSUME Typed, NEW h \in Handlers, Fault(h)
  PROVE  Typed'
  <1> USE DEF database
  <1>0. UNCHANGED <<stripe, replayed, events, mirror, cron>>
    BY RouteLeaves
  <1>1. /\ settled \in SUBSET Emitted /\ claimed \in SUBSET Emitted /\ row \in Row \union {NoRow}
        /\ plan \in Plans /\ over \in BOOLEAN /\ invoices \in SUBSET Emitted
        /\ written \in SUBSET Emitted /\ done \in SUBSET settled
    BY DEF Typed, TypeOK, DoneFits
  <1>2. faults' \in 0..MaxFaults
    BY BoundsAssumption DEF Fault, HandlerFails, ClaimStrands, Typed, TypeOK
  <1>3. CASE HandlerFails(h)
    <2>1. /\ hook' \in [Handlers -> Hook] /\ HooksFit'
          /\ \A g \in Handlers : hook'[g].pc # "idle" => hook'[g].ev \in Emitted'
      BY <1>0, <1>3, GotoTyped DEF HandlerFails
    <2> QED BY <1>0, <1>1, <1>2, <1>3, <2>1, RouteTyped DEF HandlerFails
  <1>4. CASE ClaimStrands(h)
    <2>1. /\ hook' \in [Handlers -> Hook] /\ HooksFit'
          /\ \A g \in Handlers : hook'[g].pc # "idle" => hook'[g].ev \in Emitted'
      BY <1>0, <1>4, IdleTyped DEF ClaimStrands
    <2> QED BY <1>0, <1>1, <1>2, <1>4, <2>1, RouteTyped DEF ClaimStrands
  <1> QED BY <1>3, <1>4 DEF Fault

-----------------------------------------------------------------------------
(* The request, the cron and the members.                                  *)

\* The steps of the request after Stripe answered, and those that Stripe refuses.
LEMMA MirrorTyped ==
  ASSUME Typed,
         \/ \E want \in BOOLEAN : MirrorRead(want)
         \/ MirrorReplayed \/ MirrorRefused \/ MirrorWrite \/ MirrorWriteFails
  PROVE  Typed' /\ UNCHANGED <<stripe, replayed, events, settled, claimed, hook, cron, done>>
  <1> USE DEF database
  <1>1. UNCHANGED <<stripe, replayed, events, settled, claimed, hook, cron, done, plan, over, invoices, written>>
    BY DEF MirrorRead, MirrorReplayed, MirrorRefused, MirrorWrite, MirrorWriteFails
  <1>2. /\ stripe \in [Subs -> Snapshot] /\ row \in Row \union {NoRow} /\ mirror \in Mirror
        /\ (mirror.pc # "idle" => mirror.sub \in Subs /\ row # NoRow)
        /\ faults \in 0..MaxFaults
    BY DEF Typed, TypeOK, MirrorFits
  <1>3. IdleMirror \in Mirror /\ IdleMirror.pc = "idle"
    BY DEF IdleMirror, Mirror
  <1>4. /\ row' \in Row \union {NoRow} /\ (row # NoRow => row' # NoRow)
        /\ mirror' \in Mirror /\ (mirror'.pc # "idle" => mirror'.sub \in Subs /\ row' # NoRow)
        /\ faults' \in 0..MaxFaults
        /\ cause' \subseteq cause \union {"replayed", "late"}
    <2>1. CASE \E want \in BOOLEAN : MirrorRead(want)
      <3>1. row \in Row /\ row.sub \in Subs
        BY <1>2, <2>1 DEF MirrorRead, Row
      <3> QED BY <1>2, <2>1, <3>1 DEF MirrorRead, Mirror
    <2>2. CASE MirrorReplayed
      BY <1>2, <2>2 DEF MirrorReplayed, Mirror
    <2>3. CASE MirrorRefused
      BY <1>2, <1>3, <2>3 DEF MirrorRefused
    <2>4. CASE MirrorWrite
      <3>1. row \in Row
        BY <1>2, <2>4 DEF MirrorWrite
      <3>2. row' \in Row
        BY <1>2, <2>4, <3>1 DEF MirrorWrite, Row, Mirror
      <3>3. row' # NoRow
        BY <3>2, RowAssumption
      <3> QED BY <1>2, <1>3, <2>4, <3>2, <3>3 DEF MirrorWrite
    <2>5. CASE MirrorWriteFails
      BY <1>2, <1>3, <2>5, BoundsAssumption DEF MirrorWriteFails
    <2> QED BY <2>1, <2>2, <2>3, <2>4, <2>5
  <1>5. TypeOK'
    BY <1>1, <1>4 DEF Typed, TypeOK, Emitted
  <1>6. EventsFit' /\ HooksFit' /\ StripeFits' /\ DoneFits'
    BY <1>1 DEF Typed, EventsFit, HooksFit, HookFits, StripeFits, DoneFits, Emitted, EventOf, EventFits
  <1> QED BY <1>1, <1>4, <1>5, <1>6 DEF Typed, MirrorFits

\* The steps of the downgrade cron, and a publish.
LEMMA CronTyped ==
  ASSUME Typed, CronRead \/ CronGoes \/ CronDies \/ PublishMore
  PROVE  Typed' /\ UNCHANGED <<stripe, replayed, events, settled, claimed, hook, mirror, done>>
  <1> USE DEF database
  <1>1. UNCHANGED <<stripe, replayed, events, settled, claimed, hook, mirror, done, invoices, written>>
    BY DEF CronRead, CronGoes, CronWrite, CronFindExcess, CronUnpublish, CronDies, PublishMore
  <1>2. /\ row \in Row \union {NoRow} /\ (cron # "idle" => row # NoRow) /\ plan \in Plans
        /\ over \in BOOLEAN /\ faults \in 0..MaxFaults
        /\ cron \in {"idle", "due", "reconcile", "unpublish"}
    BY DEF Typed, TypeOK
  <1>3. /\ row' \in Row \union {NoRow} /\ (row # NoRow => row' # NoRow) /\ plan' \in Plans
        /\ over' \in BOOLEAN /\ faults' \in 0..MaxFaults
        /\ cron' \in {"idle", "due", "reconcile", "unpublish"}
        /\ (cron' # "idle" => row # NoRow)
        /\ cause' \subseteq cause \union {"downgraded", "unreconciled", "republished"}
    <2>1. CASE CronWrite
      <3>1. row \in Row
        BY <1>2, <2>1 DEF CronWrite
      <3>2. row' \in Row /\ plan' \in Plans
        BY <2>1, <3>1 DEF CronWrite, Row, Plans
      <3>3. row' # NoRow
        BY <3>2, RowAssumption
      <3> QED BY <1>2, <2>1, <3>2, <3>3 DEF CronWrite
    <2>2. CASE CronRead
      BY <1>2, <2>2 DEF CronRead
    <2>3. CASE CronFindExcess \/ CronUnpublish
      BY <1>2, <2>3 DEF CronFindExcess, CronUnpublish, Left
    <2>4. CASE CronDies
      BY <1>2, <2>4, BoundsAssumption DEF CronDies
    <2>5. CASE PublishMore
      BY <1>2, <2>5 DEF PublishMore
    <2> QED BY <2>1, <2>2, <2>3, <2>4, <2>5 DEF CronGoes
  <1>4. TypeOK'
    BY <1>1, <1>3 DEF Typed, TypeOK, Emitted
  <1>5. EventsFit' /\ HooksFit' /\ StripeFits' /\ DoneFits' /\ MirrorFits'
    BY <1>1 DEF Typed, EventsFit, HooksFit, HookFits, StripeFits, DoneFits, MirrorFits, Emitted,
                EventOf, EventFits
  <1> QED BY <1>1, <1>4, <1>5 DEF Typed

-----------------------------------------------------------------------------
(* Types.                                                                  *)

LEMMA InitTyped == Init => Typed
  <1> SUFFICES ASSUME Init PROVE Typed
    OBVIOUS
  <1>1. events \in Seq(Event) /\ Len(events) = 0
    BY DEF Init
  <1>2. Emitted = {}
    BY <1>1 DEF Emitted
  <1>3. stripe \in [Subs -> Snapshot] /\ StripeFits
    BY DEF Init, Snapshot, Plans, StripeFits
  <1>4. /\ hook \in [Handlers -> Hook] /\ HooksFit
        /\ \A h \in Handlers : hook[h].pc = "idle"
    BY BoundsAssumption DEF Init, IdleHook, Hook, Plans, HooksFit, HookFits
  <1>5. mirror \in Mirror /\ mirror.pc = "idle"
    BY DEF Init, IdleMirror, Mirror
  <1>6. TypeOK
    <2>1. /\ replayed = {} /\ settled = {} /\ claimed = {} /\ invoices = {} /\ written = {}
          /\ done = {} /\ cause = {} /\ cron = "idle" /\ over = FALSE /\ row = NoRow
          /\ plan = "FREE" /\ faults = 0
      BY DEF Init
    <2>2. plan \in Plans /\ faults \in 0..MaxFaults /\ Len(events) <= MaxEvents
      BY <1>1, <2>1, BoundsAssumption DEF Plans
    <2> QED BY <1>1, <1>2, <1>3, <1>4, <1>5, <2>1, <2>2 DEF TypeOK
  <1> QED BY <1>2, <1>3, <1>4, <1>5, <1>6 DEF Init, Typed, EventsFit, DoneFits, MirrorFits

LEMMA StepTyped == Typed /\ [Next]_vars => Typed'
  <1> SUFFICES ASSUME Typed, [Next]_vars PROVE Typed'
    OBVIOUS
  <1>1. CASE UNCHANGED vars
    BY <1>1 DEF vars, database, Typed, TypeOK, StripeFits, EventsFit, HooksFit, HookFits, DoneFits,
                MirrorFits, Emitted, EventOf, EventFits
  <1>2. CASE Customer
    BY <1>2, CustomerTyped
  <1>3. CASE \E h \in Handlers : (\E i \in Emitted : Deliver(h, i)) \/ Handle(h) \/ Fault(h)
    BY <1>3, DeliverTyped, HandleTyped, FaultTyped
  <1>4. CASE MirrorCall
    BY <1>4, MirrorCallTyped
  <1>5. CASE \/ \E want \in BOOLEAN : MirrorRead(want)
             \/ MirrorReplayed \/ MirrorRefused \/ MirrorWrite \/ MirrorWriteFails
    BY <1>5, MirrorTyped
  <1>6. CASE CronRead \/ CronGoes \/ CronDies \/ PublishMore
    BY <1>6, CronTyped
  <1> QED BY <1>1, <1>2, <1>3, <1>4, <1>5, <1>6 DEF Next, MirrorGoes

LEMMA AlwaysTyped == Spec => []Typed
  BY InitTyped, StepTyped, PTL DEF Spec

\* Every variable has its type, whatever is emitted, delivered or fails.
THEOREM BillingTypes == Spec => []TypeOK
  <1>1. Typed => TypeOK
    BY DEF Typed
  <1> QED BY <1>1, AlwaysTyped, PTL

-----------------------------------------------------------------------------
(* The claim.                                                              *)

\* What a step of the route does to the claim of its event.
Claimed(h) ==
  /\ hook'[h].pc # "idle" /\ hook'[h].ev = hook[h].ev
  /\ UNCHANGED <<settled, claimed, done>>
Answered(h) ==
  /\ hook'[h].pc = "idle"
  /\ settled' = settled \union {hook[h].ev} /\ done' = done \union {hook[h].ev}
  /\ claimed' = claimed
Released(h) ==
  /\ hook'[h].pc = "idle"
  /\ claimed' = claimed \ {hook[h].ev} /\ UNCHANGED <<settled, done>>
  /\ hook[h].ev \in settled => "stranded" \in cause'
Stranded(h) ==
  /\ hook'[h].pc = "idle"
  /\ UNCHANGED <<settled, claimed, done>> /\ "stranded" \in cause'

LEMMA RouteClaims ==
  ASSUME Typed, NEW h \in Handlers, Handle(h) \/ Fault(h)
  PROVE  /\ hook[h].pc # "idle"
         /\ \A g \in Handlers \ {h} : hook'[g] = hook[g]
         /\ Claimed(h) \/ Answered(h) \/ Released(h) \/ Stranded(h)
         /\ "stranded" \in cause => "stranded" \in cause'
  <1> DEFINE Goal == /\ hook[h].pc # "idle"
                     /\ \A g \in Handlers \ {h} : hook'[g] = hook[g]
                     /\ Claimed(h) \/ Answered(h) \/ Released(h) \/ Stranded(h)
                     /\ "stranded" \in cause => "stranded" \in cause'
  <1> USE DEF database
  <1>1. hook \in [Handlers -> Hook] /\ hook[h] \in Hook
    BY DEF Typed, TypeOK
  <1>2. ASSUME NEW pc \in {"found", "notify", "reconcile", "unpublish", "threw"}, Goto(h, pc)
        PROVE  hook'[h].pc # "idle" /\ hook'[h].ev = hook[h].ev /\ \A g \in Handlers \ {h} : hook'[g] = hook[g]
    BY <1>1, <1>2 DEF Goto, Hook
  <1>3. ASSUME NowIdle(h)
        PROVE  hook'[h].pc = "idle" /\ \A g \in Handlers \ {h} : hook'[g] = hook[g]
    BY <1>1, <1>3 DEF NowIdle, IdleHook
  <1>4. ASSUME FindRow(h) \/ RowMissing(h) \/ RowTaken(h) \/ FindExcess(h) \/ HandlerFails(h)
        PROVE  Goal
    BY <1>2, <1>4 DEF FindRow, RowMissing, RowTaken, FindExcess, HandlerFails, Claimed
  <1>5. ASSUME WritePaymentFailed(h) \/ WriteDeleted(h) PROVE Goal
    BY <1>2, <1>5 DEF WritePaymentFailed, WriteDeleted, Written, Claimed
  <1>6. ASSUME Retrieve(h) PROVE Goal
    <2>1. hook' = [hook EXCEPT ![h] = [hook[h] EXCEPT !.pc = "found", !.plan = stripe[EventOf(h).sub].plan]]
      BY <1>1, <1>6 DEF Retrieve
    <2>2. hook'[h].pc = "found" /\ hook'[h].ev = hook[h].ev /\ \A g \in Handlers \ {h} : hook'[g] = hook[g]
      BY <1>1, <2>1 DEF Hook
    <2> QED BY <1>6, <2>2 DEF Retrieve, Claimed
  <1>7. ASSUME \/ Ignore(h) \/ WriteCheckout(h) \/ WriteUpdated(h) \/ NotifyOwner(h)
               \/ WriteInvoice(h) \/ NoExcess(h) \/ Unpublish(h)
        PROVE  Goal
    BY <1>3, <1>7 DEF Ignore, WriteCheckout, WriteUpdated, NotifyOwner, WriteInvoice, NoExcess,
                      Unpublish, Answer, Written, Answered
  <1>8. ASSUME Release(h) PROVE Goal
    BY <1>3, <1>8 DEF Release, Released
  <1>9. ASSUME ClaimStrands(h) PROVE Goal
    BY <1>3, <1>9 DEF ClaimStrands, Stranded
  <1> QED BY <1>4, <1>5, <1>6, <1>7, <1>8, <1>9 DEF Handle, Fault

\* A delivery either takes the claim or answers a duplicate.
LEMMA DeliverClaims ==
  ASSUME Typed, NEW h \in Handlers, NEW i \in Emitted, Deliver(h, i)
  PROVE  /\ i \notin settled /\ hook[h].pc = "idle" /\ UNCHANGED <<done, cause>>
         /\ \A g \in Handlers \ {h} : hook'[g] = hook[g]
         /\ \/ /\ i \in claimed /\ settled' = settled \union {i}
               /\ UNCHANGED <<claimed, hook>>
            \/ /\ i \notin claimed /\ claimed' = claimed \union {i} /\ UNCHANGED settled
               /\ hook'[h].pc = "claimed" /\ hook'[h].ev = i
  BY DEF Deliver, Typed, TypeOK

\* No other step touches an instance, a claim or an answer.
LEMMA OthersLeave ==
  ASSUME Typed, [Next]_vars,
         \A h \in Handlers : ~Handle(h) /\ ~Fault(h) /\ \A i \in Emitted : ~Deliver(h, i)
  PROVE  /\ UNCHANGED <<settled, claimed, hook, done>>
         /\ "stranded" \in cause => "stranded" \in cause'
  <1>1. CASE UNCHANGED vars
    BY <1>1 DEF vars, database
  <1>2. CASE Customer
    BY <1>2, CustomerTyped DEF database
  <1>3. CASE MirrorCall
    BY <1>3, MirrorCallTyped DEF database
  <1>4. CASE \/ \E want \in BOOLEAN : MirrorRead(want)
             \/ MirrorReplayed \/ MirrorRefused \/ MirrorWrite \/ MirrorWriteFails
    BY <1>4 DEF MirrorRead, MirrorReplayed, MirrorRefused, MirrorWrite, MirrorWriteFails, database
  <1>5. CASE CronRead \/ CronGoes \/ CronDies \/ PublishMore
    BY <1>5 DEF CronRead, CronGoes, CronWrite, CronFindExcess, CronUnpublish, CronDies, PublishMore, database
  <1> QED BY <1>1, <1>2, <1>3, <1>4, <1>5 DEF Next, MirrorGoes

LEMMA OnceStep == Typed /\ HandledOnce /\ [Next]_vars => HandledOnce'
  <1> SUFFICES ASSUME Typed, HandledOnce, [Next]_vars PROVE HandledOnce'
    OBVIOUS
  <1>1. CASE \E h \in Handlers : Handle(h) \/ Fault(h)
    <2>1. PICK h \in Handlers : Handle(h) \/ Fault(h)
      BY <1>1
    <2>2. /\ hook[h].pc # "idle"
          /\ \A g \in Handlers \ {h} : hook'[g] = hook[g]
          /\ Claimed(h) \/ Answered(h) \/ Released(h) \/ Stranded(h)
      BY <2>1, RouteClaims
    <2> QED BY <2>2 DEF HandledOnce, Working, Claimed, Answered, Released, Stranded
  <1>2. CASE \E h \in Handlers : \E i \in Emitted : Deliver(h, i)
    <2>1. PICK h \in Handlers, i \in Emitted : Deliver(h, i)
      BY <1>2
    <2>2. i \notin done
      BY <2>1, DeliverClaims DEF Typed, DoneFits
    <2> QED BY <2>1, <2>2, DeliverClaims DEF HandledOnce, Working
  <1>3. CASE \A h \in Handlers : ~Handle(h) /\ ~Fault(h) /\ \A i \in Emitted : ~Deliver(h, i)
    BY <1>3, OthersLeave DEF HandledOnce, Working
  <1> QED BY <1>1, <1>2, <1>3

\* However often and wherever an event is delivered, one instance at a time
\* handles it, and none after a handler returned.
THEOREM OneHandlerPerEvent == Spec => []HandledOnce
  <1>1. Init => HandledOnce
    BY DEF Init, HandledOnce, Working, IdleHook
  <1> QED BY <1>1, OnceStep, AlwaysTyped, PTL DEF Spec

\* What is claimed, and not only what is answered, is handled or being handled.
Held ==
  "stranded" \notin cause =>
    \A i \in settled \union claimed : i \in done \/ \E h \in Handlers : Working(h) /\ hook[h].ev = i

LEMMA HeldStep == Typed /\ Held /\ [Next]_vars => Held'
  <1> SUFFICES ASSUME Typed, Held, [Next]_vars, "stranded" \notin cause',
                      NEW i \in settled' \union claimed'
               PROVE  i \in done' \/ \E h \in Handlers : Working(h)' /\ hook'[h].ev = i
    BY DEF Held
  <1>1. CASE \E h \in Handlers : Handle(h) \/ Fault(h)
    <2>1. PICK h \in Handlers : Handle(h) \/ Fault(h)
      BY <1>1
    <2>2. /\ hook[h].pc # "idle"
          /\ \A g \in Handlers \ {h} : hook'[g] = hook[g]
          /\ Claimed(h) \/ Answered(h) \/ Released(h)
          /\ "stranded" \notin cause
      BY <2>1, RouteClaims DEF Stranded
    <2>3. CASE i = hook[h].ev
      BY <2>2, <2>3 DEF Working, Claimed, Answered, Released
    <2>4. CASE i # hook[h].ev
      <3>1. i \in settled \union claimed /\ done \subseteq done'
        BY <2>2, <2>4 DEF Claimed, Answered, Released
      <3>2. i \in done \/ \E g \in Handlers : Working(g) /\ hook[g].ev = i
        BY <2>2, <3>1 DEF Held
      <3> QED BY <2>2, <2>4, <3>1, <3>2 DEF Working
    <2> QED BY <2>3, <2>4
  <1>2. CASE \E h \in Handlers : \E j \in Emitted : Deliver(h, j)
    <2>1. PICK h \in Handlers, j \in Emitted : Deliver(h, j)
      BY <1>2
    <2> QED BY <2>1, DeliverClaims DEF Held, Working
  <1>3. CASE \A h \in Handlers : ~Handle(h) /\ ~Fault(h) /\ \A j \in Emitted : ~Deliver(h, j)
    BY <1>3, OthersLeave DEF Held, Working
  <1> QED BY <1>1, <1>2, <1>3

\* An event is answered 2xx for a reason, unless a claim was stranded.
THEOREM AnswersAreEarned == Spec => []SettledIsHandled
  <1>1. Init => Held
    BY DEF Init, Held
  <1>2. Held => SettledIsHandled
    BY DEF Held, SettledIsHandled
  <1> QED BY <1>1, <1>2, HeldStep, AlwaysTyped, PTL DEF Spec

-----------------------------------------------------------------------------
(* The entitlement.                                                        *)

\* Which steps write the row and the plan.
LEMMA RowWrites ==
  ASSUME Typed, [Next]_vars
  PROVE  \/ UNCHANGED <<row, plan>>
         \/ \E h \in Handlers : WriteCheckout(h) \/ WriteUpdated(h) \/ WritePaymentFailed(h) \/ WriteDeleted(h)
         \/ MirrorWrite \/ CronWrite
  <1> USE DEF database
  <1>1. CASE UNCHANGED vars
    BY <1>1 DEF vars
  <1>2. CASE Customer
    BY <1>2, CustomerTyped
  <1>3. CASE \E h \in Handlers : \E i \in Emitted : Deliver(h, i)
    BY <1>3 DEF Deliver
  <1>4. CASE \E h \in Handlers : Handle(h) \/ Fault(h)
    BY <1>4 DEF Handle, Fault, Retrieve, FindRow, RowMissing, Ignore, NotifyOwner, RowTaken,
                WriteInvoice, FindExcess, NoExcess, Unpublish, Release, HandlerFails, ClaimStrands
  <1>5. CASE MirrorCall
    BY <1>5, MirrorCallTyped
  <1>6. CASE (\E want \in BOOLEAN : MirrorRead(want)) \/ MirrorReplayed \/ MirrorRefused \/ MirrorWriteFails
    BY <1>6 DEF MirrorRead, MirrorReplayed, MirrorRefused, MirrorWriteFails
  <1>7. CASE CronRead \/ CronFindExcess \/ CronUnpublish \/ CronDies \/ PublishMore
    BY <1>7 DEF CronRead, CronFindExcess, CronUnpublish, CronDies, PublishMore
  <1> QED BY <1>1, <1>2, <1>3, <1>4, <1>5, <1>6, <1>7 DEF Next, MirrorGoes, CronGoes

LEMMA BackedStep == Typed /\ EntitlementIsBacked /\ [Next]_vars => EntitlementIsBacked'
  <1> SUFFICES ASSUME Typed, EntitlementIsBacked, [Next]_vars PROVE EntitlementIsBacked'
    OBVIOUS
  <1>0. Typed' /\ row \in Row \union {NoRow}
    BY StepTyped DEF Typed, TypeOK
  <1>1. CASE UNCHANGED <<row, plan>>
    BY <1>1 DEF EntitlementIsBacked
  <1>2. ASSUME NEW h \in Handlers, WriteCheckout(h) PROVE EntitlementIsBacked'
    <2>1. /\ row'.status = "ACTIVE" /\ row'.plan = plan'
      BY <1>2 DEF WriteCheckout
    <2>2. row' \in Row
      <3>1. hook[h].plan \in Paid /\ EventOf(h) \in Event
        BY <1>2, WorkedOn DEF WriteCheckout, Typed, HooksFit, HookFits
      <3> QED BY <1>2, <3>1 DEF WriteCheckout, Row, Plans, Event
    <2> QED BY <2>1, <2>2, RowAssumption DEF EntitlementIsBacked
  <1>3. ASSUME NEW h \in Handlers, WriteUpdated(h) PROVE EntitlementIsBacked'
    <2>1. /\ row \in Row /\ EventOf(h) \in Event /\ EventOf(h).at.status \in {"active", "past_due"}
      BY <1>0, <1>3, WorkedOn DEF WriteUpdated, RowIs, EventFits
    <2>2. /\ row' \in Row /\ row'.plan = plan' /\ row'.status = Local(EventOf(h).at.status)
      BY <1>3, <2>1, LocalTyped DEF WriteUpdated, Row, Event, Snapshot
    <2> QED BY <2>1, <2>2, LocalTyped, RowAssumption DEF EntitlementIsBacked
  <1>4. ASSUME NEW h \in Handlers, WritePaymentFailed(h) PROVE EntitlementIsBacked'
    <2>1. row \in Row /\ row' = [row EXCEPT !.status = "PAST_DUE"] /\ plan' = plan
      BY <1>0, <1>4 DEF WritePaymentFailed, RowIs
    <2>2. row' \in Row /\ row'.plan = row.plan /\ row'.status = "PAST_DUE"
      BY <2>1 DEF Row
    <2> QED BY <2>1, <2>2, RowAssumption DEF EntitlementIsBacked
  <1>5. ASSUME (\E h \in Handlers : WriteDeleted(h)) \/ CronWrite PROVE EntitlementIsBacked'
    BY <1>5, PaidAssumption DEF WriteDeleted, CronWrite, EntitlementIsBacked
  <1>6. ASSUME MirrorWrite PROVE EntitlementIsBacked'
    <2>1. row \in Row /\ row' = [row EXCEPT !.cancel = mirror.want] /\ plan' = plan /\ mirror.want \in BOOLEAN
      BY <1>0, <1>6 DEF MirrorWrite, Typed, TypeOK, Mirror
    <2>2. row' \in Row /\ row'.plan = row.plan /\ row'.status = row.status
      BY <2>1 DEF Row
    <2> QED BY <2>1, <2>2, RowAssumption DEF EntitlementIsBacked
  <1> QED BY <1>1, <1>2, <1>3, <1>4, <1>5, <1>6, RowWrites

\* No workspace is on a paid plan without a live row of that plan, in whatever
\* order webhooks, requests and the cron write and wherever one of them fails.
THEOREM EntitlementHasARow == Spec => []EntitlementIsBacked
  <1>1. Init => EntitlementIsBacked
    BY PaidAssumption DEF Init, EntitlementIsBacked
  <1> QED BY <1>1, BackedStep, AlwaysTyped, PTL DEF Spec

-----------------------------------------------------------------------------
(* The sites of a workspace that fell to FREE.                             *)

\* Somebody will take the surplus down: the reason stays while the plan is FREE,
\* as only a checkout gives the row to another subscription.
Pending(i) == i \in Emitted \ done /\ events[i].kind = "deleted" /\ RowIs(events[i].sub)
Reconciles(h) == hook[h].pc \in {"reconcile", "unpublish"} /\ RowIs(EventOf(h).sub)
Blamed == cause \intersect {"stranded", "unreconciled", "republished"} # {}
Cared ==
  plan = "FREE" /\ over =>
    \/ cron \in {"reconcile", "unpublish"}
    \/ \E h \in Handlers : Reconciles(h)
    \/ \E i \in Emitted : Pending(i)
    \/ Blamed

\* A blame stays.
LEMMA BlameStays ==
  ASSUME Typed, [Next]_vars, Blamed
  PROVE  Blamed'
  <1> USE DEF database
  <1>1. CASE UNCHANGED vars
    BY <1>1 DEF vars, Blamed
  <1>2. CASE Customer \/ MirrorCall
    BY <1>2, CustomerTyped, MirrorCallTyped DEF Blamed
  <1>3. CASE \E h \in Handlers : \E i \in Emitted : Deliver(h, i)
    BY <1>3 DEF Deliver, Blamed
  <1>4. CASE \E h \in Handlers : Handle(h) \/ Fault(h)
    BY <1>4 DEF Handle, Fault, Retrieve, FindRow, RowMissing, Ignore, NotifyOwner, RowTaken,
                WriteInvoice, FindExcess, NoExcess, Unpublish, Release, HandlerFails, ClaimStrands,
                WriteCheckout, WriteUpdated, WritePaymentFailed, WriteDeleted, Written, Blamed
  <1>5. CASE (\E want \in BOOLEAN : MirrorRead(want)) \/ MirrorReplayed \/ MirrorRefused
             \/ MirrorWrite \/ MirrorWriteFails
    BY <1>5 DEF MirrorRead, MirrorReplayed, MirrorRefused, MirrorWrite, MirrorWriteFails, Blamed
  <1>6. CASE CronRead \/ CronGoes \/ CronDies \/ PublishMore
    BY <1>6 DEF CronRead, CronGoes, CronWrite, CronFindExcess, CronUnpublish, CronDies, PublishMore, Blamed
  <1> QED BY <1>1, <1>2, <1>3, <1>4, <1>5, <1>6 DEF Next, MirrorGoes

\* So does the subscription of the row, while the plan is FREE.
LEMMA RowStays ==
  ASSUME Typed, [Next]_vars, plan' = "FREE", NEW s \in Subs, RowIs(s)
  PROVE  RowIs(s)'
  <1>0. row \in Row /\ row.sub = s /\ row' \in Row \union {NoRow} /\ (row # NoRow => row' # NoRow)
    <2>1. row \in Row \union {NoRow} /\ row # NoRow /\ row.sub = s
      BY DEF Typed, TypeOK, RowIs
    <2>2. row' \in Row \union {NoRow}
      BY StepTyped DEF Typed, TypeOK
    <2>3. CASE UNCHANGED <<row, plan>>
      BY <2>1, <2>2, <2>3
    <2>4. CASE row' \in Row
      BY <2>1, <2>2, <2>4, RowAssumption
    <2>5. ASSUME NEW h \in Handlers, WriteCheckout(h) PROVE FALSE
      BY <2>5, PaidAssumption DEF WriteCheckout, Typed, HooksFit, HookFits
    <2>6. ASSUME (\E h \in Handlers : WriteUpdated(h) \/ WritePaymentFailed(h) \/ WriteDeleted(h))
                 \/ MirrorWrite \/ CronWrite
          PROVE  row' \in Row
      <3>1. row \in Row
        BY <2>1
      <3>2. ASSUME NEW h \in Handlers, WriteUpdated(h) PROVE row' \in Row
        <4>1. EventOf(h) \in Event /\ EventOf(h).at.status \in {"active", "past_due"}
          BY <3>2, WorkedOn DEF WriteUpdated, EventFits
        <4> QED BY <3>1, <3>2, <4>1, LocalTyped DEF WriteUpdated, Row, Event, Snapshot
      <3>3. ASSUME NEW h \in Handlers, WritePaymentFailed(h) \/ WriteDeleted(h) PROVE row' \in Row
        BY <3>1, <3>3 DEF WritePaymentFailed, WriteDeleted, Row
      <3>4. ASSUME MirrorWrite \/ CronWrite PROVE row' \in Row
        BY <3>1, <3>4 DEF MirrorWrite, CronWrite, Row, Typed, TypeOK, Mirror, Plans
      <3> QED BY <2>6, <3>2, <3>3, <3>4
    <2> QED BY <2>1, <2>2, <2>3, <2>4, <2>5, <2>6, RowWrites
  <1>1. row'.sub = s
    <2>1. ASSUME NEW h \in Handlers, WriteCheckout(h) PROVE FALSE
      BY <2>1, PaidAssumption DEF WriteCheckout, Typed, HooksFit, HookFits
    <2>2. ASSUME NEW h \in Handlers, WriteUpdated(h) \/ WritePaymentFailed(h) \/ WriteDeleted(h)
          PROVE  row'.sub = s
      BY <1>0, <2>2 DEF WriteUpdated, WritePaymentFailed, WriteDeleted, Row
    <2>3. ASSUME MirrorWrite \/ CronWrite PROVE row'.sub = s
      BY <1>0, <2>3 DEF MirrorWrite, CronWrite, Row
    <2> QED BY <1>0, <2>1, <2>2, <2>3, RowWrites
  <1> QED BY <1>0, <1>1 DEF RowIs, Typed, TypeOK

LEMMA CaredStep == Typed /\ HandledOnce /\ Cared /\ [Next]_vars => Cared'
  <1> SUFFICES ASSUME Typed, HandledOnce, Cared, [Next]_vars, plan' = "FREE", over', ~Blamed'
               PROVE  \/ cron' \in {"reconcile", "unpublish"}
                      \/ \E h \in Handlers : Reconciles(h)'
                      \/ \E i \in Emitted' : Pending(i)'
    BY DEF Cared
  <1> DEFINE Goal == \/ cron' \in {"reconcile", "unpublish"}
                     \/ \E h \in Handlers : Reconciles(h)'
                     \/ \E i \in Emitted' : Pending(i)'
  <1>0. ~Blamed
    BY BlameStays
  <1>1. ASSUME plan = "FREE", over
        PROVE  \/ cron \in {"reconcile", "unpublish"}
               \/ \E h \in Handlers : Reconciles(h)
               \/ \E i \in Emitted : Pending(i)
    BY <1>0, <1>1 DEF Cared
  <1>2. \A s \in Subs : RowIs(s) => RowIs(s)'
    BY RowStays
  <1>3. /\ \A i \in Emitted : events[i].sub \in Subs
        /\ \A h \in Handlers : hook[h].pc # "idle" => EventOf(h).sub \in Subs /\ hook[h].ev \in Emitted
    <2>1. ASSUME NEW i \in Emitted PROVE events[i].sub \in Subs
      <3>1. events \in Seq(Event) /\ i \in 1..Len(events)
        BY DEF Typed, TypeOK, Emitted
      <3>2. events[i] \in Event
        BY <3>1, ElementOfSeq
      <3> QED BY <3>2 DEF Event
    <2> QED BY <2>1, WorkedOn DEF EventOf
  \* Steps that leave the instances and the cron, and only add events.
  <1>4. ASSUME Emitted \subseteq Emitted', \A i \in Emitted : events'[i] = events[i],
               UNCHANGED <<hook, cron, done>>, plan = "FREE", over
        PROVE  Goal
    <2>1. CASE cron \in {"reconcile", "unpublish"}
      BY <1>4, <2>1
    <2>2. ASSUME NEW h \in Handlers, Reconciles(h) PROVE Reconciles(h)'
      BY <1>2, <1>3, <1>4, <2>2 DEF Reconciles, EventOf
    <2>3. ASSUME NEW i \in Emitted, Pending(i) PROVE i \in Emitted' /\ Pending(i)'
      BY <1>2, <1>3, <1>4, <2>3 DEF Pending
    <2> QED BY <1>1, <1>4, <2>1, <2>2, <2>3
  <1>5. CASE UNCHANGED vars
    BY <1>4, <1>5 DEF vars, database, Emitted, Goal
  <1>6. CASE Customer \/ MirrorCall
    BY <1>4, <1>6, CustomerTyped, MirrorCallTyped DEF Grows, database, Goal
  <1>7. CASE (\E want \in BOOLEAN : MirrorRead(want)) \/ MirrorReplayed \/ MirrorRefused
             \/ MirrorWrite \/ MirrorWriteFails
    <2>1. UNCHANGED <<events, hook, cron, done, plan, over>>
      BY <1>7 DEF MirrorRead, MirrorReplayed, MirrorRefused, MirrorWrite, MirrorWriteFails, database
    <2> QED BY <1>4, <2>1 DEF Emitted
  <1>8. CASE CronRead \/ CronGoes \/ CronDies \/ PublishMore
    <2>1. CASE CronWrite
      BY <2>1 DEF CronWrite
    <2>2. CASE CronRead \/ CronFindExcess \/ CronUnpublish \/ CronDies
      <3>1. /\ UNCHANGED <<events, hook, done, plan>> /\ over
            /\ (cron \in {"reconcile", "unpublish"} => cron' \in {"reconcile", "unpublish"})
        BY <1>0, <2>2 DEF CronRead, CronFindExcess, CronUnpublish, CronDies, database, Left, Blamed
      <3>2. ASSUME NEW h \in Handlers, Reconciles(h) PROVE Reconciles(h)'
        BY <1>2, <1>3, <3>1, <3>2 DEF Reconciles, EventOf
      <3>3. ASSUME NEW i \in Emitted, Pending(i) PROVE i \in Emitted' /\ Pending(i)'
        BY <1>2, <1>3, <3>1, <3>3 DEF Pending, Emitted
      <3> QED BY <1>1, <3>1, <3>2, <3>3
    <2>3. CASE PublishMore
      BY <2>3 DEF PublishMore, Blamed
    <2> QED BY <1>8, <2>1, <2>2, <2>3 DEF CronGoes
  <1>9. CASE \E h \in Handlers : \E i \in Emitted : Deliver(h, i)
    <2>1. PICK h \in Handlers, i \in Emitted : Deliver(h, i)
      BY <1>9
    <2>2. UNCHANGED <<events, cron, plan, over, done>> /\ hook[h].pc = "idle"
      BY <2>1 DEF Deliver
    <2>3. ASSUME NEW g \in Handlers, Reconciles(g) PROVE Reconciles(g)'
      BY <1>2, <1>3, <2>1, <2>2, <2>3, DeliverClaims DEF Reconciles, EventOf
    <2>4. ASSUME NEW j \in Emitted, Pending(j) PROVE j \in Emitted' /\ Pending(j)'
      BY <1>2, <1>3, <2>2, <2>4 DEF Pending, Emitted
    <2> QED BY <1>1, <2>2, <2>3, <2>4
  <1>10. ASSUME NEW h \in Handlers, Handle(h) \/ Fault(h) PROVE Goal
    <2>0. UNCHANGED <<events, cron>> /\ hook[h].pc # "idle" /\ \A g \in Handlers \ {h} : hook'[g] = hook[g]
      BY <1>10, RouteLeaves, RouteClaims
    <2>1. CASE WriteDeleted(h)
      <3>1. hook'[h].pc = "reconcile" /\ hook'[h].ev = hook[h].ev /\ RowIs(EventOf(h).sub)
        BY <2>1 DEF WriteDeleted, Goto, Typed, TypeOK, Hook
      <3> QED BY <1>2, <1>3, <2>0, <3>1 DEF Reconciles, EventOf
    <2>2. CASE ~WriteDeleted(h)
      <3>1. plan = "FREE" /\ over /\ ~Unpublish(h) /\ ~NoExcess(h) /\ ~ClaimStrands(h)
        <4>1. ~WriteCheckout(h)
          BY PaidAssumption DEF WriteCheckout, Typed, HooksFit, HookFits
        <4>2. ASSUME WriteUpdated(h) PROVE FALSE
          <5>1. EventOf(h).at.plan \in Paid /\ plan' = EventOf(h).at.plan
            BY <2>0, <4>2, WorkedOn DEF WriteUpdated, EventFits
          <5> QED BY <5>1, PaidAssumption
        <4>3. ~Unpublish(h)
          BY <1>0 DEF Unpublish, Left, Blamed
        <4>4. ~ClaimStrands(h)
          BY DEF ClaimStrands, Blamed
        <4>5. ~NoExcess(h)
          BY DEF NoExcess, database
        <4>6. UNCHANGED <<plan, over>>
          BY <1>10, <2>2, <4>1, <4>2, <4>3
          DEF Handle, Fault, Retrieve, FindRow, RowMissing, Ignore, WritePaymentFailed, NotifyOwner,
              RowTaken, WriteInvoice, FindExcess, NoExcess, Release, HandlerFails, ClaimStrands, database
        <4> QED BY <4>3, <4>4, <4>5, <4>6
      <3>2. ASSUME NEW g \in Handlers \ {h}, Reconciles(g) PROVE Reconciles(g)'
        BY <1>2, <1>3, <2>0, <3>2 DEF Reconciles, EventOf
      <3>3. ASSUME Reconciles(h) PROVE Goal
        <4>1. CASE FindExcess(h)
          <5>1. hook'[h].pc = "unpublish" /\ hook'[h].ev = hook[h].ev
            BY <4>1 DEF FindExcess, Goto, Typed, TypeOK, Hook
          <5> QED BY <1>2, <1>3, <2>0, <3>3, <5>1 DEF Reconciles, EventOf
        <4>2. CASE HandlerFails(h)
          <5>1. hook[h].ev \in Emitted \ done /\ EventOf(h).kind = "deleted" /\ done' = done
            BY <1>3, <3>3, <4>2 DEF HandledOnce, Working, Reconciles, Typed, HooksFit, HookFits, HandlerFails
          <5> QED BY <1>2, <1>3, <2>0, <3>3, <5>1 DEF Pending, Reconciles, EventOf, Emitted
        <4> QED BY <1>10, <2>2, <3>1, <3>3, <4>1, <4>2
            DEF Reconciles, Handle, Fault, Retrieve, FindRow, RowMissing, Ignore, WriteCheckout,
                WriteUpdated, WritePaymentFailed, NotifyOwner, RowTaken, WriteInvoice, Release
      <3>4. ASSUME NEW i \in Emitted, Pending(i) PROVE Goal
        <4>1. hook[h].ev = i =>
                ~Ignore(h) /\ ~WriteCheckout(h) /\ ~WriteUpdated(h) /\ ~NotifyOwner(h) /\ ~WriteInvoice(h)
          BY <3>4 DEF Pending, Ignore, WriteCheckout, WriteUpdated, NotifyOwner, WriteInvoice, EventOf,
                      Typed, HooksFit, HookFits
        <4>2. i \notin done'
          <5>1. CASE done' = done
            BY <3>4, <5>1 DEF Pending
          <5>2. CASE done' # done
            <6>1. \/ Ignore(h) \/ WriteCheckout(h) \/ WriteUpdated(h) \/ NotifyOwner(h) \/ WriteInvoice(h)
              BY <1>10, <2>2, <3>1, <5>2
              DEF Handle, Fault, Retrieve, FindRow, RowMissing, WritePaymentFailed, RowTaken, FindExcess,
                  Release, HandlerFails
            <6>2. done' = done \union {hook[h].ev}
              BY <6>1 DEF Ignore, WriteCheckout, WriteUpdated, NotifyOwner, WriteInvoice, Answer
            <6> QED BY <3>4, <4>1, <6>1, <6>2 DEF Pending
          <5> QED BY <5>1, <5>2
        <4> QED BY <1>2, <1>3, <2>0, <3>4, <4>2 DEF Pending, Emitted
      <3> QED BY <1>1, <2>0, <3>1, <3>2, <3>3, <3>4
    <2> QED BY <2>1, <2>2
  <1> QED BY <1>5, <1>6, <1>7, <1>8, <1>9, <1>10 DEF Next, MirrorGoes

\* A workspace on FREE keeps within FREE's sites, or somebody is about to see to it.
THEOREM FreeKeepsItsCap == Spec => []FreeIsWithinCap
  <1>1. Init => Cared /\ HandledOnce
    BY DEF Init, Cared, HandledOnce, Working, IdleHook
  <1>2. Cared => FreeIsWithinCap
    BY DEF Cared, FreeIsWithinCap, WillReconcile, Reconciles, Pending, Blamed
  <1> QED BY <1>1, <1>2, CaredStep, OnceStep, AlwaysTyped, PTL DEF Spec

-----------------------------------------------------------------------------
(* The row and Stripe.                                                     *)

\* Events are about subscriptions.
LEMMA EventSub ==
  ASSUME Typed
  PROVE  /\ Len(events) \in Nat
         /\ \A i \in Emitted : i \in Nat /\ events[i] \in Event /\ events[i].sub \in Subs
  <1>1. events \in Seq(Event)
    BY DEF Typed, TypeOK
  <1>2. Len(events) \in Nat
    BY <1>1, LenProperties
  <1>3. ASSUME NEW i \in Emitted PROVE i \in Nat /\ events[i] \in Event /\ events[i].sub \in Subs
    <2>1. events[i] \in Event
      BY <1>1, ElementOfSeq DEF Emitted
    <2> QED BY <1>2, <2>1 DEF Event, Emitted
  <1> QED BY <1>2, <1>3

Smaller == {p \in Nat \X Nat : p[1] < p[2]}

LEMMA SmallerIsWellFounded == IsWellFoundedOn(Smaller, Nat)
  BY NatLessThanWellFounded DEF OpToRel, Smaller

LEMMA LeastNatural ==
  ASSUME NEW T \in SUBSET Nat, T # {}
  PROVE  \E x \in T : \A y \in T : x <= y
  <1>1. \A a, b \in Nat : a < b => <<a, b>> \in Smaller
    BY DEF Smaller
  <1>2. PICK x \in T : \A y \in T : ~(<<y, x>> \in Smaller)
    BY SmallerIsWellFounded, WFMin
  <1>3. ASSUME NEW y \in T PROVE x <= y
    <2>1. x \in Nat /\ y \in Nat
      OBVIOUS
    <2>2. ~(y < x)
      BY <1>1, <1>2, <2>1
    <2> QED BY <2>1, <2>2
  <1> QED BY <1>3

\* Where there is an event of these kinds there is a newest one.
LEMMA NewestExists ==
  ASSUME Typed, NEW s \in Subs, NEW kinds, NEW i \in Emitted, Tells(i, s, kinds)
  PROVE  \E j \in Emitted : j >= i /\ Tells(j, s, kinds) /\ Newest(j, kinds)
  <1> DEFINE n == Len(events)
             D == {d \in Nat : n - d \in Emitted /\ Tells(n - d, s, kinds)}
  <1>1. n \in Nat /\ Emitted = 1..n /\ i \in Nat
    BY EventSub DEF Emitted
  <1> HIDE DEF n
  <1>2. n - i \in Nat /\ n - (n - i) = i
    BY <1>1
  <1>3. n - i \in D
    BY <1>2
  <1>4. PICK d \in D : \A e \in D : d <= e
    BY <1>3, LeastNatural
  <1> DEFINE j == n - d
  <1>6. d \in Nat /\ j \in Emitted /\ Tells(j, s, kinds)
    BY <1>4
  <1>7. j >= i
    <2>1. d <= n - i
      BY <1>3, <1>4
    <2> QED BY <1>1, <1>2, <1>6, <2>1
  <1>8. ASSUME NEW k \in Emitted, Tells(k, s, kinds) PROVE k <= j
    <2>1. k \in Nat /\ n - k \in Nat /\ n - (n - k) = k
      BY <1>1
    <2>2. n - k \in D
      BY <1>8, <2>1
    <2>3. d <= n - k
      BY <1>4, <2>2
    <2> QED BY <1>1, <1>6, <2>1, <2>3
  <1>9. events[j].sub = s
    BY <1>6 DEF Tells
  <1> HIDE DEF j, D
  <1>10. Newest(j, kinds)
    BY <1>8, <1>9 DEF Newest
  <1> QED BY <1>6, <1>7, <1>10

\* Stripe changes a subscription and tells of it: what it changed is in the events
\* it added, of which some are the newest of their kinds.
Fresh == Emitted' \ Emitted
Tidings(kinds) ==
  \E i \in Fresh : events'[i].kind \in kinds /\ \A j \in Fresh : events'[j].kind \in kinds => j <= i
NoTidings(kinds) == \A i \in Fresh : events'[i].kind \notin kinds
StripeTells(s, at) ==
  /\ stripe' = [stripe EXCEPT ![s] = at]
  /\ stripe[s].status \in {"session", "active", "past_due"}
  /\ at.status \notin {"none", "session"}
  /\ \A i \in Fresh :
       /\ i \in Nat /\ \A j \in Emitted : j < i
       /\ events'[i].sub = s /\ events'[i].at = at
       /\ events'[i].kind = "checkout" => at.status = "active" /\ stripe[s].status = "session"
       /\ events'[i].kind = "payment_failed" => at.status = "past_due"
       /\ events'[i].kind = "deleted" => at.status = "canceled"
  /\ stripe[s].status = "session" => \E i \in Fresh : events'[i].kind = "checkout" /\ Fresh = {i}
  /\ Tidings({"updated"}) \/ (NoTidings({"updated"}) /\ at.plan = stripe[s].plan /\ at.cancel = stripe[s].cancel)
  /\ Tidings(RowKinds) \/ (NoTidings(RowKinds) /\ at = stripe[s])

\* Or opens a session for one that nobody has heard of.
StripeOpens(s) ==
  /\ stripe[s].status = "none" /\ UNCHANGED events
  /\ stripe'[s].status = "session" /\ stripe'[s].cancel = FALSE
  /\ \A r \in Subs \ {s} : stripe'[r] = stripe[r]

\* The events a change adds.
LEMMA BecomesAdds ==
  ASSUME Typed, NEW s \in Subs, NEW at \in Snapshot, NEW kinds \in Seq(Kinds), Len(kinds) >= 1, Becomes(s, at, kinds)
  PROVE  LET n == Len(events) IN
         /\ n \in Nat /\ Fresh = (n + 1)..(n + Len(kinds))
         /\ \A i \in Fresh : events'[i].kind = kinds[i - n] /\ events'[i].sub = s /\ events'[i].at = at
         /\ \A i \in Fresh : i \in Nat /\ \A j \in Emitted : j < i
         /\ \A i \in Emitted : events'[i] = events[i]
  <1> DEFINE new == [i \in 1..Len(kinds) |-> [kind |-> kinds[i], sub |-> s, at |-> at]]
             n == Len(events)
  <1>1. Len(kinds) \in Nat /\ n \in Nat
    BY LenProperties, EventSub
  <1>2. events \in Seq(Event)
    BY DEF Typed, TypeOK
  <1>3. \A i \in 1..Len(kinds) : new[i] \in Event
    <2>1. \A i \in 1..Len(kinds) : kinds[i] \in Kinds
      BY <1>1, ElementOfSeq
    <2> QED BY <2>1 DEF Event
  <1>4. new \in Seq(Event) /\ Len(new) = Len(kinds)
    BY <1>1, <1>3
  <1>5. events' = events \o new
    BY DEF Becomes
  <1>6. \A i \in 1..Len(kinds) : new[i].kind = kinds[i] /\ new[i].sub = s /\ new[i].at = at
    OBVIOUS
  <1> HIDE DEF new
  <1>7. /\ Len(events') = n + Len(kinds)
        /\ \A i \in 1..(n + Len(kinds)) : events'[i] = IF i <= n THEN events[i] ELSE new[i - n]
    <2>1. /\ Len(events') = Len(events) + Len(new)
          /\ \A i \in 1..(Len(events) + Len(new)) :
               events'[i] = IF i <= Len(events) THEN events[i] ELSE new[i - Len(events)]
      BY <1>2, <1>4, <1>5, ConcatProperties
    <2> QED BY <1>4, <2>1
  <1> HIDE DEF n
  <1>8. Emitted = 1..n /\ Emitted' = 1..(n + Len(kinds))
    BY <1>7 DEF Emitted, n
  <1>9. Fresh = (n + 1)..(n + Len(kinds))
    BY <1>1, <1>8 DEF Fresh
  <1>10. \A i \in Fresh : i - n \in 1..Len(kinds) /\ events'[i] = new[i - n]
    BY <1>1, <1>7, <1>9
  <1>11. \A i \in Fresh : i \in Nat /\ \A j \in Emitted : j < i
    BY <1>1, <1>8, <1>9
  <1>12. \A i \in Emitted : events'[i] = events[i]
    BY <1>1, <1>7, <1>8
  <1>13. \A i \in Fresh : events'[i].kind = kinds[i - n] /\ events'[i].sub = s /\ events'[i].at = at
    BY <1>6, <1>10
  <1> QED BY <1>1, <1>9, <1>11, <1>12, <1>13 DEF n

\* What customers do at Stripe is told, or opens a session.
LEMMA BecomesTells ==
  ASSUME Typed, NEW s \in Subs, NEW at \in Snapshot, NEW kinds \in Seq(Kinds), Becomes(s, at, kinds),
         stripe[s].status \in {"session", "active", "past_due"}, at.status \notin {"none", "session"},
         Len(kinds) \in {1, 2},
         kinds[1] = "checkout" => Len(kinds) = 1 /\ stripe[s].status = "session" /\ at.status = "active",
         stripe[s].status = "session" => kinds[1] = "checkout",
         kinds[1] = "payment_failed" => at.status = "past_due",
         kinds[1] = "deleted" => at.status = "canceled",
         Len(kinds) = 2 => kinds[2] = "updated" /\ kinds[1] # "updated",
         Len(kinds) = 1 /\ kinds[1] # "updated" => at.plan = stripe[s].plan /\ at.cancel = stripe[s].cancel,
         Len(kinds) = 1 /\ kinds[1] = "paid" => at = stripe[s]
  PROVE  StripeTells(s, at)
  <1> DEFINE n == Len(events)
  <1>1. /\ n \in Nat /\ Fresh = (n + 1)..(n + Len(kinds))
        /\ \A i \in Fresh : events'[i].kind = kinds[i - n] /\ events'[i].sub = s /\ events'[i].at = at
        /\ \A i \in Fresh : i \in Nat /\ \A j \in Emitted : j < i
    BY BecomesAdds
  <1>2. stripe' = [stripe EXCEPT ![s] = at]
    BY DEF Becomes
  <1>3. kinds[1] \in Kinds /\ (Len(kinds) = 2 => kinds[2] \in Kinds)
    BY ElementOfSeq
  <1> HIDE DEF n
  <1>4. CASE Len(kinds) = 1
    <2>1. Fresh = {n + 1} /\ events'[n + 1].kind = kinds[1]
      <3>1. (n + 1) - n = 1 /\ (n + 1)..(n + 1) = {n + 1}
        BY <1>1
      <3> QED BY <1>1, <1>4, <3>1
    <2>2. \A i \in Fresh : events'[i].kind = kinds[1]
      BY <2>1
    <2>3. n + 1 <= n + 1
      BY <1>1
    <2>4. \A K : Tidings(K) \/ NoTidings(K)
      BY <2>1, <2>3 DEF Tidings, NoTidings
    <2>5. Tidings({"updated"}) \/ (NoTidings({"updated"}) /\ at.plan = stripe[s].plan /\ at.cancel = stripe[s].cancel)
      BY <1>4, <2>1, <2>2, <2>3 DEF Tidings, NoTidings
    <2>6. Tidings(RowKinds) \/ (NoTidings(RowKinds) /\ at = stripe[s])
      BY <1>3, <1>4, <2>1, <2>2, <2>3 DEF Tidings, NoTidings, RowKinds
    <2>7. stripe[s].status = "session" => \E i \in Fresh : events'[i].kind = "checkout" /\ Fresh = {i}
      BY <2>1
    <2> QED BY <1>1, <1>2, <1>4, <2>2, <2>5, <2>6, <2>7 DEF StripeTells
  <1>5. CASE Len(kinds) = 2
    <2>1. /\ Fresh = {n + 1, n + 2} /\ n + 1 <= n + 2 /\ n + 2 <= n + 2
          /\ events'[n + 1].kind = kinds[1] /\ events'[n + 2].kind = "updated"
      <3>1. (n + 1) - n = 1 /\ (n + 2) - n = 2 /\ (n + 1)..(n + 2) = {n + 1, n + 2}
        BY <1>1
      <3> QED BY <1>1, <1>5, <3>1
    <2>2. Tidings({"updated"}) /\ Tidings(RowKinds)
      BY <2>1 DEF Tidings, RowKinds, Kinds
    <2>3. \A i \in Fresh : events'[i].kind = kinds[1] \/ events'[i].kind = "updated"
      BY <2>1
    <2>4. kinds[1] # "checkout" /\ stripe[s].status # "session"
      BY <1>5
    <2>5. \A i \in Fresh :
             /\ i \in Nat /\ \A j \in Emitted : j < i
             /\ events'[i].sub = s /\ events'[i].at = at
      BY <1>1
    <2>6. \A i \in Fresh :
             /\ events'[i].kind # "checkout"
             /\ events'[i].kind = "payment_failed" => at.status = "past_due"
             /\ events'[i].kind = "deleted" => at.status = "canceled"
      BY <2>3, <2>4
    <2> QED BY <1>2, <2>2, <2>4, <2>5, <2>6 DEF StripeTells
  <1> QED BY <1>4, <1>5

LEMMA CustomerTells ==
  ASSUME Typed, Customer
  PROVE  \E s \in Subs : StripeOpens(s) \/ \E at \in Snapshot : StripeTells(s, at)
  <1> DEFINE Goal == \E s \in Subs : StripeOpens(s) \/ \E at \in Snapshot : StripeTells(s, at)
  <1>0. \A s \in Subs : stripe[s] \in Snapshot
    BY DEF Typed, TypeOK
  <1>1. ASSUME NEW s \in Subs, NEW p \in Paid, OpenSession(s, p) PROVE Goal
    BY <1>1 DEF OpenSession, StripeOpens, Typed, TypeOK
  <1>2. /\ <<"checkout">> \in Seq(Kinds) /\ <<"updated">> \in Seq(Kinds)
        /\ <<"paid">> \in Seq(Kinds) /\ <<"deleted">> \in Seq(Kinds)
        /\ <<"payment_failed", "updated">> \in Seq(Kinds) /\ <<"paid", "updated">> \in Seq(Kinds)
    BY DEF Kinds
  <1>3. /\ Len(<<"checkout">>) = 1 /\ <<"checkout">>[1] = "checkout"
        /\ Len(<<"updated">>) = 1 /\ <<"updated">>[1] = "updated"
        /\ Len(<<"paid">>) = 1 /\ <<"paid">>[1] = "paid"
        /\ Len(<<"deleted">>) = 1 /\ <<"deleted">>[1] = "deleted"
        /\ Len(<<"payment_failed", "updated">>) = 2
        /\ <<"payment_failed", "updated">>[1] = "payment_failed" /\ <<"payment_failed", "updated">>[2] = "updated"
        /\ Len(<<"paid", "updated">>) = 2
        /\ <<"paid", "updated">>[1] = "paid" /\ <<"paid", "updated">>[2] = "updated"
    OBVIOUS
  <1>4. ASSUME NEW s \in Subs, NEW p \in Paid, PortalPlan(s, p) PROVE Goal
    <2>1. [stripe[s] EXCEPT !.plan = p] \in Snapshot /\ [stripe[s] EXCEPT !.plan = p].status = "active"
      BY <1>0, <1>4 DEF PortalPlan, Snapshot, Plans
    <2> QED BY <1>2, <1>3, <1>4, <2>1, BecomesTells DEF PortalPlan
  <1>5. ASSUME NEW s \in Subs, PaySession(s) PROVE Goal
    <2> DEFINE at == [stripe[s] EXCEPT !.status = "active"]
    <2>1. at \in Snapshot /\ at.status = "active" /\ at.plan = stripe[s].plan /\ at.cancel = stripe[s].cancel
      BY <1>0 DEF Snapshot
    <2>2. stripe[s].status = "session" /\ Becomes(s, at, <<"checkout">>)
      BY <1>5 DEF PaySession
    <2> HIDE DEF at
    <2>3. StripeTells(s, at)
      BY <1>2, <1>3, <2>1, <2>2, BecomesTells
    <2> QED BY <2>1, <2>3
  <1>6. ASSUME NEW s \in Subs, PortalCancel(s) PROVE Goal
    <2> DEFINE at == [stripe[s] EXCEPT !.cancel = ~@]
    <2>1. at \in Snapshot /\ at.status = stripe[s].status
      BY <1>0 DEF Snapshot
    <2>2. stripe[s].status = "active" /\ Becomes(s, at, <<"updated">>)
      BY <1>6 DEF PortalCancel
    <2> HIDE DEF at
    <2>3. StripeTells(s, at)
      BY <1>2, <1>3, <2>1, <2>2, BecomesTells
    <2> QED BY <2>1, <2>3
  <1>7. ASSUME NEW s \in Subs, PaymentFails(s) PROVE Goal
    <2> DEFINE at == [stripe[s] EXCEPT !.status = "past_due"]
    <2>1. at \in Snapshot /\ at.status = "past_due"
      BY <1>0 DEF Snapshot
    <2>2. stripe[s].status = "active" /\ Becomes(s, at, <<"payment_failed", "updated">>)
      BY <1>7 DEF PaymentFails
    <2> HIDE DEF at
    <2>3. StripeTells(s, at)
      BY <1>2, <1>3, <2>1, <2>2, BecomesTells
    <2> QED BY <2>1, <2>3
  <1>8. ASSUME NEW s \in Subs, PaymentSucceeds(s) PROVE Goal
    <2> DEFINE at == [stripe[s] EXCEPT !.status = "active"]
    <2>1. /\ at \in Snapshot /\ at.status = "active" /\ at.plan = stripe[s].plan /\ at.cancel = stripe[s].cancel
          /\ stripe[s].status = "active" => at = stripe[s]
      BY <1>0 DEF Snapshot
    <2>2. stripe[s].status \in {"active", "past_due"}
      BY <1>8 DEF PaymentSucceeds
    <2>3. Becomes(s, at, IF stripe[s].status = "active" THEN <<"paid">> ELSE <<"paid", "updated">>)
      BY <1>8 DEF PaymentSucceeds
    <2> HIDE DEF at
    <2>4. CASE stripe[s].status = "active"
      <3>1. Becomes(s, at, <<"paid">>)
        BY <2>3, <2>4
      <3>2. StripeTells(s, at)
        BY <1>2, <1>3, <2>1, <2>2, <2>4, <3>1, BecomesTells
      <3> QED BY <2>1, <3>2
    <2>5. CASE stripe[s].status # "active"
      <3>1. Becomes(s, at, <<"paid", "updated">>)
        BY <2>3, <2>5
      <3>2. StripeTells(s, at)
        BY <1>2, <1>3, <2>1, <2>2, <2>5, <3>1, BecomesTells
      <3> QED BY <2>1, <3>2
    <2> QED BY <2>4, <2>5
  <1>9. ASSUME NEW s \in Subs, SubscriptionEnds(s) PROVE Goal
    <2> DEFINE at == [stripe[s] EXCEPT !.status = "canceled"]
    <2>1. at \in Snapshot /\ at.status = "canceled" /\ at.plan = stripe[s].plan /\ at.cancel = stripe[s].cancel
      BY <1>0 DEF Snapshot
    <2>2. stripe[s].status \in {"active", "past_due"} /\ Becomes(s, at, <<"deleted">>)
      BY <1>9 DEF SubscriptionEnds
    <2> HIDE DEF at
    <2>3. StripeTells(s, at)
      BY <1>2, <1>3, <2>1, <2>2, BecomesTells
    <2> QED BY <2>1, <2>3
  <1> QED BY <1>1, <1>4, <1>5, <1>6, <1>7, <1>8, <1>9 DEF Customer

\* So is what the request does there.
LEMMA MirrorCallTells ==
  ASSUME Typed, MirrorCall
  PROVE  \E at \in Snapshot :
           StripeTells(mirror.sub, at) /\ at.cancel = mirror.want
  <1> DEFINE s == mirror.sub
             at == [stripe[s] EXCEPT !.cancel = mirror.want]
             e == [kind |-> "updated", sub |-> s, at |-> at]
             n == Len(events)
  <1>1. mirror \in Mirror /\ stripe[s].status \in {"active", "past_due"} /\ s \in Subs
    BY DEF MirrorCall, Typed, TypeOK, MirrorFits
  <1>2. stripe[s] \in Snapshot
    BY <1>1 DEF Typed, TypeOK
  <1>3. at \in Snapshot /\ at.status = stripe[s].status /\ at.cancel = mirror.want
    BY <1>1, <1>2 DEF Snapshot, Mirror
  <1>4. e \in Event /\ e.kind = "updated" /\ e.sub = s /\ e.at = at
    BY <1>1, <1>3 DEF Event, Kinds
  <1>5. stripe' = [stripe EXCEPT ![s] = at] /\ events' = IF at = stripe[s] THEN events ELSE Append(events, e)
    BY DEF MirrorCall
  <1>6. events \in Seq(Event) /\ n \in Nat
    BY EventSub DEF Typed, TypeOK
  <1> HIDE DEF at, e
  <1>7. CASE at = stripe[s]
    <2>1. Fresh = {}
      BY <1>5, <1>7 DEF Fresh, Emitted
    <2> QED BY <1>1, <1>3, <1>5, <1>7, <2>1 DEF StripeTells, NoTidings
  <1>8. CASE at # stripe[s]
    <2>1. /\ Len(events') = n + 1 /\ events'[n + 1] = e
      BY <1>4, <1>5, <1>6, <1>8
    <2> HIDE DEF n
    <2>2. Emitted = 1..n /\ Emitted' = 1..(n + 1)
      BY <2>1 DEF Emitted, n
    <2>3. Fresh = {n + 1} /\ n + 1 <= n + 1 /\ n + 1 \in Nat /\ \A j \in Emitted : j < n + 1
      BY <1>6, <2>2 DEF Fresh
    <2>4. Tidings({"updated"}) /\ Tidings(RowKinds)
      BY <1>4, <2>1, <2>3 DEF Tidings, RowKinds, Kinds
    <2> QED BY <1>1, <1>3, <1>4, <1>5, <2>1, <2>3, <2>4 DEF StripeTells
  <1> QED BY <1>7, <1>8

\* What Stripe has stays told.
LEMMA ToldStays ==
  ASSUME Typed, EventsTell, Grows, NEW s \in Subs, NEW at \in Snapshot, StripeTells(s, at)
  PROVE  EventsTell'
  <1>0. /\ stripe' = [stripe EXCEPT ![s] = at] /\ stripe \in [Subs -> Snapshot]
        /\ stripe[s].status \in {"session", "active", "past_due"} /\ at.status \notin {"none", "session"}
    BY DEF StripeTells, Typed, TypeOK
  <1>1. stripe'[s] = at /\ \A r \in Subs : r # s => stripe'[r] = stripe[r]
    BY <1>0
  <1>2. /\ \A i \in Emitted : i \in Emitted' /\ events'[i] = events[i] /\ i \in Nat /\ events[i].sub \in Subs
        /\ \A i \in Emitted' : i \in Emitted \/ i \in Fresh
    BY EventSub DEF Grows, Fresh
  <1>3. \A i \in Fresh :
          /\ i \in Emitted' /\ i \in Nat /\ \A j \in Emitted : j < i
          /\ events'[i].sub = s /\ events'[i].at = at
          /\ events'[i].kind = "checkout" => at.status = "active" /\ stripe[s].status = "session"
          /\ events'[i].kind = "payment_failed" => at.status = "past_due"
          /\ events'[i].kind = "deleted" => at.status = "canceled"
    BY DEF StripeTells, Fresh
  <1>4. ASSUME NEW i \in Emitted, events[i].sub = s PROVE events[i].kind # "deleted" /\ stripe[s].status # "session"
    BY <1>0, <1>4 DEF EventsTell
  <1>5. ASSUME NEW i \in Emitted', events'[i].kind = "updated", Newest(i, {"updated"})'
        PROVE  /\ events'[i].at.plan = stripe'[events'[i].sub].plan
               /\ events'[i].at.cancel = stripe'[events'[i].sub].cancel
    <2>1. CASE i \in Fresh
      BY <1>1, <1>3, <2>1
    <2>2. CASE i \in Emitted
      <3>1. Newest(i, {"updated"}) /\ events[i].kind = "updated"
        BY <1>2, <1>5, <2>2 DEF Newest, Tells
      <3>2. events[i].at.plan = stripe[events[i].sub].plan /\ events[i].at.cancel = stripe[events[i].sub].cancel
        BY <2>2, <3>1 DEF EventsTell
      <3>3. CASE events[i].sub # s
        BY <1>1, <1>2, <2>2, <3>2, <3>3
      <3>4. CASE events[i].sub = s
        <4>1. ASSUME Tidings({"updated"}) PROVE FALSE
          <5>1. PICK j \in Fresh : events'[j].kind = "updated"
            BY <4>1 DEF Tidings
          <5>2. j <= i
            BY <1>2, <1>3, <1>5, <2>2, <3>4, <5>1 DEF Newest, Tells
          <5> QED BY <1>2, <1>3, <2>2, <5>2
        <4> QED BY <1>1, <1>2, <2>2, <3>2, <3>4, <4>1 DEF StripeTells
      <3> QED BY <3>3, <3>4
    <2> QED BY <1>2, <2>1, <2>2
  <1>6. ASSUME NEW i \in Emitted', events'[i].kind \in RowKinds, Newest(i, RowKinds)'
        PROVE  events'[i].at = stripe'[events'[i].sub]
    <2>1. CASE i \in Fresh
      BY <1>1, <1>3, <2>1
    <2>2. CASE i \in Emitted
      <3>1. Newest(i, RowKinds) /\ events[i].kind \in RowKinds
        BY <1>2, <1>6, <2>2 DEF Newest, Tells
      <3>2. events[i].at = stripe[events[i].sub]
        BY <2>2, <3>1 DEF EventsTell
      <3>3. CASE events[i].sub # s
        BY <1>1, <1>2, <2>2, <3>2, <3>3
      <3>4. CASE events[i].sub = s
        <4>1. ASSUME Tidings(RowKinds) PROVE FALSE
          <5>1. PICK j \in Fresh : events'[j].kind \in RowKinds
            BY <4>1 DEF Tidings
          <5>2. j <= i
            BY <1>2, <1>3, <1>6, <2>2, <3>4, <5>1 DEF Newest, Tells
          <5> QED BY <1>2, <1>3, <2>2, <5>2
        <4> QED BY <1>1, <1>2, <2>2, <3>2, <3>4, <4>1 DEF StripeTells
      <3> QED BY <3>3, <3>4
    <2> QED BY <1>2, <2>1, <2>2
  <1>7. ASSUME NEW i \in Emitted'
        PROVE  /\ stripe'[events'[i].sub].status \notin {"none", "session"}
               /\ events'[i].kind = "checkout" => events'[i].at.status = "active"
               /\ events'[i].kind = "payment_failed" => events'[i].at.status = "past_due"
               /\ events'[i].kind = "deleted" =>
                    events'[i].at.status = "canceled" /\ stripe'[events'[i].sub].status = "canceled"
    <2>1. CASE i \in Fresh
      BY <1>0, <1>1, <1>3, <2>1
    <2>2. CASE i \in Emitted
      <3>1. /\ stripe[events[i].sub].status \notin {"none", "session"}
            /\ events[i].kind = "checkout" => events[i].at.status = "active"
            /\ events[i].kind = "payment_failed" => events[i].at.status = "past_due"
            /\ events[i].kind = "deleted" =>
                 events[i].at.status = "canceled" /\ stripe[events[i].sub].status = "canceled"
        BY <2>2 DEF EventsTell
      <3> QED BY <1>0, <1>1, <1>2, <1>4, <2>2, <3>1
    <2> QED BY <1>2, <2>1, <2>2
  <1>8. ASSUME NEW i \in Emitted', events'[i].kind = "checkout", NEW j \in Emitted', events'[j].sub = events'[i].sub
        PROVE  i <= j
    <2>1. CASE i \in Fresh
      <3>1. stripe[s].status = "session" /\ events'[i].sub = s
        BY <1>3, <1>8, <2>1
      <3>2. j \in Fresh
        BY <1>2, <1>4, <1>8, <3>1
      <3>3. PICK k \in Fresh : Fresh = {k}
        BY <3>1 DEF StripeTells
      <3> QED BY <1>3, <2>1, <3>2, <3>3
    <2>2. CASE i \in Emitted /\ j \in Fresh
      BY <1>2, <1>3, <2>2
    <2>3. CASE i \in Emitted /\ j \in Emitted
      BY <1>2, <1>8, <2>3 DEF EventsTell
    <2> QED BY <1>2, <2>1, <2>2, <2>3
  <1>9. ASSUME NEW r \in Subs, stripe'[r].status \notin {"none", "session"}
        PROVE  \E i \in Emitted' : Tells(i, r, {"checkout"})'
    <2>1. CASE stripe[r].status \notin {"none", "session"}
      <3>1. PICK i \in Emitted : Tells(i, r, {"checkout"})
        BY <2>1 DEF EventsTell
      <3> QED BY <1>2, <3>1 DEF Tells
    <2>2. CASE r = s /\ stripe[s].status = "session"
      <3>1. PICK i \in Fresh : events'[i].kind = "checkout"
        BY <2>2 DEF StripeTells
      <3> QED BY <1>3, <2>2, <3>1 DEF Tells
    <2> QED BY <1>0, <1>1, <1>9, <2>1, <2>2
  <1>10. ASSUME NEW r \in Subs, stripe'[r].cancel
         PROVE  \E i \in Emitted' : Tells(i, r, {"updated"})'
    <2>1. CASE stripe[r].cancel
      <3>1. PICK i \in Emitted : Tells(i, r, {"updated"})
        BY <2>1 DEF EventsTell
      <3> QED BY <1>2, <3>1 DEF Tells
    <2>2. CASE r = s /\ Tidings({"updated"})
      <3>1. PICK i \in Fresh : events'[i].kind \in {"updated"}
        BY <2>2 DEF Tidings
      <3> QED BY <1>3, <2>2, <3>1 DEF Tells
    <2>3. CASE r = s /\ ~Tidings({"updated"})
      <3>1. at.cancel = stripe[s].cancel
        BY <2>3 DEF StripeTells
      <3> QED BY <1>1, <1>10, <2>1, <2>3, <3>1
    <2>4. CASE r # s
      BY <1>1, <1>10, <2>1, <2>4
    <2> QED BY <2>2, <2>3, <2>4
  <1> HIDE DEF Tells, Newest
  <1> QED BY <1>5, <1>6, <1>7, <1>8, <1>9, <1>10 DEF EventsTell

\* A session is nothing to tell of.
LEMMA OpenedStays ==
  ASSUME Typed, EventsTell, NEW s \in Subs, StripeOpens(s)
  PROVE  /\ EventsTell' /\ \A i \in Emitted : events[i].sub # s
         /\ \A r \in Subs : stripe'[r].cancel = stripe[r].cancel
  <1>1. \A i \in Emitted : events[i].sub # s /\ events[i].sub \in Subs
    BY EventSub DEF EventsTell, StripeOpens
  <1>2. stripe[s].cancel = FALSE
    <2>1. stripe[s].cancel \in BOOLEAN
      BY DEF Typed, TypeOK, Snapshot
    <2>2. ~stripe[s].cancel
      BY <1>1 DEF EventsTell, Tells
    <2> QED BY <2>1, <2>2
  <1>3. events' = events /\ Emitted' = Emitted
    BY DEF StripeOpens, Emitted
  <1>4. \A r \in Subs : r # s => stripe'[r] = stripe[r]
    BY DEF StripeOpens
  <1>5. stripe'[s].status = "session" /\ stripe'[s].cancel = FALSE
    BY DEF StripeOpens
  <1>6. EventsTell'
    BY <1>1, <1>3, <1>4, <1>5 DEF EventsTell, Tells, Newest
  <1> QED BY <1>1, <1>2, <1>4, <1>5, <1>6

\* A newest event stays the newest where nothing new is told.
LEMMA UntoldStays ==
  ASSUME Typed, Grows, written' = written, NEW r \in Subs, NEW kinds, Untold(r, kinds),
         \A i \in Fresh : events'[i].sub = r => events'[i].kind \notin kinds
  PROVE  Untold(r, kinds)'
  <1>1. PICK i \in Emitted \ written : Tells(i, r, kinds) /\ Newest(i, kinds)
    BY DEF Untold
  <1>2. i \in Emitted' \ written' /\ events'[i] = events[i]
    BY <1>1 DEF Grows
  <1>3. \A j \in Emitted' : j \in Fresh \/ (j \in Emitted /\ events'[j] = events[j])
    BY DEF Grows, Fresh
  <1>4. Tells(i, r, kinds)'
    BY <1>1, <1>2 DEF Tells
  <1>5. events[i].sub = r
    BY <1>1 DEF Tells
  <1>6. Newest(i, kinds)'
    BY <1>1, <1>2, <1>3, <1>5 DEF Newest, Tells
  <1> QED BY <1>2, <1>4, <1>6 DEF Untold

\* What was just told nobody has written.
LEMMA TidingsAreUntold ==
  ASSUME Typed, Grows, written' = written, NEW s \in Subs, NEW at \in Snapshot, StripeTells(s, at),
         NEW kinds, Tidings(kinds)
  PROVE  Untold(s, kinds)'
  <1>1. PICK i \in Fresh : events'[i].kind \in kinds /\ \A j \in Fresh : events'[j].kind \in kinds => j <= i
    BY DEF Tidings
  <1>2. /\ i \in Emitted' \ Emitted /\ i \in Nat /\ events'[i].sub = s
        /\ \A j \in Emitted : j < i /\ j \in Nat
    BY <1>1, EventSub DEF StripeTells, Fresh
  <1>3. i \notin written'
    BY <1>2 DEF Typed, TypeOK
  <1>4. \A j \in Emitted' : j \in Fresh \/ j \in Emitted
    BY DEF Fresh
  <1>5. Newest(i, kinds)'
    BY <1>1, <1>2, <1>4 DEF Newest, Tells
  <1> QED BY <1>1, <1>2, <1>3, <1>5 DEF Untold, Tells

\* Of what it changed it told: plan and cancellation in an update, the status in any.
LEMMA ChangesAreTold ==
  ASSUME NEW s, NEW at, StripeTells(s, at)
  PROVE  /\ stripe' = [stripe EXCEPT ![s] = at]
         /\ \/ Tidings({"updated"})
            \/ NoTidings({"updated"}) /\ at.plan = stripe[s].plan /\ at.cancel = stripe[s].cancel
         /\ Tidings(RowKinds) \/ (NoTidings(RowKinds) /\ at = stripe[s])
  BY Zenon DEF StripeTells

\* While Stripe tells of a change, or opens a session, what the handlers know stays true ...
LEMMA StripeKeepsHandlers ==
  ASSUME Typed, EventsTell, HandlersTell, Grows, UNCHANGED <<row, hook, written, done>>,
         NEW s \in Subs, StripeOpens(s) \/ \E at \in Snapshot : StripeTells(s, at)
  PROVE  HandlersTell'
  <1>1. \A i \in Emitted : i \in Emitted' /\ events'[i] = events[i]
    BY DEF Grows
  <1>2. written \subseteq Emitted /\ done \subseteq Emitted
    BY DEF Typed, TypeOK, DoneFits
  <1>3. \A h \in Handlers : hook[h].pc # "idle" =>
          hook[h].ev \in Emitted /\ EventOf(h)' = EventOf(h) /\ EventOf(h).sub \in Subs
    BY <1>1, EventSub DEF Typed, TypeOK, EventOf
  <1>4. ASSUME NEW h \in Handlers, hook[h].pc = "found", EventOf(h).kind = "checkout",
                NEW r \in Subs, EventOf(h).sub = r
        PROVE  \/ hook[h].plan = stripe'[r].plan
               \/ \E i \in Emitted' : Tells(i, r, {"updated"})'
    <2>1. CASE \E i \in Emitted : Tells(i, r, {"updated"})
      BY <1>1, <2>1 DEF Tells
    <2>2. CASE hook[h].plan = stripe[r].plan
      <3>1. CASE r # s
        <4>1. stripe'[r] = stripe[r]
          BY <1>3, <1>4, <3>1 DEF StripeOpens, StripeTells, Typed, TypeOK
        <4> QED BY <2>2, <4>1
      <3>2. CASE r = s
        <4>1. PICK at \in Snapshot : StripeTells(s, at)
          BY <1>3, <1>4, <3>2, OpenedStays DEF EventOf
        <4>2. stripe'[s] = at
          BY <4>1 DEF StripeTells, Typed, TypeOK
        <4>3. CASE Tidings({"updated"})
          <5>1. PICK i \in Fresh : events'[i].kind = "updated"
            BY <4>3 DEF Tidings
          <5>2. i \in Emitted' /\ events'[i].sub = s
            BY <4>1 DEF StripeTells, Fresh
          <5> QED BY <3>2, <5>1, <5>2 DEF Tells
        <4> QED BY <2>2, <3>2, <4>1, <4>2, <4>3 DEF StripeTells
      <3> QED BY <3>1, <3>2
    <2> QED BY <1>4, <2>1, <2>2 DEF HandlersTell
  <1>5. ASSUME NEW h \in Handlers, hook[h].pc = "found", EventOf(h)'.kind = "checkout"
        PROVE  \/ hook[h].plan = stripe'[EventOf(h)'.sub].plan
               \/ \E i \in Emitted' : Tells(i, EventOf(h).sub, {"updated"})'
    <2>1. EventOf(h)' = EventOf(h) /\ EventOf(h).kind = "checkout" /\ EventOf(h).sub \in Subs
      BY <1>3, <1>5
    <2>2. PICK r \in Subs : EventOf(h).sub = r
      BY <2>1
    <2>3. \/ hook[h].plan = stripe'[r].plan
          \/ \E i \in Emitted' : Tells(i, r, {"updated"})'
      BY <1>4, <1>5, <2>1, <2>2
    <2> QED BY <2>1, <2>2, <2>3 DEF Tells
  <1>6. ASSUME NEW h \in Handlers, hook[h].pc \in {"notify", "reconcile", "unpublish"} PROVE hook[h].ev \in written
    BY <1>6 DEF HandlersTell
  <1>7. \A i \in done : events'[i].kind \in RowKinds => i \in written
    BY <1>1, <1>2 DEF HandlersTell
  <1>8. ASSUME NEW i \in written
        PROVE  /\ events'[i].kind = "checkout" => i \in done /\ row # NoRow
               /\ events'[i].kind = "updated" => \E c \in written : Tells(c, events[i].sub, {"checkout"})'
    <2>1. events'[i] = events[i]
      BY <1>1, <1>2
    <2>2. events[i].kind = "updated" => \E c \in written : Tells(c, events[i].sub, {"checkout"})
      BY DEF HandlersTell
    <2>3. events[i].kind = "updated" => \E c \in written : Tells(c, events[i].sub, {"checkout"})'
      BY <1>1, <1>2, <2>1, <2>2 DEF Tells
    <2> QED BY <2>1, <2>3 DEF HandlersTell
  <1>9. ASSUME row # NoRow PROVE \E c \in written : Tells(c, row.sub, {"checkout"})'
    BY <1>1, <1>2, <1>9 DEF HandlersTell, Tells
  <1> QED BY <1>5, <1>6, <1>7, <1>8, <1>9 DEF HandlersTell, Tells

\* ... and so does what is true of the row.
LEMMA StripeKeepsRow ==
  ASSUME Typed, EventsTell, HandlersTell, RowTells, Grows, UNCHANGED <<row, plan, written, cause>>,
         NEW s \in Subs, StripeOpens(s) \/ \E at \in Snapshot : StripeTells(s, at)
  PROVE  RowTells'
  <1> SUFFICES ASSUME row # NoRow, cause \intersect {"overtaken", "replayed", "late"} = {}
               PROVE  /\ row.cancel = stripe'[row.sub].cancel \/ Untold(row.sub, {"updated"})'
                      /\ "downgraded" \notin cause =>
                           /\ row.plan = stripe'[row.sub].plan \/ Untold(row.sub, {"updated"})'
                           /\ row.status = Local(stripe'[row.sub].status) \/ Untold(row.sub, RowKinds)'
                           /\ plan = row.plan \/ \E i \in written : Tells(i, row.sub, {"deleted"})'
    BY DEF RowTells, Untold, Tells, Newest
  <1> DEFINE r == row.sub
  <1>1. /\ row.cancel = stripe[r].cancel \/ Untold(r, {"updated"})
        /\ "downgraded" \notin cause =>
             /\ row.plan = stripe[r].plan \/ Untold(r, {"updated"})
             /\ row.status = Local(stripe[r].status) \/ Untold(r, RowKinds)
             /\ plan = row.plan \/ \E i \in written : Tells(i, r, {"deleted"})
    BY DEF RowTells
  <1>2. r \in Subs
    BY DEF Typed, TypeOK, Row
  <1>3. (\E i \in written : Tells(i, r, {"deleted"})) => \E i \in written : Tells(i, r, {"deleted"})'
    BY DEF Tells, Grows, Typed, TypeOK
  <1>4. PICK c \in Emitted : events[c].sub = r
    BY DEF HandlersTell, Tells, Typed, TypeOK
  <1>5. CASE r # s
    <2>1. stripe'[r] = stripe[r]
      BY <1>2, <1>5 DEF StripeOpens, StripeTells, Typed, TypeOK
    <2>2. \A i \in Fresh : events'[i].sub # r
      BY <1>5 DEF StripeOpens, StripeTells, Fresh, Emitted
    <2>3. \A kinds : Untold(r, kinds) => Untold(r, kinds)'
      BY <1>2, <2>2, UntoldStays
    <2> QED BY <1>1, <1>3, <2>1, <2>3
  <1>6. CASE r = s
    <2>1. PICK at \in Snapshot : StripeTells(s, at)
      BY <1>4, <1>6, OpenedStays
    <2>2. stripe'[r] = at
      BY <1>6, <2>1, ChangesAreTold DEF Typed, TypeOK
    <2>3. \A kinds : NoTidings(kinds) /\ Untold(r, kinds) => Untold(r, kinds)'
      BY <1>2, UntoldStays DEF NoTidings
    <2>4. /\ \/ Tidings({"updated"})
             \/ NoTidings({"updated"}) /\ at.plan = stripe[s].plan /\ at.cancel = stripe[s].cancel
          /\ Tidings(RowKinds) \/ (NoTidings(RowKinds) /\ at = stripe[s])
      BY <2>1, ChangesAreTold, Zenon
    <2>5. ASSUME Tidings({"updated"}) PROVE Untold(r, {"updated"})'
      <3>1. Untold(s, {"updated"})'
        BY <2>1, <2>5, TidingsAreUntold
      <3> QED BY <1>6, <3>1
    <2>6. ASSUME Tidings(RowKinds) PROVE Untold(r, RowKinds)'
      <3>1. Untold(s, RowKinds)'
        BY <2>1, <2>6, TidingsAreUntold
      <3> QED BY <1>6, <3>1
    <2> QED BY <1>1, <1>3, <1>6, <2>2, <2>3, <2>4, <2>5, <2>6
  <1> QED BY <1>5, <1>6

\* What customers do keeps all of it.
LEMMA CustomerKeepsTelling ==
  ASSUME Typed, TellsAll, Customer
  PROVE  TellsAll'
  <1>1. Typed' /\ Grows /\ UNCHANGED <<settled, database, hook, cron, faults, written, done, cause>>
    BY CustomerTyped
  <1>2. PICK s \in Subs : StripeOpens(s) \/ \E at \in Snapshot : StripeTells(s, at)
    BY CustomerTells
  <1>3. EventsTell /\ HandlersTell /\ MirrorTells /\ RowTells
    BY DEF TellsAll
  <1>4. EventsTell'
    BY <1>1, <1>2, <1>3, ToldStays, OpenedStays
  <1>5. HandlersTell' /\ RowTells'
    BY <1>1, <1>2, <1>3, StripeKeepsHandlers, StripeKeepsRow DEF database
  <1>6. MirrorTells'
    <2> SUFFICES ASSUME mirror'.pc = "called", ~mirror'.late, "replayed" \notin cause
                 PROVE  stripe'[mirror'.sub].cancel = mirror'.want
      BY <1>1 DEF MirrorTells
    <2>0. mirror \in Mirror /\ (mirror.pc # "idle" => mirror.sub \in Subs) /\ stripe \in [Subs -> Snapshot]
      BY DEF Typed, TypeOK, MirrorFits
    <2>1. ASSUME NEW r \in Subs, NEW at, NEW kinds, Becomes(r, at, kinds)
          PROVE  stripe'[mirror'.sub].cancel = mirror'.want
      <3>1. mirror' = mirror /\ ~(mirror.sub = r /\ at.cancel # stripe[r].cancel)
        BY <2>0, <2>1 DEF Becomes, Mirror
      <3>2. stripe'[mirror.sub].cancel = stripe[mirror.sub].cancel
        BY <2>0, <2>1, <3>1 DEF Becomes
      <3> QED BY <1>1, <1>3, <3>1, <3>2 DEF MirrorTells
    <2>2. ASSUME NEW r \in Subs, NEW p, OpenSession(r, p)
          PROVE  stripe'[mirror'.sub].cancel = mirror'.want
      <3>1. mirror' = mirror /\ StripeOpens(r)
        BY <2>0, <2>2 DEF OpenSession, StripeOpens
      <3>2. stripe'[mirror.sub].cancel = stripe[mirror.sub].cancel
        BY <1>3, <2>0, <3>1, OpenedStays
      <3> QED BY <1>3, <3>1, <3>2 DEF MirrorTells
    <2> QED BY <2>1, <2>2 DEF Customer, PortalPlan, PaySession, PortalCancel, PaymentFails,
                              PaymentSucceeds, SubscriptionEnds
  <1> QED BY <1>4, <1>5, <1>6 DEF TellsAll

\* So does the request's call of Stripe.
LEMMA MirrorCallKeepsTelling ==
  ASSUME Typed, TellsAll, MirrorCall
  PROVE  TellsAll'
  <1>1. Typed' /\ Grows /\ UNCHANGED <<settled, database, hook, cron, faults, written, done, cause>>
    BY MirrorCallTyped
  <1>2. mirror.sub \in Subs /\ mirror \in Mirror /\ mirror' = [mirror EXCEPT !.pc = "called"]
    BY DEF MirrorCall, Typed, TypeOK, MirrorFits
  <1>3. PICK at \in Snapshot : StripeTells(mirror.sub, at) /\ at.cancel = mirror.want
    BY MirrorCallTells
  <1>4. EventsTell /\ HandlersTell /\ MirrorTells /\ RowTells
    BY DEF TellsAll
  <1>5. EventsTell' /\ HandlersTell' /\ RowTells'
    BY <1>1, <1>2, <1>3, <1>4, ToldStays, StripeKeepsHandlers, StripeKeepsRow DEF database
  <1>6. stripe'[mirror.sub].cancel = mirror.want /\ mirror'.sub = mirror.sub /\ mirror'.want = mirror.want
    BY <1>2, <1>3 DEF StripeTells, Typed, TypeOK, Mirror
  <1>7. MirrorTells'
    BY <1>6 DEF MirrorTells
  <1> QED BY <1>5, <1>7 DEF TellsAll

\* What is true of the row is said of its subscription.
LEMMA RowTold ==
  ASSUME NEW r,
         row' # NoRow /\ cause' \intersect {"overtaken", "replayed", "late"} = {} =>
           /\ row'.sub = r
           /\ row'.cancel = stripe'[r].cancel \/ Untold(r, {"updated"})'
           /\ "downgraded" \notin cause' =>
                /\ row'.plan = stripe'[r].plan \/ Untold(r, {"updated"})'
                /\ row'.status = Local(stripe'[r].status) \/ Untold(r, RowKinds)'
                /\ plan' = row'.plan \/ \E i \in written' : Tells(i, r, {"deleted"})'
  PROVE  RowTells'
  <1> SUFFICES ASSUME row' # NoRow, cause' \intersect {"overtaken", "replayed", "late"} = {}
               PROVE  /\ row'.cancel = stripe'[row'.sub].cancel \/ Untold(row.sub, {"updated"})'
                      /\ "downgraded" \notin cause' =>
                           /\ row'.plan = stripe'[row'.sub].plan \/ Untold(row.sub, {"updated"})'
                           /\ row'.status = Local(stripe'[row'.sub].status) \/ Untold(row.sub, RowKinds)'
                           /\ plan' = row'.plan \/ \E i \in written' : Tells(i, row.sub, {"deleted"})'
    BY DEF RowTells
  <1>1. row'.sub = r
    OBVIOUS
  <1>2. /\ Untold(row.sub, {"updated"})' <=> Untold(r, {"updated"})'
        /\ Untold(row.sub, RowKinds)' <=> Untold(r, RowKinds)'
        /\ \A i \in written' : Tells(i, row.sub, {"deleted"})' <=> Tells(i, r, {"deleted"})'
    BY <1>1 DEF Untold, Tells
  <1> QED BY <1>1, <1>2

\* The row, the plan and what was written stay, and so does what is true of them.
LEMMA RowStaysTold ==
  ASSUME Typed, RowTells, UNCHANGED <<stripe, events, row, plan, written>>,
         cause \intersect {"overtaken", "replayed", "late", "downgraded"} \subseteq cause'
  PROVE  RowTells'
  BY DEF RowTells, Untold, Tells, Newest, Emitted

\* A write of another event leaves one that is still to be written.
LEMMA UntoldUnlessWritten ==
  ASSUME UNCHANGED events, NEW e, written' = written \union {e}, NEW r, NEW kinds,
         Untold(r, kinds), ~Tells(e, r, kinds)
  PROVE  Untold(r, kinds)'
  BY DEF Untold, Tells, Newest, Emitted

\* An event that none has overtaken says what the newest says, or that one is to come.
LEMMA SaysTheNewest ==
  ASSUME Typed, EventsTell, UNCHANGED <<stripe, events>>, NEW e \in Emitted,
         written' = written \union {e}, ~Overtaken(e), NEW r \in Subs
  PROVE  /\ Tells(e, r, RowKinds) => Untold(r, RowKinds)' \/ events[e].at = stripe[r]
         /\ Tells(e, r, {"updated"}) =>
              Untold(r, {"updated"})' \/ (events[e].at.plan = stripe[r].plan /\ events[e].at.cancel = stripe[r].cancel)
  <1>0. Emitted' = Emitted /\ \A i \in Emitted : i \in Nat
    BY EventSub DEF Emitted
  <1>1. ASSUME NEW kinds, Tells(e, r, kinds)
        PROVE  \/ Untold(r, kinds)'
               \/ \E j \in Emitted : Tells(j, r, kinds) /\ Newest(j, kinds) /\ events[j].at = events[e].at
    <2>1. PICK j \in Emitted : j >= e /\ Tells(j, r, kinds) /\ Newest(j, kinds)
      BY <1>1, NewestExists
    <2>2. CASE j \notin written /\ j # e
      <3>1. Tells(j, r, kinds)' /\ Newest(j, kinds)'
        BY <1>0, <2>1 DEF Tells, Newest
      <3> QED BY <1>0, <2>1, <2>2, <3>1 DEF Untold
    <2>3. CASE j \in written /\ j # e
      <3>1. j > e /\ events[j].sub = events[e].sub
        BY <1>0, <1>1, <2>1, <2>3 DEF Tells
      <3> QED BY <2>1, <2>3, <3>1 DEF Overtaken
    <2> QED BY <2>1, <2>2, <2>3
  <1>2. ASSUME Tells(e, r, RowKinds) PROVE Untold(r, RowKinds)' \/ events[e].at = stripe[r]
    <2>1. ASSUME NEW j \in Emitted, Tells(j, r, RowKinds), Newest(j, RowKinds) PROVE events[j].at = stripe[r]
      BY <2>1 DEF EventsTell, Tells
    <2> QED BY <1>1, <1>2, <2>1
  <1>3. ASSUME Tells(e, r, {"updated"})
        PROVE  Untold(r, {"updated"})' \/ (events[e].at.plan = stripe[r].plan /\ events[e].at.cancel = stripe[r].cancel)
    <2>1. ASSUME NEW j \in Emitted, Tells(j, r, {"updated"}), Newest(j, {"updated"})
          PROVE  events[j].at.plan = stripe[r].plan /\ events[j].at.cancel = stripe[r].cancel
      BY <2>1 DEF EventsTell, Tells
    <2> QED BY <1>1, <1>3, <2>1
  <1> QED BY <1>2, <1>3

\* What the instances know when one of them moves.
LEMMA HandlerKeeps ==
  ASSUME Typed, HandlersTell, NEW h \in Handlers, UNCHANGED <<stripe, events>>,
         written \subseteq written', done \subseteq done', row # NoRow => row' # NoRow,
         \A g \in Handlers \ {h} : hook'[g] = hook[g],
         hook'[h].pc \in {"notify", "reconcile", "unpublish"} => hook'[h].ev \in written',
         hook'[h].pc = "found" /\ events[hook'[h].ev].kind = "checkout" =>
           hook'[h].plan = stripe[events[hook'[h].ev].sub].plan,
         \A i \in done' \ done : events[i].kind \in RowKinds => i \in written',
         \A i \in written' \ written :
           /\ events[i].kind = "checkout" => i \in done' /\ row' # NoRow
           /\ events[i].kind = "updated" => \E c \in written' : Tells(c, events[i].sub, {"checkout"}),
         row' # NoRow => (row # NoRow /\ row'.sub = row.sub) \/ \E c \in written' : Tells(c, row'.sub, {"checkout"})
  PROVE  HandlersTell'
  <1>1. ASSUME NEW g \in Handlers
        PROVE  /\ hook'[g].pc \in {"notify", "reconcile", "unpublish"} => hook'[g].ev \in written'
               /\ hook'[g].pc = "found" /\ EventOf(g)'.kind = "checkout" =>
                    \/ hook'[g].plan = stripe'[EventOf(g)'.sub].plan
                    \/ \E i \in Emitted' : Tells(i, EventOf(g).sub, {"updated"})'
    BY DEF HandlersTell, EventOf, Tells, Emitted
  <1>2. \A i \in done' : events'[i].kind \in RowKinds => i \in written'
    BY DEF HandlersTell
  <1>3. \A i \in written' :
          /\ events'[i].kind = "checkout" => i \in done' /\ row' # NoRow
          /\ events'[i].kind = "updated" => \E c \in written' : Tells(c, events[i].sub, {"checkout"})'
    BY DEF HandlersTell, Tells
  <1>4. row' # NoRow => \E c \in written' : Tells(c, row.sub, {"checkout"})'
    BY DEF HandlersTell, Tells
  <1> QED BY <1>1, <1>2, <1>3, <1>4 DEF HandlersTell

\* No step of the route touches what Stripe has, or the causes that concern others.
LEMMA RouteKeepsStripe ==
  ASSUME Typed, EventsTell, MirrorTells, NEW h \in Handlers,
         (\E i \in Emitted : Deliver(h, i)) \/ Handle(h) \/ Fault(h)
  PROVE  /\ UNCHANGED <<stripe, events, mirror>> /\ EventsTell' /\ MirrorTells'
         /\ cause \intersect {"overtaken", "replayed", "late"} \subseteq cause'
  <1>1. UNCHANGED <<stripe, events, mirror>>
    BY RouteLeaves DEF Deliver
  <1>2. cause \intersect {"overtaken", "replayed", "late"} \subseteq cause'
    BY DEF Deliver, Handle, Fault, Retrieve, FindRow, RowMissing, Ignore, WriteCheckout, WriteUpdated,
           WritePaymentFailed, NotifyOwner, WriteDeleted, RowTaken, WriteInvoice, FindExcess, NoExcess,
           Unpublish, Release, HandlerFails, ClaimStrands, Written
  <1>3. EventsTell'
    BY <1>1 DEF EventsTell, Tells, Newest, Emitted
  <1>4. MirrorTells'
    BY <1>1, <1>2 DEF MirrorTells
  <1> QED BY <1>1, <1>2, <1>3, <1>4

\* A delivery tells nobody anything.
LEMMA DeliverKeepsTelling ==
  ASSUME Typed, TellsAll, NEW h \in Handlers, NEW i \in Emitted, Deliver(h, i)
  PROVE  TellsAll'
  <1>0. EventsTell /\ HandlersTell /\ MirrorTells /\ RowTells
    BY DEF TellsAll
  <1>1. UNCHANGED <<stripe, events, mirror>> /\ EventsTell' /\ MirrorTells'
    BY <1>0, RouteKeepsStripe
  <1>2. UNCHANGED <<row, plan, written, done, cause>> /\ hook[h].pc = "idle"
    BY DEF Deliver
  <1>3. RowTells'
    BY <1>0, <1>1, <1>2, RowStaysTold
  <1>4. hook'[h].pc \in {"idle", "claimed"} /\ \A g \in Handlers \ {h} : hook'[g] = hook[g]
    BY <1>2, DeliverClaims
  <1>5. HandlersTell'
    BY <1>0, <1>1, <1>2, <1>4, HandlerKeeps
  <1> QED BY <1>1, <1>3, <1>5 DEF TellsAll

\* A step of an instance that writes neither the row nor the plan, nor that it did.
QuietStep(h) ==
  \/ Retrieve(h) \/ FindRow(h) \/ RowMissing(h) \/ RowTaken(h) \/ FindExcess(h)
  \/ NotifyOwner(h) \/ NoExcess(h) \/ Unpublish(h) \/ WriteInvoice(h)
  \/ Release(h) \/ HandlerFails(h) \/ ClaimStrands(h)

LEMMA QuietKeepsTelling ==
  ASSUME Typed, TellsAll, NEW h \in Handlers, QuietStep(h)
  PROVE  TellsAll'
  <1> USE DEF database
  <1>0. EventsTell /\ HandlersTell /\ MirrorTells /\ RowTells
    BY DEF TellsAll
  <1>r. Handle(h) \/ Fault(h)
    BY DEF QuietStep, Handle, Fault
  <1>1. UNCHANGED <<stripe, events, mirror>> /\ EventsTell' /\ MirrorTells'
    BY <1>0, <1>r, RouteKeepsStripe
  <1>2. UNCHANGED <<row, plan, written>> /\ cause \subseteq cause'
    BY DEF QuietStep, Retrieve, FindRow, RowMissing, RowTaken, FindExcess, NotifyOwner, NoExcess,
           Unpublish, WriteInvoice, Release, HandlerFails, ClaimStrands
  <1>3. RowTells'
    BY <1>0, <1>1, <1>2, RowStaysTold
  <1>4. /\ hook[h].pc # "idle" /\ \A g \in Handlers \ {h} : hook'[g] = hook[g]
        /\ hook \in [Handlers -> Hook] /\ hook[h] \in Hook
    BY <1>r, RouteClaims DEF Typed, TypeOK
  <1>w. hook[h].pc \in {"notify", "reconcile", "unpublish"} => hook[h].ev \in written
    BY <1>0 DEF HandlersTell
  <1>5. CASE Retrieve(h)
    <2>1. hook' = [hook EXCEPT ![h] = [hook[h] EXCEPT !.pc = "found", !.plan = stripe[EventOf(h).sub].plan]]
      BY <1>4, <1>5 DEF Retrieve
    <2>2. hook'[h].pc = "found" /\ hook'[h].ev = hook[h].ev /\ hook'[h].plan = stripe[EventOf(h).sub].plan
      BY <1>4, <2>1 DEF Hook
    <2>3. done' = done
      BY <1>5 DEF Retrieve
    <2>4. HandlersTell'
      BY <1>0, <1>1, <1>2, <1>4, <2>2, <2>3, HandlerKeeps DEF EventOf
    <2> QED BY <1>1, <1>3, <2>4 DEF TellsAll
  <1>6. CASE FindRow(h) \/ RowMissing(h) \/ RowTaken(h) \/ FindExcess(h) \/ HandlerFails(h)
    <2>1. PICK pc \in {"found", "threw", "unpublish"} :
            /\ Goto(h, pc)
            /\ pc = "found" => EventOf(h).kind # "checkout"
            /\ pc = "unpublish" => hook[h].pc = "reconcile"
      BY <1>6 DEF FindRow, RowMissing, RowTaken, FindExcess, HandlerFails
    <2>2. hook'[h].pc = pc /\ hook'[h].ev = hook[h].ev
      BY <1>4, <2>1 DEF Goto, Hook
    <2>3. done' = done
      BY <1>6 DEF FindRow, RowMissing, RowTaken, FindExcess, HandlerFails
    <2>4. HandlersTell'
      BY <1>0, <1>1, <1>2, <1>4, <1>w, <2>1, <2>2, <2>3, HandlerKeeps DEF EventOf
    <2> QED BY <1>1, <1>3, <2>4 DEF TellsAll
  <1>7. CASE Release(h) \/ ClaimStrands(h)
    <2>1. NowIdle(h) /\ done' = done
      BY <1>7 DEF Release, ClaimStrands
    <2>2. hook'[h].pc = "idle"
      BY <1>4, <2>1 DEF NowIdle, IdleHook
    <2>3. HandlersTell'
      BY <1>0, <1>1, <1>2, <1>4, <2>1, <2>2, HandlerKeeps
    <2> QED BY <1>1, <1>3, <2>3 DEF TellsAll
  <1>8. CASE NotifyOwner(h) \/ NoExcess(h) \/ Unpublish(h) \/ WriteInvoice(h)
    <2>1. NowIdle(h) /\ done' = done \union {hook[h].ev}
      BY <1>8 DEF NotifyOwner, NoExcess, Unpublish, WriteInvoice, Answer
    <2>2. hook'[h].pc = "idle"
      BY <1>4, <2>1 DEF NowIdle, IdleHook
    <2>3. events[hook[h].ev].kind \in RowKinds => hook[h].ev \in written
      BY <1>8, <1>w DEF NotifyOwner, NoExcess, Unpublish, WriteInvoice, RowKinds, EventOf
    <2>4. HandlersTell'
      BY <1>0, <1>1, <1>2, <1>4, <2>1, <2>2, <2>3, HandlerKeeps
    <2> QED BY <1>1, <1>3, <2>4 DEF TellsAll
  <1> QED BY <1>5, <1>6, <1>7, <1>8 DEF QuietStep

\* An event let pass is of another subscription than the row's.
LEMMA IgnoreKeepsTelling ==
  ASSUME Typed, TellsAll, NEW h \in Handlers, Ignore(h)
  PROVE  TellsAll'
  <1> USE DEF database
  <1>0. EventsTell /\ HandlersTell /\ MirrorTells /\ RowTells
    BY DEF TellsAll
  <1>r. Handle(h)
    BY DEF Handle
  <1>1. UNCHANGED <<stripe, events, mirror>> /\ EventsTell' /\ MirrorTells'
    BY <1>0, <1>r, RouteKeepsStripe
  <1>2. /\ hook[h].pc # "idle" /\ \A g \in Handlers \ {h} : hook'[g] = hook[g]
        /\ hook \in [Handlers -> Hook]
    BY <1>r, RouteClaims DEF Typed, TypeOK
  <1> DEFINE e == hook[h].ev
  <1>3. /\ e \in Emitted /\ events[e].kind \in {"deleted", "payment_failed"} /\ ~RowIs(events[e].sub)
        /\ written' = written \union {e} /\ done' = done \union {e} /\ hook'[h].pc = "idle"
        /\ UNCHANGED <<row, plan>> /\ cause \subseteq cause'
    BY <1>2, WorkedOn DEF Ignore, EventOf, Written, Answer, NowIdle, IdleHook
  <1> HIDE DEF e
  <1>4. HandlersTell'
    BY <1>0, <1>1, <1>2, <1>3, HandlerKeeps
  <1>5. RowTells'
    <2>1. PICK r : r = row.sub
      OBVIOUS
    <2>2. row # NoRow => \A kinds : Untold(r, kinds) => Untold(r, kinds)'
      <3>1. ASSUME row # NoRow, NEW kinds, Untold(r, kinds) PROVE Untold(r, kinds)'
        <4>1. ~Tells(e, r, kinds)
          BY <1>3, <2>1, <3>1 DEF Tells, RowIs
        <4> QED BY <1>1, <1>3, <3>1, <4>1, UntoldUnlessWritten
      <3> QED BY <3>1
    <2>3. (\E i \in written : Tells(i, r, {"deleted"})) => \E i \in written' : Tells(i, r, {"deleted"})'
      BY <1>1, <1>3 DEF Tells
    <2>4. row # NoRow /\ cause \intersect {"overtaken", "replayed", "late"} = {} =>
           /\ row.cancel = stripe[r].cancel \/ Untold(r, {"updated"})
           /\ "downgraded" \notin cause =>
                /\ row.plan = stripe[r].plan \/ Untold(r, {"updated"})
                /\ row.status = Local(stripe[r].status) \/ Untold(r, RowKinds)
                /\ plan = row.plan \/ \E i \in written : Tells(i, r, {"deleted"})
      BY <1>0, <2>1 DEF RowTells
    <2> QED BY <1>1, <1>3, <2>1, <2>2, <2>3, <2>4, RowTold
  <1> QED BY <1>1, <1>4, <1>5 DEF TellsAll

\* What a handler's write leaves of the rest.
LEMMA WriteFrame ==
  ASSUME Typed, TellsAll, NEW h \in Handlers,
         WriteCheckout(h) \/ WriteUpdated(h) \/ WritePaymentFailed(h) \/ WriteDeleted(h)
  PROVE  /\ EventsTell /\ HandlersTell /\ RowTells
         /\ UNCHANGED <<stripe, events, mirror>> /\ EventsTell' /\ MirrorTells'
         /\ \A g \in Handlers \ {h} : hook'[g] = hook[g]
         /\ hook[h].ev \in Emitted /\ events[hook[h].ev] \in Event /\ events[hook[h].ev].sub \in Subs
         /\ written' = written \union {hook[h].ev}
         /\ cause \intersect {"overtaken", "replayed", "late"} \subseteq cause'
         /\ "overtaken" \notin cause' => ~Overtaken(hook[h].ev)
         /\ row \in Row \union {NoRow} /\ stripe \in [Subs -> Snapshot]
  <1>1. EventsTell /\ HandlersTell /\ MirrorTells /\ RowTells
    BY DEF TellsAll
  <1>2. Handle(h)
    BY DEF Handle
  <1>3. /\ UNCHANGED <<stripe, events, mirror>> /\ EventsTell' /\ MirrorTells'
        /\ cause \intersect {"overtaken", "replayed", "late"} \subseteq cause'
    BY <1>1, <1>2, RouteKeepsStripe
  <1>4. hook[h].pc # "idle" /\ \A g \in Handlers \ {h} : hook'[g] = hook[g]
    BY <1>2, RouteClaims
  <1>5. hook[h].ev \in Emitted
    BY <1>4, WorkedOn
  <1>6. PICK causes : Written(h, causes)
    BY DEF WriteCheckout, WriteUpdated, WritePaymentFailed, WriteDeleted
  <1>7. written' = written \union {hook[h].ev} /\ ("overtaken" \notin cause' => ~Overtaken(hook[h].ev))
    BY <1>6 DEF Written
  <1> QED BY <1>1, <1>3, <1>4, <1>5, <1>7, EventSub DEF Typed, TypeOK

\* A checkout is written once and before every update of its subscription.
LEMMA CheckoutKeepsTelling ==
  ASSUME Typed, HandledOnce, TellsAll, NEW h \in Handlers, WriteCheckout(h)
  PROVE  TellsAll'
  <1>0. PICK e \in Emitted : e = hook[h].ev
    BY WriteFrame
  <1>s. PICK s \in Subs : s = events[e].sub
    BY <1>0, WriteFrame
  <1>1. /\ EventsTell /\ HandlersTell
        /\ UNCHANGED <<stripe, events, mirror>> /\ EventsTell' /\ MirrorTells'
        /\ \A g \in Handlers \ {h} : hook'[g] = hook[g]
        /\ e \in Emitted /\ s \in Subs /\ written' = written \union {e}
        /\ cause \intersect {"overtaken", "replayed", "late"} \subseteq cause'
        /\ ("overtaken" \notin cause' => ~Overtaken(e))
    BY <1>0, WriteFrame
  <1>2. /\ hook[h].pc = "found" /\ events[e].kind = "checkout" /\ done' = done \union {e}
        /\ row' = [sub |-> s, status |-> "ACTIVE", plan |-> hook[h].plan, cancel |-> FALSE]
        /\ plan' = hook[h].plan
    BY <1>0, <1>s DEF WriteCheckout, EventOf, Answer
  <1>3. hook'[h].pc = "idle"
    BY DEF WriteCheckout, Answer, NowIdle, IdleHook, Typed, TypeOK
  <1>4. hook[h].plan \in Plans /\ e \notin done
    BY <1>0, <1>2 DEF Typed, TypeOK, Hook, HandledOnce, Working
  <1>5. \/ hook[h].plan = stripe[s].plan
        \/ \E i \in Emitted : Tells(i, s, {"updated"})
    BY <1>0, <1>s, <1>1, <1>2 DEF HandlersTell, EventOf
  <1>6. row' \in Row /\ row' # NoRow
    <2>1. row' \in Row
      BY <1>1, <1>2, <1>4 DEF Row
    <2> QED BY <2>1, RowAssumption
  <1>7. \A c \in Emitted : c \in Nat /\ (Tells(c, s, {"checkout"}) => c = e)
    BY <1>s, <1>1, <1>2, EventSub DEF EventsTell, Tells
  <1>8. e \notin written /\ \A i \in written : i \in Emitted
    BY <1>1, <1>2, <1>4 DEF HandlersTell, Typed, TypeOK
  <1>9. ASSUME NEW i \in written, Tells(i, s, {"updated"}) PROVE FALSE
    <2>1. PICK c \in written : Tells(c, s, {"checkout"})
      BY <1>1, <1>9 DEF HandlersTell, Tells
    <2> QED BY <1>7, <1>8, <2>1
  <1>10. ASSUME NEW i \in Emitted, Tells(i, s, {"updated"}) PROVE Untold(s, {"updated"})'
    <2>1. PICK j \in Emitted : Tells(j, s, {"updated"}) /\ Newest(j, {"updated"})
      BY <1>1, <1>10, NewestExists
    <2>2. j \notin written /\ j # e
      BY <1>2, <1>9, <2>1 DEF Tells
    <2>3. Tells(j, s, {"updated"})' /\ Newest(j, {"updated"})' /\ j \in Emitted'
      BY <1>1, <2>1 DEF Tells, Newest, Emitted
    <2> QED BY <1>1, <2>2, <2>3 DEF Untold
  <1>11. FALSE = stripe[s].cancel \/ Untold(s, {"updated"})'
    <2>1. stripe[s].cancel \in BOOLEAN
      BY <1>1 DEF Typed, TypeOK, Snapshot
    <2> QED BY <1>1, <1>10, <2>1 DEF EventsTell
  <1>12. ASSUME "overtaken" \notin cause'
         PROVE  "ACTIVE" = Local(stripe[s].status) \/ Untold(s, RowKinds)'
    <2>1. Tells(e, s, RowKinds)
      BY <1>s, <1>2 DEF Tells, RowKinds, Kinds
    <2>2. Untold(s, RowKinds)' \/ events[e].at = stripe[s]
      BY <1>1, <1>12, <2>1, SaysTheNewest
    <2>3. events[e].at.status = "active"
      BY <1>1, <1>2 DEF EventsTell
    <2> QED BY <2>2, <2>3 DEF Local
  <1>13. /\ row'.sub = s /\ row'.status = "ACTIVE" /\ row'.plan = hook[h].plan /\ row'.cancel = FALSE
    BY <1>2
  <1>14. RowTells'
    <2>1. hook[h].plan = stripe[s].plan \/ Untold(s, {"updated"})'
      BY <1>5, <1>10
    <2>2. row' # NoRow /\ cause' \intersect {"overtaken", "replayed", "late"} = {} =>
           /\ row'.sub = s
           /\ row'.cancel = stripe'[s].cancel \/ Untold(s, {"updated"})'
           /\ row'.plan = stripe'[s].plan \/ Untold(s, {"updated"})'
           /\ row'.status = Local(stripe'[s].status) \/ Untold(s, RowKinds)'
           /\ plan' = row'.plan
      BY <1>1, <1>2, <1>11, <1>12, <1>13, <2>1
    <2> QED BY <2>2, RowTold
  <1>15. HandlersTell'
    <2>1. Tells(e, s, {"checkout"})
      BY <1>s, <1>2 DEF Tells
    <2> QED BY <1>1, <1>2, <1>3, <1>6, <1>13, <2>1, HandlerKeeps
  <1> QED BY <1>1, <1>14, <1>15 DEF TellsAll

\* The other writes are of the row's own subscription.
LEMMA WriteKeepsTelling ==
  ASSUME Typed, TellsAll, NEW h \in Handlers, WriteUpdated(h) \/ WritePaymentFailed(h) \/ WriteDeleted(h)
  PROVE  TellsAll'
  <1>0. PICK e \in Emitted : e = hook[h].ev
    BY WriteFrame
  <1>1. /\ EventsTell /\ HandlersTell /\ RowTells
        /\ UNCHANGED <<stripe, events, mirror>> /\ EventsTell' /\ MirrorTells'
        /\ \A g \in Handlers \ {h} : hook'[g] = hook[g]
        /\ e \in Emitted /\ events[e] \in Event /\ written' = written \union {e}
        /\ cause \intersect {"overtaken", "replayed", "late"} \subseteq cause'
        /\ ("overtaken" \notin cause' => ~Overtaken(e))
        /\ row \in Row \union {NoRow} /\ stripe \in [Subs -> Snapshot]
    BY <1>0, WriteFrame
  <1>2. RowIs(events[e].sub) /\ hook \in [Handlers -> Hook]
    BY <1>0 DEF WriteUpdated, WritePaymentFailed, WriteDeleted, EventOf, Typed, TypeOK
  <1>3. PICK r \in Subs : r = row.sub /\ events[e].sub = r /\ row \in Row /\ row # NoRow
    BY <1>1, <1>2 DEF RowIs, Row
  <1>4. cause \intersect {"overtaken", "replayed", "late"} = {} =>
          /\ row.cancel = stripe[r].cancel \/ Untold(r, {"updated"})
          /\ "downgraded" \notin cause =>
               /\ row.plan = stripe[r].plan \/ Untold(r, {"updated"})
               /\ row.status = Local(stripe[r].status) \/ Untold(r, RowKinds)
               /\ plan = row.plan \/ \E i \in written : Tells(i, r, {"deleted"})
    BY <1>1, <1>3 DEF RowTells
  <1>5. PICK c \in written : Tells(c, r, {"checkout"})
    BY <1>1, <1>3 DEF HandlersTell
  <1>6. ASSUME WriteUpdated(h) PROVE TellsAll'
    <2>1. /\ events[e].kind = "updated" /\ done' = done \union {e}
          /\ row' = [row EXCEPT !.status = Local(events[e].at.status),
                                !.plan = events[e].at.plan, !.cancel = events[e].at.cancel]
          /\ plan' = events[e].at.plan /\ hook'[h].pc = "idle"
      BY <1>0, <1>2, <1>6 DEF WriteUpdated, EventOf, Answer, NowIdle, IdleHook
    <2>2. /\ row'.sub = r /\ row'.status = Local(events[e].at.status)
          /\ row'.plan = events[e].at.plan /\ row'.cancel = events[e].at.cancel
      BY <1>3, <2>1 DEF Row
    <2>3. Tells(e, r, {"updated"}) /\ Tells(e, r, RowKinds)
      BY <1>3, <2>1 DEF Tells, RowKinds, Kinds
    <2>4. "overtaken" \notin cause' =>
            /\ Untold(r, RowKinds)' \/ events[e].at = stripe[r]
            /\ Untold(r, {"updated"})' \/ (events[e].at.plan = stripe[r].plan /\ events[e].at.cancel = stripe[r].cancel)
      BY <1>1, <2>3, SaysTheNewest
    <2>5. RowTells'
      BY <1>1, <2>1, <2>2, <2>4, RowTold
    <2>6. row' # NoRow
      <3>0. events[e].at.status \in {"active", "past_due"}
        BY <1>1, <2>1 DEF Typed, EventsFit, EventFits
      <3>1. row' \in Row
        BY <1>1, <1>3, <2>1, <3>0, LocalTyped DEF Row, Event, Snapshot
      <3> QED BY <3>1, RowAssumption
    <2>7. HandlersTell'
      BY <1>1, <1>3, <1>5, <2>1, <2>2, <2>6, HandlerKeeps DEF Tells
    <2> QED BY <1>1, <2>5, <2>7 DEF TellsAll
  <1>7. ASSUME WritePaymentFailed(h) PROVE TellsAll'
    <2>1. /\ events[e].kind = "payment_failed" /\ done' = done
          /\ row' = [row EXCEPT !.status = "PAST_DUE"]
          /\ plan' = plan /\ cause \subseteq cause' /\ Goto(h, "notify")
      BY <1>0, <1>7 DEF WritePaymentFailed, EventOf, Written
    <2>2. hook'[h].pc = "notify" /\ hook'[h].ev = e
      BY <1>0, <1>2, <2>1 DEF Goto, Hook
    <2>3. /\ row' \in Row /\ row' # NoRow /\ row'.sub = r /\ row'.status = "PAST_DUE"
          /\ row'.plan = row.plan /\ row'.cancel = row.cancel
      BY <1>3, <2>1, RowAssumption DEF Row
    <2>4. Tells(e, r, RowKinds) /\ ~Tells(e, r, {"updated"})
      BY <1>3, <2>1 DEF Tells, RowKinds, Kinds
    <2>5. Untold(r, {"updated"}) => Untold(r, {"updated"})'
      BY <1>1, <2>4, UntoldUnlessWritten
    <2>6. "overtaken" \notin cause' => Untold(r, RowKinds)' \/ events[e].at = stripe[r]
      BY <1>1, <2>4, SaysTheNewest
    <2>7. events[e].at.status = "past_due"
      BY <1>1, <2>1 DEF EventsTell
    <2>8. (\E i \in written : Tells(i, r, {"deleted"})) => \E i \in written' : Tells(i, r, {"deleted"})'
      BY <1>1 DEF Tells
    <2>9. "overtaken" \notin cause' => "PAST_DUE" = Local(stripe[r].status) \/ Untold(r, RowKinds)'
      BY <2>6, <2>7 DEF Local
    <2>10. RowTells'
      BY <1>1, <1>4, <2>1, <2>3, <2>5, <2>8, <2>9, RowTold
    <2>11. HandlersTell'
      BY <1>1, <1>3, <2>1, <2>2, <2>3, HandlerKeeps
    <2> QED BY <1>1, <2>10, <2>11 DEF TellsAll
  <1>8. ASSUME WriteDeleted(h) PROVE TellsAll'
    <2>1. /\ events[e].kind = "deleted" /\ done' = done
          /\ row' = [row EXCEPT !.status = "CANCELLED"]
          /\ cause \subseteq cause' /\ Goto(h, "reconcile")
      BY <1>0, <1>8 DEF WriteDeleted, EventOf, Written
    <2>2. hook'[h].pc = "reconcile" /\ hook'[h].ev = e
      BY <1>0, <1>2, <2>1 DEF Goto, Hook
    <2>3. /\ row' \in Row /\ row' # NoRow /\ row'.sub = r /\ row'.status = "CANCELLED"
          /\ row'.plan = row.plan /\ row'.cancel = row.cancel
      BY <1>3, <2>1, RowAssumption DEF Row
    <2>4. Tells(e, r, RowKinds) /\ ~Tells(e, r, {"updated"})
      BY <1>3, <2>1 DEF Tells, RowKinds, Kinds
    <2>5. Untold(r, {"updated"}) => Untold(r, {"updated"})'
      BY <1>1, <2>4, UntoldUnlessWritten
    <2>6. "overtaken" \notin cause' => Untold(r, RowKinds)' \/ events[e].at = stripe[r]
      BY <1>1, <2>4, SaysTheNewest
    <2>7. events[e].at.status = "canceled"
      BY <1>1, <2>1 DEF EventsTell
    <2>8. e \in written' /\ Tells(e, r, {"deleted"})'
      BY <1>1, <1>3, <2>1 DEF Tells
    <2>9. "overtaken" \notin cause' => "CANCELLED" = Local(stripe[r].status) \/ Untold(r, RowKinds)'
      BY <2>6, <2>7 DEF Local
    <2>10. RowTells'
      BY <1>1, <1>4, <2>1, <2>3, <2>5, <2>8, <2>9, RowTold
    <2>11. HandlersTell'
      BY <1>1, <1>3, <2>1, <2>2, <2>3, HandlerKeeps
    <2> QED BY <1>1, <2>10, <2>11 DEF TellsAll
  <1> QED BY <1>6, <1>7, <1>8

\* The request writes what Stripe has, or is to blame; the cron is always to blame.
LEMMA OthersKeepTelling ==
  ASSUME Typed, TellsAll,
         \/ \E want \in BOOLEAN : MirrorRead(want)
         \/ MirrorReplayed \/ MirrorRefused \/ MirrorWrite \/ MirrorWriteFails
         \/ CronRead \/ CronGoes \/ CronDies \/ PublishMore
  PROVE  TellsAll'
  <1> USE DEF database
  <1>1. EventsTell /\ HandlersTell /\ MirrorTells /\ RowTells
    BY DEF TellsAll
  <1>2. UNCHANGED <<stripe, events, hook, written, done>> /\ cause \subseteq cause'
    BY DEF MirrorRead, MirrorReplayed, MirrorRefused, MirrorWrite, MirrorWriteFails, CronRead, CronGoes,
           CronWrite, CronFindExcess, CronUnpublish, CronDies, PublishMore
  <1>3. EventsTell'
    BY <1>1, <1>2 DEF EventsTell, Tells, Newest, Emitted
  <1>4. /\ mirror \in Mirror /\ row \in Row \union {NoRow}
        /\ (mirror.pc # "idle" => row # NoRow) /\ (cron # "idle" => row # NoRow)
    BY DEF Typed, TypeOK
  <1>5. MirrorTells'
    <2>1. CASE mirror' = mirror
      BY <1>1, <1>2, <2>1 DEF MirrorTells
    <2>2. CASE \E want \in BOOLEAN : MirrorRead(want)
      BY <2>2 DEF MirrorRead, MirrorTells
    <2>3. CASE MirrorReplayed
      <3>1. mirror' = [mirror EXCEPT !.pc = "called"]
        BY <2>3 DEF MirrorReplayed
      <3>2. mirror'.sub = mirror.sub /\ mirror'.want = mirror.want
        BY <1>4, <3>1 DEF Mirror
      <3> QED BY <1>2, <2>3, <3>2 DEF MirrorReplayed, MirrorTells
    <2>4. CASE MirrorRefused \/ MirrorWrite \/ MirrorWriteFails
      BY <2>4 DEF MirrorRefused, MirrorWrite, MirrorWriteFails, MirrorTells, IdleMirror
    <2> QED BY <2>1, <2>2, <2>3, <2>4
        DEF CronRead, CronGoes, CronWrite, CronFindExcess, CronUnpublish, CronDies, PublishMore
  <1>6. /\ row # NoRow => row' # NoRow /\ row'.sub = row.sub
        /\ row = NoRow => row' = NoRow
    <2>1. CASE row' = row
      BY <2>1
    <2>2. CASE MirrorWrite \/ CronWrite
      <3>1. row \in Row /\ row # NoRow
        BY <1>4, <2>2 DEF MirrorWrite, CronWrite
      <3>2. row' \in Row /\ row'.sub = row.sub
        BY <1>4, <2>2, <3>1 DEF MirrorWrite, CronWrite, Row, Mirror, Plans
      <3> QED BY <3>1, <3>2, RowAssumption
    <2> QED BY <2>1, <2>2 DEF MirrorRead, MirrorReplayed, MirrorRefused, MirrorWriteFails, CronRead,
                              CronGoes, CronFindExcess, CronUnpublish, CronDies, PublishMore
  <1>7. HandlersTell'
    BY <1>1, <1>2, <1>6 DEF HandlersTell, EventOf, Tells, Emitted
  <1>8. PICK r : r = row.sub
    OBVIOUS
  <1>9. /\ \A kinds : Untold(r, kinds)' <=> Untold(r, kinds)
        /\ \A i \in written : Tells(i, r, {"deleted"})' <=> Tells(i, r, {"deleted"})
    BY <1>2 DEF Untold, Tells, Newest, Emitted
  <1>10. row # NoRow /\ cause \intersect {"overtaken", "replayed", "late"} = {} =>
           /\ row.cancel = stripe[r].cancel \/ Untold(r, {"updated"})
           /\ "downgraded" \notin cause =>
                /\ row.plan = stripe[r].plan \/ Untold(r, {"updated"})
                /\ row.status = Local(stripe[r].status) \/ Untold(r, RowKinds)
                /\ plan = row.plan \/ \E i \in written : Tells(i, r, {"deleted"})
    BY <1>1, <1>8 DEF RowTells
  <1>11. RowTells'
    <2>1. CASE UNCHANGED <<row, plan>>
      BY <1>1, <1>2, <2>1, RowStaysTold
    <2>2. CASE MirrorWrite
      <3>1. row \in Row /\ row' = [row EXCEPT !.cancel = mirror.want] /\ plan' = plan
        BY <1>4, <2>2 DEF MirrorWrite
      <3>2. row'.sub = r /\ row'.plan = row.plan /\ row'.status = row.status /\ row'.cancel = mirror.want
        BY <1>4, <1>8, <3>1 DEF Row, Mirror
      <3>3. ASSUME cause' \intersect {"overtaken", "replayed", "late"} = {} PROVE mirror.want = stripe[r].cancel
        <4>1. ~mirror.late /\ r = mirror.sub /\ "replayed" \notin cause /\ mirror.pc = "called"
          BY <1>8, <2>2, <3>3 DEF MirrorWrite
        <4> QED BY <1>1, <4>1 DEF MirrorTells
      <3>4. row # NoRow
        BY <1>4, <2>2 DEF MirrorWrite
      <3> QED BY <1>2, <1>9, <1>10, <3>1, <3>2, <3>3, <3>4, RowTold
    <2>3. CASE CronWrite
      <3>1. row \in Row /\ row # NoRow /\ row' = [row EXCEPT !.plan = "FREE", !.status = "CANCELLED"]
        BY <1>4, <2>3 DEF CronWrite
      <3>2. row'.sub = r /\ row'.cancel = row.cancel
        BY <1>8, <3>1 DEF Row
      <3>3. "downgraded" \in cause'
        BY <2>3 DEF CronWrite
      <3> QED BY <1>2, <1>9, <1>10, <3>1, <3>2, <3>3, RowTold
    <2> QED BY <2>1, <2>2, <2>3
        DEF MirrorRead, MirrorReplayed, MirrorRefused, MirrorWriteFails, CronRead,
            CronGoes, CronFindExcess, CronUnpublish, CronDies, PublishMore
  <1> QED BY <1>3, <1>5, <1>7, <1>11 DEF TellsAll

LEMMA TellsStep == Typed /\ HandledOnce /\ TellsAll /\ [Next]_vars => TellsAll'
  <1> SUFFICES ASSUME Typed, HandledOnce, TellsAll, [Next]_vars PROVE TellsAll'
    OBVIOUS
  <1>1. CASE UNCHANGED vars
    BY <1>1 DEF vars, database, TellsAll, EventsTell, HandlersTell, MirrorTells, RowTells, Untold,
                Tells, Newest, Emitted, EventOf
  <1>2. CASE Customer
    BY <1>2, CustomerKeepsTelling
  <1>3. CASE MirrorCall
    BY <1>3, MirrorCallKeepsTelling
  <1>4. CASE \E h \in Handlers : \E i \in Emitted : Deliver(h, i)
    BY <1>4, DeliverKeepsTelling
  <1>5. ASSUME NEW h \in Handlers, Handle(h) \/ Fault(h) PROVE TellsAll'
    <2>1. CASE QuietStep(h)
      BY <2>1, QuietKeepsTelling
    <2>2. CASE Ignore(h)
      BY <2>2, IgnoreKeepsTelling
    <2>3. CASE WriteCheckout(h)
      BY <2>3, CheckoutKeepsTelling
    <2>4. CASE WriteUpdated(h) \/ WritePaymentFailed(h) \/ WriteDeleted(h)
      BY <2>4, WriteKeepsTelling
    <2> QED BY <1>5, <2>1, <2>2, <2>3, <2>4 DEF Handle, Fault, QuietStep
  <1>6. CASE \/ \E want \in BOOLEAN : MirrorRead(want)
             \/ MirrorReplayed \/ MirrorRefused \/ MirrorWrite \/ MirrorWriteFails
             \/ CronRead \/ CronGoes \/ CronDies \/ PublishMore
    BY <1>6, OthersKeepTelling
  <1> QED BY <1>1, <1>2, <1>3, <1>4, <1>5, <1>6 DEF Next, MirrorGoes

LEMMA InitTells == Init => TellsAll
  <1> SUFFICES ASSUME Init PROVE TellsAll
    OBVIOUS
  <1>1. Emitted = {}
    <2>1. Len(events) = 0
      BY DEF Init
    <2> QED BY <2>1 DEF Emitted
  <1>2. /\ row = NoRow /\ written = {} /\ done = {} /\ mirror.pc = "idle"
        /\ \A s \in Subs : stripe[s].status = "none" /\ ~stripe[s].cancel
        /\ \A h \in Handlers : hook[h].pc = "idle"
    BY DEF Init, IdleMirror, IdleHook
  <1> QED BY <1>1, <1>2 DEF TellsAll, EventsTell, HandlersTell, MirrorTells, RowTells

\* What is untold between the steps is told when all is quiet.
LEMMA QuietFollows ==
  ASSUME Typed, SettledIsHandled, EntitlementIsBacked, TellsAll
  PROVE  RowFollowsStripe
  <1> SUFFICES ASSUME Quiet, cause \subseteq {"republished", "unreconciled"}
               PROVE  IF row = NoRow
                      THEN plan = "FREE" /\ \A s \in Subs : stripe[s].status \in {"none", "session"}
                      ELSE FollowsStripe(row.sub)
    BY DEF RowFollowsStripe
  <1>1. EventsTell /\ HandlersTell /\ RowTells
    BY DEF TellsAll
  <1>2. \A i \in Emitted : events[i].kind \in RowKinds => i \in written
    BY <1>1 DEF Quiet, SettledIsHandled, Working, HandlersTell
  <1>3. plan \in Paid \/ plan = "FREE"
    BY DEF Typed, TypeOK, Plans
  <1>4. CASE row = NoRow
    <2>1. plan = "FREE"
      BY <1>3, <1>4 DEF EntitlementIsBacked
    <2>2. \A i \in Emitted : events[i].kind # "checkout"
      BY <1>1, <1>2, <1>4 DEF HandlersTell, RowKinds, Kinds
    <2>3. \A s \in Subs : stripe[s].status \in {"none", "session"}
      BY <1>1, <2>2 DEF EventsTell, Tells
    <2> QED BY <1>4, <2>1, <2>3
  <1>5. CASE row # NoRow
    <2>1. PICK s \in Subs : s = row.sub
      BY <1>5 DEF Typed, TypeOK, Row
    <2>2. ~Untold(s, {"updated"}) /\ ~Untold(s, RowKinds)
      BY <1>2 DEF Untold, Tells, RowKinds, Kinds
    <2>3. /\ row.cancel = stripe[s].cancel /\ row.plan = stripe[s].plan
          /\ row.status = Local(stripe[s].status)
          /\ plan = row.plan \/ \E i \in written : Tells(i, s, {"deleted"})
      <3>1. cause \intersect {"overtaken", "replayed", "late"} = {} /\ "downgraded" \notin cause
        OBVIOUS
      <3> QED BY <1>1, <1>5, <2>1, <2>2, <3>1 DEF RowTells
    <2>4. CASE stripe[s].status = "canceled"
      <3>1. row.status = "CANCELLED"
        BY <2>3, <2>4 DEF Local
      <3>2. plan = "FREE"
        BY <1>3, <3>1 DEF EntitlementIsBacked
      <3> QED BY <1>5, <2>1, <2>3, <2>4, <3>2 DEF FollowsStripe
    <2>5. CASE stripe[s].status # "canceled"
      <3>1. \A i \in written : ~Tells(i, s, {"deleted"})
        BY <1>1, <2>5 DEF EventsTell, Tells, Typed, TypeOK
      <3> QED BY <1>5, <2>1, <2>3, <2>5, <3>1 DEF FollowsStripe
    <2> QED BY <2>4, <2>5
  <1> QED BY <1>4, <1>5

\* When everything is delivered and nothing runs, the row and the plan say what Stripe
\* says, in whatever order the events came and whatever failed on the way, unless an
\* event overtook another, a claim was stranded, the cron had given up on the row, or
\* a request was answered from its key or wrote late.
THEOREM TheRowFollows == Spec => []RowFollowsStripe
  <1>1. Init => TellsAll
    BY InitTells
  <1>2. Init => HandledOnce
    BY DEF Init, HandledOnce, Working, IdleHook
  <1>3. Spec => []TellsAll
    BY <1>1, <1>2, OnceStep, TellsStep, AlwaysTyped, PTL DEF Spec
  <1> QED BY <1>3, QuietFollows, AlwaysTyped, AnswersAreEarned, EntitlementHasARow, PTL
=============================================================================
