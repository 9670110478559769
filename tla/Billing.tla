-------------------------------- MODULE Billing --------------------------------
(***************************************************************************)
(* billing: Stripe's webhook events about one subscription of one tenant,  *)
(* projected onto the tenant's row of the subscriptions table and appended *)
(* to the event log.                                                       *)
(*                                                                         *)
(* Stripe numbers nothing: an event is known by its id, here its position  *)
(* in `events`.  It is delivered in any order, more than once, and again   *)
(* after any answer but a 200.                                             *)
(***************************************************************************)
EXTENDS Naturals, Sequences, FiniteSets

CONSTANTS
    Handlers,   \* bound: webhook calls at once
    Kinds,      \* the kinds of events Stripe sends
    UserIdOn,   \* the kinds that carry a user id
    MaxEvents,  \* bound on events
    MaxRepeats, \* bound on deliveries of an event that was answered already
    MaxFaults   \* bound on webhook calls that fail half-way

StateKinds == {"checkout", "created", "updated", "deleted"}
AllKinds == StateKinds \cup {"invoice"}
Plans == {"free", "pro", "team"}

\* "complete" is the status of a checkout session, "paid" that of an invoice.
Statuses == {"active", "past_due", "unpaid", "canceled", "complete", "paid"}

ASSUME BillingAssumption ==
    /\ Kinds \subseteq AllKinds /\ UserIdOn \subseteq AllKinds
    /\ MaxEvents \in Nat /\ MaxRepeats \in Nat /\ MaxFaults \in Nat
    /\ IsFiniteSet(Handlers)

VARIABLES
    events,   \* what Stripe has emitted: kind, plan of the price, status
    inbox,    \* ids of the events to be delivered
    repeats,
    hook,
    row,      \* the subscriptions table; last = 0: no row
    log,      \* the event log: ids in the order of their appending
    applied,  \* history: ids in the order of their writes to the row
    faults

stripeVars == <<events, inbox, repeats>>
vars == <<stripeVars, hook, row, log, applied, faults>>

Ids == 1 .. MaxEvents
IdleHook == [at |-> "idle", event |-> 0]
NoRow == [plan |-> "free", status |-> "canceled", last |-> 0]

TypeOK ==
    /\ events \in Seq([kind : Kinds, plan : Plans, status : Statuses])
    /\ Len(events) <= MaxEvents
    /\ inbox \subseteq 1 .. Len(events)
    /\ repeats \in 0 .. MaxRepeats
    /\ hook \in [Handlers ->
         [at : {"idle", "upsert", "append"}, event : 0 .. Len(events)]]
    /\ \A h \in Handlers : hook[h].at # "idle" => hook[h].event # 0
    /\ row \in [plan : Plans, status : Statuses, last : 0 .. Len(events)]
    /\ log \in Seq(1 .. Len(events))
    /\ applied \in Seq(1 .. Len(events))
    /\ faults \in 0 .. MaxFaults

Init ==
    /\ events = <<>> /\ inbox = {} /\ repeats = 0
    /\ hook = [h \in Handlers |-> IdleHook]
    /\ row = NoRow
    /\ log = <<>> /\ applied = <<>>
    /\ faults = 0

-----------------------------------------------------------------------------
(* Stripe.                                                                 *)

KindAt(e) == events[e].kind
IdsOf(kinds) == {e \in DOMAIN events : KindAt(e) \in kinds}

\* A subscription is created once, by one checkout, and deleted once.
MayEmit(kind) ==
    CASE kind = "created"  -> IdsOf({"created"}) = {}
      [] kind = "checkout" -> IdsOf({"checkout"}) = {} /\ IdsOf({"created"}) # {}
      [] OTHER -> IdsOf({"created"}) # {} /\ IdsOf({"deleted"}) = {}

StatusesOf(kind) ==
    CASE kind = "checkout" -> {"complete"}
      [] kind = "created"  -> {"active"}
      [] kind = "updated"  -> {"active", "past_due", "unpaid"}
      [] kind = "deleted"  -> {"canceled"}
      [] OTHER             -> {"paid"}

\* The price, and with it a plan, is in `items`: of subscriptions only.
PlansOf(kind) ==
    IF kind \in {"created", "updated", "deleted"} THEN {"pro", "team"} ELSE {"free"}

Emit(kind) ==
    /\ Len(events) < MaxEvents
    /\ MayEmit(kind)
    /\ \E plan \in PlansOf(kind), status \in StatusesOf(kind) :
         events' = Append(events, [kind |-> kind, plan |-> plan, status |-> status])
    /\ inbox' = inbox \cup {Len(events')}
    /\ UNCHANGED <<repeats, hook, row, log, applied, faults>>

\* An event is delivered again though it was, or is being, answered.
Repeat(e) ==
    /\ repeats < MaxRepeats
    /\ repeats' = repeats + 1
    /\ inbox' = inbox \cup {e}
    /\ UNCHANGED <<events, hook, row, log, applied, faults>>

-----------------------------------------------------------------------------
(* The webhook.                                                            *)

\* handle_webhook up to its first write: an event without a user id is
\* ignored, and answered 200.
Deliver(h, e) ==
    /\ e \in inbox
    /\ hook[h].at = "idle"
    /\ inbox' = inbox \ {e}
    /\ hook' = IF KindAt(e) \notin UserIdOn THEN hook
               ELSE [hook EXCEPT ![h] =
                       [at |-> IF KindAt(e) \in StateKinds THEN "upsert" ELSE "append",
                        event |-> e]]
    /\ UNCHANGED <<events, repeats, row, log, applied, faults>>

\* _apply_subscription_state: what an event makes of the row.
Projection(e) ==
    [plan |-> IF KindAt(e) = "deleted" THEN "free" ELSE events[e].plan,
     status |-> events[e].status,
     last |-> e]

\* A faulty variant: no condition.
UpsertAlways(e) == TRUE

\* A faulty variant: only the first event of a subscription is written.
UpsertFirst(e) == row.last = 0

\* A faulty variant: older events count as duplicates.
UpsertIfNewer(e) == row.last < e

\* ConditionExpression of upsert.
UpsertCondition(e) == row.last # e

\* A faulty variant: a duplicate is logged all the same.
UpsertAndLogAnyway(h) ==
    /\ hook[h].at = "upsert"
    /\ LET e == hook[h].event
       IN  IF UpsertCondition(e)
           THEN row' = Projection(e) /\ applied' = Append(applied, e)
           ELSE UNCHANGED <<row, applied>>
    /\ hook' = [hook EXCEPT ![h].at = "append"]
    /\ UNCHANGED <<stripeVars, log, faults>>

\* SubscriptionStore.upsert; a duplicate is answered 200 at once.
Upsert(h) ==
    /\ hook[h].at = "upsert"
    /\ LET e == hook[h].event
       IN  IF UpsertCondition(e)
           THEN /\ row' = Projection(e)
                /\ applied' = Append(applied, e)
                /\ hook' = [hook EXCEPT ![h].at = "append"]
           ELSE /\ hook' = [hook EXCEPT ![h] = IdleHook]
                /\ UNCHANGED <<row, applied>>
    /\ UNCHANGED <<stripeVars, log, faults>>

\* BillingEventStore.append, the audit record, and the 200; a failure after the
\* append shows as a repeated delivery.
AppendEvent(h) ==
    /\ hook[h].at = "append"
    /\ log' = Append(log, hook[h].event)
    /\ hook' = [hook EXCEPT ![h] = IdleHook]
    /\ UNCHANGED <<stripeVars, row, applied, faults>>

\* The call ends without a 200, and Stripe will deliver the event again.
HookFails(h) ==
    /\ hook[h].at # "idle"
    /\ faults < MaxFaults
    /\ faults' = faults + 1
    /\ inbox' = inbox \cup {hook[h].event}
    /\ hook' = [hook EXCEPT ![h] = IdleHook]
    /\ UNCHANGED <<events, repeats, row, log, applied>>

HookStep(h) == Upsert(h) \/ AppendEvent(h)

Next ==
    \/ \E kind \in Kinds : Emit(kind)
    \/ \E e \in DOMAIN events : Repeat(e) \/ \E h \in Handlers : Deliver(h, e)
    \/ \E h \in Handlers : HookStep(h) \/ HookFails(h)

Spec == Init /\ [][Next]_vars

\* Stripe delivers every event in the end, and a call in progress goes on.
FairSpec ==
    /\ Spec
    /\ \A e \in Ids : SF_vars(e \in DOMAIN events /\ \E h \in Handlers : Deliver(h, e))
    /\ \A h \in Handlers : WF_vars(HookStep(h))

-----------------------------------------------------------------------------
(* What the rest of the system reads.                                      *)

\* get_plan, of a tenant with this one row.
GetPlan == IF row.status \in {"active", "past_due"} THEN row.plan ELSE "free"

\* latest_subscription_event: 0 for none.
ViewKinds == {"checkout", "updated", "deleted", "invoice"}
LatestOf(kinds) ==
    LET hits == {i \in DOMAIN log : KindAt(log[i]) \in kinds}
    IN  IF hits = {} THEN 0
        ELSE log[CHOOSE i \in hits : \A j \in hits : j <= i]

-----------------------------------------------------------------------------
(* Properties.                                                             *)

CountIn(seq, e) == Cardinality({i \in DOMAIN seq : seq[i] = e})

Quiet == inbox = {} /\ \A h \in Handlers : hook[h].at = "idle"

\* The newest thing that happened to the subscription, 0 before its creation.
NewestChange ==
    LET changes == IdsOf({"created", "updated", "deleted"})
    IN  IF changes = {} THEN 0 ELSE CHOOSE e \in changes : \A f \in changes : f <= e

\* The plan the subscription gives, as Stripe has it.
PaidPlan ==
    IF NewestChange # 0 /\ events[NewestChange].status \in {"active", "past_due"}
    THEN events[NewestChange].plan ELSE "free"

\* An event is never applied twice in a row, however many calls for it run at
\* once: only another event in between lets it through again.
NoImmediateReplay ==
    \A i \in 1 .. Len(applied) - 1 : applied[i] # applied[i + 1]

\* A delivery of a state event that was caught as a duplicate leaves no trace
\* in the log: it holds an event at most as often as the row was written.
LoggedAtMostAsApplied ==
    \A e \in IdsOf(StateKinds) :
        CountIn(log, e)
          + Cardinality({h \in Handlers : hook[h].event = e /\ hook[h].at = "append"})
          <= CountIn(applied, e)

\* When events arrive in order, and the last of them is about the subscription
\* itself, the tenant has the plan it pays for once all is answered.
PlanIsCurrentInOrder ==
    /\ Quiet
    /\ \A i, j \in DOMAIN applied : i < j => applied[i] < applied[j]
    /\ IdsOf({"checkout"}) \subseteq 1 .. NewestChange
    => GetPlan = PaidPlan

\* Without faults, every event gets into the log.
EventsGetLogged ==
    \A e \in Ids :
        e \in DOMAIN events ~> (faults > 0 \/ \E i \in DOMAIN log : log[i] = e)

-----------------------------------------------------------------------------
(* What docs and comments say, and the code does not do.                   *)

\* "a replay of the same Stripe `evt_...` id is a no-op: [...] no extra row is
\* written to the event log either".
ReplayIsNoOp == \A e \in DOMAIN events : CountIn(log, e) <= 1

\* "Successful events are appended to the billing event store and audited":
\* an event that has reached the row reaches the log.
AppliedGetsLogged ==
    \A e \in Ids :
        (\E i \in DOMAIN applied : applied[i] = e)
          ~> (\E i \in DOMAIN log : log[i] = e)

\* The table answers "what plan is tenant X on, right now?".
PlanIsCurrent == Quiet => GetPlan = PaidPlan

\* "Subscription-deleted events always collapse to ``free`` so the next
\* /validate / sign-in sees the tenant downgraded."
DeletedMeansFree ==
    \A i \in DOMAIN applied : KindAt(applied[i]) = "deleted" => GetPlan = "free"

\* "Webhook events that change subscription state also project onto the
\* `panakoes-dev-subscriptions` DynamoDB table".
ChangesAreProjected ==
    Quiet => \A e \in IdsOf(StateKinds) : \E i \in DOMAIN applied : applied[i] = e

\* "The `GET /subscription` endpoint returns the most recent event that carries
\* subscription state."
ViewIsLatestState ==
    LatestOf(StateKinds) # 0 => LatestOf(ViewKinds \cap StateKinds) = LatestOf(StateKinds)
=============================================================================
