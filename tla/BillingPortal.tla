----------------------------- MODULE BillingPortal -----------------------------
(***************************************************************************)
(* billing: POST /checkout-session and POST /portal-session of one user.   *)
(* The log of billing events is the only memory of the user's customer at  *)
(* Stripe: a portal request looks the customer up, and creates and records *)
(* one if there is none.  A checkout is paid at Stripe, which makes a      *)
(* customer of its own for it; the webhook (Billing) records that one.     *)
(***************************************************************************)
EXTENDS Naturals, Sequences, FiniteSets

CONSTANTS
    Requests,
    MaxPayments,  \* bound on checkouts that are paid
    MaxFaults,    \* bound on calls that fail
    None

VARIABLES
    customers,  \* Stripe: what made customer number i, "portal" or "checkout"
    events,     \* the user's event log: the customer each event names, 0 for none
    unlogged,   \* customers of paid checkouts, their webhook still to be recorded
    req,        \* requests: position, and the customer found or made
    sessions,   \* history: the customers portal sessions were opened for
    crossed,    \* history: a webhook recorded its customer while a portal
                \* request was between its look-up and its own record
    raced,      \* history: two portal requests were there at once
    faults

vars == <<customers, events, unlogged, req, sessions, crossed, raced, faults>>

Init ==
    /\ customers = <<>> /\ events = <<>> /\ unlogged = {}
    /\ req = [q \in Requests |-> [pc |-> "idle", customer |-> None]]
    /\ sessions = {}
    /\ crossed = FALSE /\ raced = FALSE
    /\ faults = 0

Goto(q, pc, customer) == req' = [req EXCEPT ![q] = [pc |-> pc, customer |-> customer]]
At(q, pc) == req[q].pc = pc
Made(how) == {c \in DOMAIN customers : customers[c] = how}

\* Portal requests that found no customer and have recorded none.
Creating == {q \in Requests : req[q].pc \in {"create", "record"}}

\* BillingEventStore.append.
AppendEvent(customer) == events' = Append(events, customer)

\* A call to Stripe or to the table raises, and the request ends with a 500.
CallFails(q) ==
    /\ faults < MaxFaults
    /\ faults' = faults + 1
    /\ Goto(q, "error", None)

-----------------------------------------------------------------------------
(* POST /checkout-session.                                                 *)

\* The arguments name an e-mail address, not a customer.
StartCheckout(q) ==
    /\ At(q, "idle")
    /\ \/ Goto(q, "started", None) /\ UNCHANGED faults
       \/ CallFails(q)
    /\ UNCHANGED <<customers, events, unlogged, sessions, crossed, raced>>

LogCheckout(q) ==
    /\ At(q, "started")
    /\ \/ AppendEvent(0) /\ Goto(q, "checkout", None) /\ UNCHANGED faults
       \/ CallFails(q) /\ UNCHANGED events
    /\ UNCHANGED <<customers, unlogged, sessions, crossed, raced>>

\* External: the user pays, Stripe makes the customer.
Pay(q) ==
    /\ At(q, "checkout")
    /\ Cardinality(Made("checkout")) < MaxPayments
    /\ customers' = Append(customers, "checkout")
    /\ unlogged' = unlogged \cup {Len(customers')}
    /\ Goto(q, "paid", None)
    /\ UNCHANGED <<events, sessions, crossed, raced, faults>>

\* handle_webhook, in the order the events come in.
WebhookRecords(c) ==
    /\ c \in unlogged
    /\ AppendEvent(c)
    /\ unlogged' = unlogged \ {c}
    /\ crossed' = (crossed \/ Creating # {})
    /\ UNCHANGED <<customers, req, sessions, raced, faults>>

-----------------------------------------------------------------------------
(* POST /portal-session.                                                   *)

Recorded == {i \in DOMAIN events : events[i] # 0}

\* A faulty variant: the events are walked oldest first.
FindOldest ==
    IF Recorded = {} THEN None
    ELSE events[CHOOSE i \in Recorded : \A j \in Recorded : i <= j]

\* find_customer_id: newest first, the first event that names a customer.
FindCustomer ==
    IF Recorded = {} THEN None
    ELSE events[CHOOSE i \in Recorded : \A j \in Recorded : j <= i]

\* The return URL is on the allow list or refused; then the look-up.
OpenPortal(q) ==
    /\ At(q, "idle")
    /\ IF FindCustomer = None
       THEN Goto(q, "create", None) /\ raced' = (raced \/ Creating # {})
       ELSE Goto(q, "session", FindCustomer) /\ UNCHANGED raced
    /\ UNCHANGED <<customers, events, unlogged, sessions, crossed, faults>>

\* Customer.create has no idempotency key: a call whose answer is lost has
\* made a customer nobody knows of.
CreateCustomer(q) ==
    /\ At(q, "create")
    /\ \/ /\ customers' = Append(customers, "portal")
          /\ \/ Goto(q, "record", Len(customers')) /\ UNCHANGED faults
             \/ CallFails(q)
       \/ CallFails(q) /\ UNCHANGED customers
    /\ UNCHANGED <<events, unlogged, sessions, crossed, raced>>

RecordCustomer(q) ==
    /\ At(q, "record")
    /\ \/ /\ AppendEvent(req[q].customer)
          /\ Goto(q, "session", req[q].customer)
          /\ UNCHANGED faults
       \/ CallFails(q) /\ UNCHANGED events
    /\ UNCHANGED <<customers, unlogged, sessions, crossed, raced>>

CreateSession(q) ==
    /\ At(q, "session")
    /\ \/ /\ sessions' = sessions \cup {req[q].customer}
          /\ Goto(q, "answered", req[q].customer)
          /\ UNCHANGED faults
       \/ CallFails(q) /\ UNCHANGED sessions
    /\ UNCHANGED <<customers, events, unlogged, crossed, raced>>

Next ==
    \/ \E q \in Requests :
        \/ StartCheckout(q) \/ LogCheckout(q) \/ Pay(q)
        \/ OpenPortal(q) \/ CreateCustomer(q) \/ RecordCustomer(q) \/ CreateSession(q)
    \/ \E c \in unlogged : WebhookRecords(c)

Spec == Init /\ [][Next]_vars

-----------------------------------------------------------------------------
(* Properties.                                                             *)

Paying == Made("checkout")
PaymentIsRecorded == \E i \in DOMAIN events : events[i] \in Paying

\* Once the webhook has recorded a customer that pays, whoever opens the portal
\* gets to such a customer, unless a portal request was creating one when the
\* webhook wrote; failed calls do not change that.
PortalReachesPayer ==
    PaymentIsRecorded /\ ~crossed => FindCustomer \in Paying

\* Portal requests one after another share one customer, as long as no call
\* fails.
PortalsShareCustomer ==
    ~raced /\ faults = 0 => \A c, d \in Made("portal") : c = d

-----------------------------------------------------------------------------
(* What docs and comments say, and the code does not do.                   *)

\* "so the same user always lands in their own Stripe portal session".
AlwaysOwnPortal == PaymentIsRecorded => FindCustomer \in Paying

\* "so future portal sessions find it without re-creating a customer".
NeverRecreated == Cardinality(Made("portal")) <= 1
=============================================================================
