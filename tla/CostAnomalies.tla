----------------------------- MODULE CostAnomalies -----------------------------
(***************************************************************************)
(* The anomaly feed of services/cost-api: alert-state rows with an expiry, *)
(* which DynamoDB sweeps late, joined with what Cost Explorer detects.     *)
(***************************************************************************)
EXTENDS Integers, FiniteSets

CONSTANTS
    Signatures,  \* alert signatures, which are CE's anomaly ids
    Detectors,
    Quiet,       \* the quiet period, ttl_seconds
    Least,       \* min_deviation_pct
    Deviations,  \* deviations CE may report
    MaxClock,    \* bound: the clock
    None

VARIABLES
    clock,
    alerts,    \* the alert-state table: signature -> row or None
    anomalies, \* what CE detects: signature -> anomaly or None
    monitor,   \* an Anomaly Monitor is configured
    feed       \* the request to GET /anomalies

vars == <<clock, alerts, anomalies, monitor, feed>>
tables == <<alerts, anomalies, monitor>>

Idle == [pc |-> "idle", filter |-> None, active |-> {}, at |-> 0,
         found |-> {}, list |-> {}, code |-> 0]

Init ==
    /\ clock = 0
    /\ alerts = [s \in Signatures |-> None]
    /\ anomalies = [s \in Signatures |-> None]
    /\ monitor \in BOOLEAN
    /\ feed = Idle

Tick == clock < MaxClock /\ clock' = clock + 1 /\ UNCHANGED <<tables, feed>>

\* AlertStateStore.put; a row put by something else may lack a readable payload.
Put(s, detector, readable) ==
    /\ alerts' = [alerts EXCEPT ![s] =
         [expires |-> clock + Quiet, detector |-> detector, readable |-> readable]]
    /\ UNCHANGED <<clock, anomalies, monitor, feed>>

\* DynamoDB removes an expired row, sooner or later.
Sweep(s) ==
    /\ alerts[s] # None /\ alerts[s].expires <= clock
    /\ alerts' = [alerts EXCEPT ![s] = None]
    /\ UNCHANGED <<clock, anomalies, monitor, feed>>

\* CE detects an anomaly.
Detect(s, detector, deviation) ==
    /\ anomalies[s] = None
    /\ anomalies' = [anomalies EXCEPT ![s] =
                       [detector |-> detector, deviation |-> deviation]]
    /\ UNCHANGED <<clock, alerts, monitor, feed>>

Alive(row) == row.expires > clock

\* A faulty variant: what the table still has is active.
StillThere(row) == TRUE

\* What scan_active takes for active.
IsActive(row) == Alive(row)

\* scan_active and read_active_alerts.
Active(filter) ==
    {s \in Signatures :
        /\ alerts[s] # None /\ alerts[s].readable /\ IsActive(alerts[s])
        /\ filter \in {None, alerts[s].detector}}

\* get_cost_anomalies: active_only answers from the table.
Ask(filter, activeOnly) ==
    /\ feed.pc = "idle"
    /\ LET active == Active(filter)
       IN  feed' = [pc |-> IF activeOnly THEN "done" ELSE "detect",
                    filter |-> filter, active |-> active, at |-> clock, found |-> {},
                    list |-> IF activeOnly
                             THEN {[signature |-> s, suppressed |-> FALSE] : s \in active}
                             ELSE {},
                    code |-> IF activeOnly THEN 200 ELSE 0]
    /\ UNCHANGED <<clock, tables>>

Magnitude(x) == IF x < 0 THEN -x ELSE x

\* detect_from_cost_explorer: without a monitor there is nothing.
Fresh ==
    IF ~monitor THEN {}
    ELSE {s \in Signatures :
            /\ anomalies[s] # None
            /\ Magnitude(anomalies[s].deviation) >= Least}

\* The await ends; what was found is merged into what was active before it.
Detected ==
    /\ feed.pc = "detect"
    /\ LET fresh == {s \in Fresh : feed.filter \in {None, anomalies[s].detector}}
       IN  feed' = [feed EXCEPT !.pc = "done", !.code = 200, !.found = fresh,
             !.list = {[signature |-> s, suppressed |-> s \in feed.active \cap fresh] :
                         s \in feed.active \cup fresh}]
    /\ UNCHANGED <<clock, tables>>

\* CE times out, 503, or refuses, 502.
DetectFails ==
    /\ feed.pc = "detect"
    /\ \E code \in {502, 503} : feed' = [feed EXCEPT !.pc = "done", !.code = code]
    /\ UNCHANGED <<clock, tables>>

Again == feed.pc = "done" /\ feed' = Idle /\ UNCHANGED <<clock, tables>>

Next ==
    \/ Tick
    \/ \E s \in Signatures, d \in Detectors :
         \/ \E readable \in BOOLEAN : Put(s, d, readable)
         \/ \E deviation \in Deviations : Detect(s, d, deviation)
    \/ \E s \in Signatures : Sweep(s)
    \/ \E f \in Detectors \cup {None}, activeOnly \in BOOLEAN : Ask(f, activeOnly)
    \/ Detected \/ DetectFails \/ Again

Spec == Init /\ [][Next]_vars

-----------------------------------------------------------------------------
(* Properties.                                                             *)

\* The sweeper's delay does not show: an alert in the feed that CE did not
\* report had not expired when the request read the table.
NoDeadAlerts ==
    \A a \in feed.list :
        a.signature \notin feed.found =>
            /\ ~a.suppressed
            /\ alerts[a.signature] # None =>
                 alerts[a.signature].expires > feed.at

\* What the comment in get_cost_anomalies says and the code does not do: "Active
\* alerts themselves appear once, with `suppressed=false`".
ActiveIsNotSuppressed ==
    \A a \in feed.list : a.signature \in feed.active => ~a.suppressed
=============================================================================
