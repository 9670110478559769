------------------------------ MODULE HealthProbe ------------------------------
(***************************************************************************)
(* health-aggregator: GET /health and GET /services/{name}, for one        *)
(* service of the registry.  A probe reads the service's ECS state, its    *)
(* target groups and its log group in parallel, so each read sees another  *)
(* instant; one read that raises makes the whole probe an error.           *)
(***************************************************************************)
EXTENDS Naturals, Sequences, FiniteSets

CONSTANTS
    Requests,
    TargetGroups,  \* of the service: empty, for every service registered today
    CheckLogs,     \* check_logs, and the entry has a log group
    MaxChanges,    \* bound on changes of the service
    MaxLog,        \* bound on the log events of the window
    Limit,         \* of get_recent_events and get_recent_errors
    None

\* deployments # 1; running # desired; neither.
EcsStates == {"absent", "rolling", "short", "full"}
Messages == {"info", "error1", "error2"}
Sources == {"ecs"} \cup TargetGroups \cup (IF CheckLogs THEN {"logs"} ELSE {})

VARIABLES
    ecs,      \* the service in ECS
    healthy,  \* target groups all of whose targets are healthy
    log,      \* the messages in the window, oldest first
    changes,
    req,      \* requests: kind, position, and the answer
    got,      \* what each read of a request brought; None: not yet
    seen      \* history: all that was true of a source since the request began

vars == <<ecs, healthy, log, changes, req, got, seen>>

Fact(source) ==
    CASE source = "ecs"  -> ecs
      [] source = "logs" -> IF log = <<>> THEN "quiet" ELSE "fresh"
      [] OTHER -> IF source \in healthy THEN "green" ELSE "red"

Init ==
    /\ ecs \in EcsStates
    /\ healthy \in SUBSET TargetGroups
    /\ log = <<>>
    /\ changes = 0
    /\ req = [q \in Requests |-> [pc |-> "idle", kind |-> None, status |-> None,
                                  logs |-> None, recent |-> <<>>, errors |-> {}]]
    /\ got = [q \in Requests |-> [s \in Sources |-> None]]
    /\ seen = [q \in Requests |-> [s \in Sources |-> {}]]

\* What is true now is seen by every probe that is under way.
See == seen' = [q \in Requests |->
                  IF req[q].pc = "probe"
                  THEN [s \in Sources |-> seen[q][s] \cup {Fact(s)'}] ELSE seen[q]]

-----------------------------------------------------------------------------
(* External: the service.                                                  *)

Change ==
    /\ changes < MaxChanges
    /\ changes' = changes + 1
    /\ \/ ecs' \in EcsStates \ {ecs} /\ UNCHANGED <<healthy, log>>
       \/ \E g \in TargetGroups :
            healthy' = (healthy \ {g}) \cup ({g} \ healthy) /\ UNCHANGED <<ecs, log>>
       \/ \E m \in Messages : Len(log) < MaxLog /\ log' = Append(log, m)
            /\ UNCHANGED <<ecs, healthy>>
       \/ log # <<>> /\ log' = Tail(log) /\ UNCHANGED <<ecs, healthy>>
    /\ See
    /\ UNCHANGED <<req, got>>

-----------------------------------------------------------------------------
(* A probe.                                                                *)

\* get_health_snapshot, get_service_detail.
Ask(q, kind) ==
    /\ req[q].pc = "idle"
    /\ req' = [req EXCEPT ![q].pc = "probe", ![q].kind = kind]
    /\ seen' = [seen EXCEPT ![q] = [s \in Sources |-> {Fact(s)}]]
    /\ UNCHANGED <<ecs, healthy, log, changes, got>>

\* describe_service, all_targets_healthy (an empty group is red),
\* has_recent_event, whose one page may be empty though there are events.
Answers(source) ==
    {Fact(source), "raised"} \cup (IF source = "logs" THEN {"quiet"} ELSE {})

Read(q, source) ==
    /\ req[q].pc = "probe"
    /\ got[q][source] = None
    /\ \E answer \in Answers(source) : got' = [got EXCEPT ![q][source] = answer]
    /\ UNCHANGED <<ecs, healthy, log, changes, req, seen>>

Raised(answers) == \E s \in Sources : answers[s] = "raised"
Complete(answers) == \A s \in Sources : answers[s] # None

\* A faulty variant: a read that raised has no say in the verdict.
LenientStatus(answers) ==
    IF answers["ecs"] \in {"absent", "rolling"} THEN "unknown"
    ELSE IF answers["ecs"] = "short" \/ \E g \in TargetGroups : answers[g] = "red"
    THEN "unhealthy"
    ELSE IF CheckLogs /\ answers["logs"] = "quiet" THEN "unknown" ELSE "healthy"

\* status_from_probe.
Status(answers) ==
    IF Raised(answers) \/ answers["ecs"] \in {"absent", "rolling"} THEN "unknown"
    ELSE IF answers["ecs"] = "short" \/ \E g \in TargetGroups : answers[g] = "red"
    THEN "unhealthy"
    ELSE IF CheckLogs /\ answers["logs"] = "quiet" THEN "unknown" ELSE "healthy"

\* FilterLogEvents gives the oldest events of the window first.
Page(messages) == SubSeq(messages, 1, IF Len(messages) < Limit THEN Len(messages) ELSE Limit)
IsError(m) == m # "info"

\* get_recent_errors: the messages of a page, each with its count.
CountErrors(page) ==
    {[message |-> m, count |-> Cardinality({i \in DOMAIN page : page[i] = m})] :
       m \in {page[i] : i \in DOMAIN page}}

\* The log reads of detail_for, beside the probe; its metrics never raise.
ReadLogs(q) ==
    /\ req[q].pc = "probe" /\ req[q].kind = "detail" /\ req[q].logs = None
    /\ \/ req' = [req EXCEPT ![q].logs = "read",
                             ![q].recent = Page(log),
                             ![q].errors = CountErrors(Page(SelectSeq(log, IsError)))]
       \/ req' = [req EXCEPT ![q].logs = "raised"]
    /\ UNCHANGED <<ecs, healthy, log, changes, got, seen>>

\* gather: all reads, or the first that raises.  A read of the probe that
\* raises makes the service unknown, a log read of the page makes a 500.
Conclude(q) ==
    /\ req[q].pc = "probe"
    /\ \/ /\ Complete(got[q]) \/ Raised(got[q])
          /\ req[q].kind = "detail" => req[q].logs = "read"
          /\ req' = [req EXCEPT ![q].pc = "answered", ![q].status = Status(got[q])]
       \/ req[q].logs = "raised" /\ req' = [req EXCEPT ![q].pc = "error"]
    /\ UNCHANGED <<ecs, healthy, log, changes, got, seen>>

Next ==
    \/ Change
    \/ \E q \in Requests :
        \/ \E kind \in {"snapshot", "detail"} : Ask(q, kind)
        \/ \E source \in Sources : Read(q, source)
        \/ ReadLogs(q) \/ Conclude(q)

Spec == Init /\ [][Next]_vars

-----------------------------------------------------------------------------
(* Properties.                                                             *)

\* However the service changes under the reads, and whichever of them raise, a
\* verdict has a cause within the probe: of a healthy service every read was
\* good at some instant, of an unhealthy one some read was bad.
VerdictHasCause ==
    \A q \in Requests :
        /\ req[q].status = "healthy" =>
             /\ "full" \in seen[q]["ecs"]
             /\ \A g \in TargetGroups : "green" \in seen[q][g]
             /\ CheckLogs => "fresh" \in seen[q]["logs"]
        /\ req[q].status = "unhealthy" =>
             "short" \in seen[q]["ecs"] \/ \E g \in TargetGroups : "red" \in seen[q][g]

-----------------------------------------------------------------------------
(* What docstrings say, and the code does not do.                          *)

\* get_recent_events: "Return the most recent log entries".
RecentAreNewest ==
    [][\A q \in Requests : ReadLogs(q) /\ req'[q].logs = "read" /\ log # <<>> =>
         req'[q].recent[Len(req'[q].recent)] = log[Len(log)]]_vars
=============================================================================
