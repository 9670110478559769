------------------------------ MODULE MCServices ------------------------------
(***************************************************************************)
(* Small instances of Services.  Each behaviour belongs to one component,  *)
(* its focus, and the others stay as they start: the states of the run are *)
(* the sum of theirs, not the product.  Two components are looked at under *)
(* two bounds each: the cost service at its writers and at its readers,    *)
(* the access checks at two requests that share a cache and at one request *)
(* to any of the services.                                                 *)
(***************************************************************************)
EXTENDS Services

CONSTANTS ARun, ABearer, AGate

ServiceOfGroup == [g \in Groups |-> 1]

VARIABLE focus

MCInit ==
    /\ focus \in {"telemetry", "cost writers", "cost readers", "anomalies",
                  "shared cache", "all services", "limiter", "health",
                  "monitor", "groq"}
    /\ focus # "anomalies" => monitor = TRUE
    /\ focus # "health" => ecs = "full" /\ healthy = {}
    /\ focus # "monitor" => prs = <<>>
    /\ focus # "groq" =>
         answer = [status |-> None, words |-> <<>>, segments |-> <<>>]
    /\ ServicesInit

\* No window reaches beyond the day before the last.
ClosedDays == ce'[LastDay] = ce[LastDay] /\ \A r \in Runs : run'[r].day < LastDay
NobodyReads ==
    /\ Cost!AggregatorNext
    /\ ClosedDays
    /\ UNCHANGED <<telemetryVars, anomalyVars, accessVars, limiterVars, healthVars,
                   monitorVars, groqVars>>
OneWriter == ClosedDays /\ reports' <= 1 /\ \A r \in Runs : run'[r].pc # "idle" => r = ARun
OneGate == time' <= 2 /\ \A q \in Bearers : bearers'[q].service \in {AGate, None}
\* What a closed pull request does, a merged one does as well.
NoneClosed == \A p \in DOMAIN prs' : prs'[p].s # "CLOSED"
OneBearer == \A q \in Bearers : bearers'[q].pc # "idle" => q = ABearer

MCNext ==
    /\ UNCHANGED focus
    /\ \/ focus = "telemetry" /\ TelemetryStep
       \/ focus = "cost writers" /\ NobodyReads
       \/ focus = "cost readers" /\ CostStep /\ OneWriter
       \/ focus = "anomalies" /\ AnomalyStep
       \/ focus = "shared cache" /\ AccessStep /\ OneGate
       \/ focus = "all services" /\ AccessStep /\ OneBearer
       \/ focus = "limiter" /\ LimiterStep
       \/ focus = "health" /\ HealthStep
       \/ focus = "monitor" /\ MonitorStep /\ NoneClosed
       \/ focus = "groq" /\ GroqStep

MCSpec == MCInit /\ [][MCNext]_<<focus, servicesVars>>
=============================================================================
