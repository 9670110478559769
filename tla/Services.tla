-------------------------------- MODULE Services --------------------------------
(***************************************************************************)
(* The services and scripts that share nothing with one another, side by   *)
(* side: a step is a step of one of them.                                  *)
(***************************************************************************)
EXTENDS Integers, FiniteSets

CONSTANTS
    None,
    Tools,            \* TelemetryFlusher
    MaxSteps,
    HardStop,
    Groups,           \* CostReporting
    ServiceOf,
    Odd,
    Amounts,
    LastDay,
    MaxReports,
    Runs,
    CostRequests,
    Attempts,
    Signatures,       \* CostAnomalies
    Detectors,
    Quiet,
    Least,
    Deviations,
    MaxFeedClock,
    Bearers,          \* Access: requests
    Gates,            \* and the services they go to
    Kids,
    First,
    Ttl,
    MaxFetch,
    Life,
    MaxAge,
    MaxClock,
    Callers,          \* RateLimiter
    Budget,
    Window,
    Second,
    MaxDelay,
    MaxInstants,
    MaxHits,
    Probes,           \* HealthProbe: requests
    TargetGroups,
    CheckLogs,
    MaxChanges,
    MaxLog,
    PageSize,
    PRs,              \* PrMonitor
    Checks,
    Fixable,
    StallMin,
    MaxPolls,
    MaxTime,          \* GroqTranscript
    MaxWords,
    MaxSegments

\* Nothing and nobody is no number, ...
ASSUME NoneIsNoNumber == None \notin Nat

\* ... and none of the answers of what the health aggregator asks.
ASSUME HealthAssumption ==
    /\ None \notin {"absent", "rolling", "short", "full", "green", "red", "fresh",
                    "quiet", "healthy", "unhealthy"}
    /\ TargetGroups \cap {"ecs", "logs"} = {}
    /\ CheckLogs \in BOOLEAN

\* There are finitely many groups, and an amount is a number.
ASSUME CostAssumption ==
    /\ IsFiniteSet(Groups)
    /\ Amounts \subseteq Int /\ None \notin Amounts
    /\ LastDay \in Nat \ {0}

\* The flusher's iterations are counted.
ASSUME StepsAreBounded == MaxSteps \in Nat

\* AlertStateStore refuses a ttl_seconds that is not positive.
ASSUME QuietLasts == Quiet \in Nat \ {0}

\* Keys have names, one signs at the start, and neither tokens nor what a service
\* keeps of the keys are over at once.
ASSUME AccessAssumption ==
    /\ First \in Kids /\ None \notin Kids
    /\ Ttl \in Nat \ {0} /\ Life \in Nat \ {0} /\ MaxFetch \in Nat

\* The limit is a count, the window and the delays are durations.
ASSUME LimiterAssumption ==
    Budget \in Nat /\ Window \in Nat /\ Second \in Nat /\ MaxDelay \in Nat

\* --stall-min is a number of polls.
ASSUME StallAssumption == StallMin \in Nat

\* Groq answers for an audio of some length, with some words and some segments.
ASSUME GroqAssumption == MaxTime \in Nat /\ MaxWords \in Nat /\ MaxSegments \in Nat

VARIABLES fired, shim, file, pc, batch, stopping, made, trace, spans, stack,
          traceFile, open, sessionRow, rows, minted, lost, unsaved, breaks
telemetryVars == <<fired, shim, file, pc, batch, stopping, made, trace, spans,
                   stack, traceFile, open, sessionRow, rows, minted, lost,
                   unsaved, breaks>>

Telemetry == INSTANCE TelemetryFlusher

VARIABLES today, firedOn, ce, reports, rollup, run, settled, gone, asked, answered
costVars == <<today, firedOn, ce, reports, rollup, run, settled, gone, asked,
              answered>>

Cost == INSTANCE CostReporting WITH
    Requests <- CostRequests, fired <- firedOn, req <- asked, cache <- answered

VARIABLES clock, alerts, anomalies, monitor, feed
anomalyVars == <<clock, alerts, anomalies, monitor, feed>>

Anomalies == INSTANCE CostAnomalies WITH MaxClock <- MaxFeedClock

VARIABLES time, published, keyFrom, keyUntil, admin, adminUntil, keys, bearers
accessVars == <<time, published, keyFrom, keyUntil, admin, adminUntil, keys,
                bearers>>

Gate == INSTANCE Access WITH
    Requests <- Bearers, Services <- Gates,
    clock <- time, cache <- keys, req <- bearers

VARIABLES now, bucket, zset, zexpiry, stamp, answers
limiterVars == <<now, bucket, zset, zexpiry, stamp, answers>>

Limiter == INSTANCE RateLimiter WITH Limit <- Budget, MaxClock <- MaxInstants

VARIABLES ecs, healthy, log, changes, probes, got, seen
healthVars == <<ecs, healthy, log, changes, probes, got, seen>>

Health == INSTANCE HealthProbe WITH
    Requests <- Probes, Limit <- PageSize, req <- probes

VARIABLES poll, prs, pendingSeen, stalled, noChecks, actionable, left, events,
          since, told, carried, failed
monitorVars == <<poll, prs, pendingSeen, stalled, noChecks, actionable, left,
                 events, since, told, carried, failed>>

Monitor == INSTANCE PrMonitor

VARIABLES answer, result
groqVars == <<answer, result>>

Groq == INSTANCE GroqTranscript

servicesVars == <<telemetryVars, costVars, anomalyVars, accessVars, limiterVars,
                  healthVars, monitorVars, groqVars>>

ServicesInit ==
    /\ Telemetry!Init
    /\ Cost!Init
    /\ Anomalies!Init
    /\ Gate!Init
    /\ Limiter!Init
    /\ Health!Init
    /\ Monitor!Init
    /\ Groq!Init

TelemetryStep ==
    /\ Telemetry!Next
    /\ UNCHANGED <<costVars, anomalyVars, accessVars, limiterVars, healthVars,
                   monitorVars, groqVars>>
CostStep ==
    /\ Cost!Next
    /\ UNCHANGED <<telemetryVars, anomalyVars, accessVars, limiterVars, healthVars,
                   monitorVars, groqVars>>
AnomalyStep ==
    /\ Anomalies!Next
    /\ UNCHANGED <<telemetryVars, costVars, accessVars, limiterVars, healthVars,
                   monitorVars, groqVars>>
AccessStep ==
    /\ Gate!Next
    /\ UNCHANGED <<telemetryVars, costVars, anomalyVars, limiterVars, healthVars,
                   monitorVars, groqVars>>
LimiterStep ==
    /\ Limiter!Next
    /\ UNCHANGED <<telemetryVars, costVars, anomalyVars, accessVars, healthVars,
                   monitorVars, groqVars>>
HealthStep ==
    /\ Health!Next
    /\ UNCHANGED <<telemetryVars, costVars, anomalyVars, accessVars, limiterVars,
                   monitorVars, groqVars>>
MonitorStep ==
    /\ Monitor!Next
    /\ UNCHANGED <<telemetryVars, costVars, anomalyVars, accessVars, limiterVars,
                   healthVars, groqVars>>
GroqStep ==
    /\ Groq!Next
    /\ UNCHANGED <<telemetryVars, costVars, anomalyVars, accessVars, limiterVars,
                   healthVars, monitorVars>>

ServicesNext ==
    \/ TelemetryStep
    \/ CostStep
    \/ AnomalyStep
    \/ AccessStep
    \/ LimiterStep
    \/ HealthStep
    \/ MonitorStep
    \/ GroqStep

ServicesSpec == ServicesInit /\ [][ServicesNext]_servicesVars

-----------------------------------------------------------------------------
(* The properties of the instances, under the names they have there.        *)

\* A spooled event whose file the flusher unlinked is in the database.
UnlinkedIsRecorded == Telemetry!UnlinkedIsRecorded

\* A session has one trace, and the two events of a tool call one span.
TracesHoldTogether == Telemetry!OneTracePerSession /\ Telemetry!PairsShareSpan

\* The views of the cost service agree on days that were copied undisturbed, and a
\* total of closed days that nothing restated meanwhile is exact.
CostsAreRight == Cost!ViewsReconcile /\ Cost!QuietAnswerIsExact

\* The anomaly feed shows no alert that is over.
NoDeadAlerts == Anomalies!NoDeadAlerts

\* Withdrawn keys and withdrawn roles are refused within their time, and a token is
\* not refused for a key that is published all along.
AccessIsCurrent ==
    Gate!WithdrawnKeysExpire /\ Gate!DemotionTakesEffect /\ Gate!PublishedKeysAreFound

\* No window admits more requests than the limit.
BudgetHolds == Limiter!BudgetHolds

\* The verdict of the health aggregator was true of each source at some time.
VerdictHasCause == Health!VerdictHasCause

\* A condition that lasts is told once.
ToldOncePerTransition == Monitor!ToldOncePerTransition

\* Each word is in one segment of the transcript.
EachWordOnce == Groq!EachWordOnce
=============================================================================
