----------------------------- MODULE CostReporting -----------------------------
(***************************************************************************)
(* services/cost-rollup-aggregator and the cost routes of                  *)
(* services/cost-api.  A Lambda copies what Cost Explorer (CE) reports of  *)
(* a day into the tenant rollup table; the by-tenant route adds the rows   *)
(* of a window up, the by-service and forecast routes ask CE; each keeps   *)
(* its answers in the cache table.  Amounts are tenths of a cent, all days *)
(* are in one month, and an answer stands for its total.                   *)
(***************************************************************************)
EXTENDS Integers, FiniteSets, Functions

CONSTANTS
    Groups,      \* the (tenant, service) pairs CE groups spend by
    ServiceOf,   \* the service of a group
    Odd,         \* groups whose service name contains the key separator
    Amounts,     \* what CE reports for a group of a day, tenths of a cent
    LastDay,     \* bound: days
    MaxReports,  \* bound: reports and restatements of CE
    Runs,        \* bound: runs of the aggregator, nightly or by hand
    Requests,    \* bound: requests
    Attempts,    \* THROTTLE_RETRY_ATTEMPTS
    None

VARIABLES
    today,    \* the UTC day
    fired,    \* the last day the schedule has fired on
    ce,       \* what CE reports: day -> group -> amount or None
    reports,  \* how many reports there have been
    rollup,   \* the rollup table: day -> group -> cents or None
    run,      \* the runs of the aggregator
    settled,  \* history: days copied by a run that nothing interfered with
    gone,     \* history: days a group vanished from after it was reported
    req,      \* the requests
    cache     \* the cache table: [kind, window] -> entry or None

vars == <<today, fired, ce, reports, rollup, run, settled, gone, req, cache>>
ceVars == <<ce, reports, gone>>
dayVars == <<today, fired>>

Days == 1 .. LastDay
Services == {ServiceOf[g] : g \in Groups}

\* Days from `from` (inclusive) to `to` (exclusive); an inverted window is
\* refused, an empty one is not.
Windows == {w \in [from : Days, to : Days] : w.from <= w.to}
DaysOf(w) == w.from .. w.to - 1
Kinds == {"by-service", "by-tenant", "forecast"}
Keys == [kind : Kinds, window : Windows]

-----------------------------------------------------------------------------
(* Money.                                                                  *)

\* _usd_to_cents: ROUND_HALF_UP, and a refund counts as nothing.
UsdToCents(a) == IF a < 0 THEN 0 ELSE (a + 5) \div 10

\* round(float * 100): half to even, with its sign.
RoundEven(a) ==
    LET q == a \div 10
        r == a % 10
    IN  IF r < 5 \/ (r = 5 /\ q % 2 = 0) THEN q ELSE q + 1

Known(d) == {g \in Groups : ce[d][g] # None}

\* What CE sums up for a service in a window, and _parse_response.
ServiceSpend(s, w) ==
    SumFunction([d \in DaysOf(w) |->
        SumFunction([g \in {h \in Known(d) : ServiceOf[h] = s} |-> ce[d][g]])])
ServiceCents(s, w) == RoundEven(ServiceSpend(s, w))
ServiceTotal(w) == SumFunction([s \in Services |-> ServiceCents(s, w)])

Present(d) == {g \in Groups : rollup[d][g] # None}

\* query_all_tenants_for_day and the sums of _aggregate_window for one day.
DayTotal(d) == SumFunction([g \in Present(d) |-> rollup[d][g]])
WindowTotal(w) == SumFunction([d \in DaysOf(w) |-> DayTotal(d)])

\* get_cost_forecast starts today, whatever CE knows.
ForecastKey == [kind |-> "forecast", window |-> [from |-> today, to |-> today]]

-----------------------------------------------------------------------------

IdleRun == [pc |-> "idle", day |-> 0, left |-> {}, page |-> {}, alone |-> FALSE]
IdleReq == [pc |-> "idle", key |-> None, tries |-> 0, day |-> 0, sum |-> 0,
            expected |-> 0, quiet |-> FALSE, code |-> 0]

Init ==
    /\ today = 1 /\ fired = 0
    /\ ce = [d \in Days |-> [g \in Groups |-> None]] /\ reports = 0
    /\ rollup = [d \in Days |-> [g \in Groups |-> None]]
    /\ run = [r \in Runs |-> IdleRun]
    /\ settled = {} /\ gone = {}
    /\ req = [q \in Requests |-> IdleReq]
    /\ cache = [k \in Keys |-> None]

NextDay ==
    /\ today < LastDay
    /\ today' = today + 1
    /\ UNCHANGED <<fired, ceVars, rollup, run, settled, req, cache>>

\* CE reports a day, or restates it; a retagged resource moves its spend from
\* one group to another.
Report(d, spend) ==
    /\ d <= today
    /\ reports < MaxReports
    /\ reports' = reports + 1
    /\ ce' = [ce EXCEPT ![d] = spend]
    /\ spend # ce[d]
    /\ gone' = IF \E g \in Known(d) : spend[g] = None THEN gone \cup {d} ELSE gone
    /\ settled' = settled \ {d}
    /\ run' = [r \in Runs |->
                 IF run[r].day = d THEN [run[r] EXCEPT !.alone = FALSE] ELSE run[r]]
    /\ UNCHANGED <<dayVars, rollup, req, cache>>

-----------------------------------------------------------------------------
(* The aggregator.                                                         *)

Active(r) == run[r].pc \in {"call", "put"}

\* Two runs for a day disturb each other.
StartRun(r, d) ==
    /\ run[r].pc = "idle"
    /\ LET others == {o \in Runs : Active(o) /\ run[o].day = d}
       IN  run' = [o \in Runs |->
                     IF o = r THEN [pc |-> "call", day |-> d, left |-> Groups,
                                    page |-> {}, alone |-> others = {}]
                     ELSE IF o \in others THEN [run[o] EXCEPT !.alone = FALSE]
                     ELSE run[o]]
    /\ settled' = settled \ {d}
    /\ UNCHANGED <<today, ceVars, rollup, req, cache>>

\* _resolve_day: the schedule fires once a day, with no retry, for the day before;
\* an operator names a day.
Nightly(r) == today > 1 /\ fired < today /\ fired' = today /\ StartRun(r, today - 1)
Replay(r) == \E d \in Days : StartRun(r, d) /\ UNCHANGED fired

\* get_cost_and_usage: a page of groups; NextPageToken unless it is the last.
CallCe(r) ==
    /\ run[r].pc = "call"
    /\ \E page \in SUBSET run[r].left :
         /\ page # {}
         /\ run' = [run EXCEPT
              ![r].left = @ \ page,
              ![r].page = {<<g, ce[run[r].day][g]>> :
                             g \in page \cap Known(run[r].day)},
              ![r].pc = "put"]
    /\ UNCHANGED <<dayVars, ceVars, rollup, settled, req, cache>>

\* put_rollup for a group of the page; the separator in a service name raises.
Put(r) ==
    /\ run[r].pc = "put"
    /\ \E item \in run[r].page :
         IF item[1] \in Odd
         THEN /\ run' = [run EXCEPT ![r].pc = "failed"]
              /\ UNCHANGED rollup
         ELSE /\ run' = [run EXCEPT ![r].page = @ \ {item}]
              /\ rollup' = [rollup EXCEPT ![run[r].day][item[1]] =
                              UsdToCents(item[2])]
    /\ req' = [q \in Requests |-> [req[q] EXCEPT !.quiet = FALSE]]
    /\ UNCHANGED <<dayVars, ceVars, settled, cache>>

\* A faulty variant: NextPageToken is ignored.
OnePage(r) == FALSE

HasNextPage(r) == run[r].left # {}

NextPage(r) ==
    /\ run[r].pc = "put" /\ run[r].page = {}
    /\ LET more == HasNextPage(r)
       IN  /\ run' = [run EXCEPT ![r].pc = IF more THEN "call" ELSE "done"]
           /\ settled' = IF ~more /\ run[r].alone
                         THEN settled \cup {run[r].day} ELSE settled
    /\ UNCHANGED <<dayVars, ceVars, rollup, req, cache>>

\* A ClientError of CE or of the table, or the Lambda timeout: what has been put
\* stays.
RunFails(r) ==
    /\ Active(r)
    /\ run' = [run EXCEPT ![r].pc = "failed"]
    /\ UNCHANGED <<dayVars, ceVars, rollup, settled, req, cache>>

-----------------------------------------------------------------------------
(* The routes.                                                             *)

Answer(q, code) == [req[q] EXCEPT !.pc = "done", !.code = code]

\* DateRange, then CostCache.get, which does not look at expires_at.
Get(q, kind, w) ==
    /\ req[q].pc = "idle"
    /\ LET key == IF kind = "forecast" THEN ForecastKey
                  ELSE [kind |-> kind, window |-> w]
           hit == cache[key] # None
       IN  req' = [req EXCEPT ![q] =
             [pc |-> CASE hit -> "done"
                       [] ~hit /\ kind = "by-tenant" -> "scan"
                       [] OTHER -> "call",
              key |-> key, tries |-> 0, day |-> w.from,
              sum |-> IF hit THEN cache[key].sum ELSE 0,
              expected |-> WindowTotal(w), quiet |-> TRUE,
              code |-> IF hit THEN 200 ELSE 0]]
    /\ UNCHANGED <<dayVars, ceVars, rollup, run, settled, cache>>

\* A faulty variant: the end of the window is taken to be inclusive.
WithinClosed(day, w) == day <= w.to

Within(day, w) == day < w.to

\* One day of _aggregate_window; then CostCache.put.
ScanDay(q) ==
    /\ req[q].pc = "scan"
    /\ IF Within(req[q].day, req[q].key.window)
       THEN /\ req' = [req EXCEPT ![q].sum = @ + DayTotal(req[q].day),
                                  ![q].day = @ + 1]
            /\ UNCHANGED cache
       ELSE /\ req' = [req EXCEPT ![q] = Answer(q, 200)]
            /\ cache' = [cache EXCEPT ![req[q].key] = [sum |-> req[q].sum]]
    /\ UNCHANGED <<dayVars, ceVars, rollup, run, settled>>

\* _call_with_retry: a throttled call is repeated up to Attempts times.
CeThrottles(q) ==
    /\ req[q].pc = "call"
    /\ req' = IF req[q].tries + 1 < Attempts
              THEN [req EXCEPT ![q].tries = @ + 1]
              ELSE [req EXCEPT ![q] = Answer(q, 502)]
    /\ UNCHANGED <<dayVars, ceVars, rollup, run, settled, cache>>

\* A timeout, a refused range, another ClientError: nothing is cached.
CeFails(q) ==
    /\ req[q].pc = "call"
    /\ \E code \in {400, 502, 503} : req' = [req EXCEPT ![q] = Answer(q, code)]
    /\ UNCHANGED <<dayVars, ceVars, rollup, run, settled, cache>>

\* CE answers; a service with a negative total is no CostByService, and the
\* ValidationError is nobody's to catch.
CeAnswers(q) ==
    /\ req[q].pc = "call"
    /\ LET w == req[q].key.window
           byService == req[q].key.kind = "by-service"
       IN  req' = IF byService /\ \E s \in Services : ServiceCents(s, w) < 0
                  THEN [req EXCEPT ![q] = Answer(q, 500)]
                  ELSE [req EXCEPT ![q].pc = "answered",
                                   ![q].sum = IF byService THEN ServiceTotal(w) ELSE 0]
    /\ UNCHANGED <<dayVars, ceVars, rollup, run, settled, cache>>

\* Back from the await: CostCache.put, over what others have put meanwhile.
PutAnswer(q) ==
    /\ req[q].pc = "answered"
    /\ cache' = [cache EXCEPT ![req[q].key] = [sum |-> req[q].sum]]
    /\ req' = [req EXCEPT ![q] = Answer(q, 200)]
    /\ UNCHANGED <<dayVars, ceVars, rollup, run, settled>>

\* DynamoDB drops a row some time after its expires_at.
Sweep(k) ==
    /\ cache[k] # None
    /\ cache' = [cache EXCEPT ![k] = None]
    /\ UNCHANGED <<dayVars, ceVars, rollup, run, settled, req>>

AggregatorNext ==
    \/ NextDay
    \/ \E d \in Days, spend \in [Groups -> Amounts \cup {None}] : Report(d, spend)
    \/ \E r \in Runs :
         Nightly(r) \/ Replay(r) \/ CallCe(r) \/ Put(r) \/ NextPage(r) \/ RunFails(r)

RouteNext ==
    \/ \E q \in Requests :
         \/ \E kind \in Kinds, w \in Windows : Get(q, kind, w)
         \/ ScanDay(q) \/ CeThrottles(q) \/ CeFails(q) \/ CeAnswers(q) \/ PutAnswer(q)
    \/ \E k \in Keys : Sweep(k)

Next == AggregatorNext \/ RouteNext

Spec == Init /\ [][Next]_vars

-----------------------------------------------------------------------------
(* Properties.                                                             *)

NoRefund(w) == \A d \in DaysOf(w) : \A g \in Known(d) : ce[d][g] >= 0

\* "Matches the by-service route's exact arithmetic so the two views reconcile
\* to within rounding noise" (routes/cost.py): half a cent per row and service.
\* The code owes it where the last run for each day met no other run and no
\* restatement, no group has vanished and there is no refund.
ViewsReconcile ==
    \A w \in Windows :
        DaysOf(w) \subseteq settled \ gone /\ NoRefund(w) =>
            LET off == WindowTotal(w) - ServiceTotal(w)
                rows == SumFunction([d \in DaysOf(w) |-> Cardinality(Known(d))])
            IN  2 * off \in -(rows + Cardinality(Services)) .. rows + Cardinality(Services)

\* A by-tenant answer assembled while no row was written is the table's total
\* for its window, from its first day to the one before its last.
QuietAnswerIsExact ==
    \A q \in Requests :
        /\ req[q].pc = "scan" /\ req[q].quiet
        /\ ~Within(req[q].day, req[q].key.window)
        => req[q].sum = req[q].expected

-----------------------------------------------------------------------------
(* What docs and comments say, and the code does not do.                   *)

\* "re-runs are upserts ..., so retries and late-arriving CE refreshes converge
\* on the latest CE answer for the day": the row of a group that has vanished
\* stays, beside the group its spend has moved to.
RunsConverge ==
    \A d \in settled, g \in Groups :
        (rollup[d][g] = None) = (ce[d][g] = None)

\* "the next nightly run will naturally re-aggregate any day that failed": it
\* resolves to its own day.
MissedDaysAreMadeUp ==
    \A d \in Days :
        fired > d + 1 /\ Known(d) # {} /\ (\A r \in Runs : ~Active(r)) =>
            Present(d) # {}
=============================================================================
