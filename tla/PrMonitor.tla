------------------------------- MODULE PrMonitor -------------------------------
(***************************************************************************)
(* scripts/pr-monitor.py: polls the repository's pull requests and prints  *)
(* one event per change.  Its markers are to make a lasting condition - no *)
(* checks at all, a failing check with a known fix, a check that is        *)
(* pending for too long - one event, not one per poll.                     *)
(*                                                                         *)
(* What GitHub shows a poll is any snapshot at all; a poll may fail.  A    *)
(* pull request's checks have different names here.                        *)
(***************************************************************************)
EXTENDS Naturals, FiniteSets

CONSTANTS
    PRs,
    Checks,
    Fixable,   \* the checks of ACTIONABLE_FIXES
    StallMin,  \* PR_MONITOR_STALL_MIN, in polls
    MaxPolls,  \* bound on polls
    None

\* "none": the check is not in the pull request's rollup.  CLEAN stands for each
\* merge status that has an event, BLOCKED for those that have none.
Buckets == {"none", "pending", "pass", "fail"}
PullRequests ==
    [s : {"OPEN", "MERGED", "CLOSED"}, m : {"BLOCKED", "CLEAN"}, checks : [Checks -> Buckets]]
Snapshots == UNION {[listed -> PullRequests] : listed \in SUBSET PRs}

VARIABLES
    poll,
    prs,         \* the last snapshot
    pendingSeen, \* when a pending check was first seen so, or None
    stalled,     \* markers: checks told to be stalled
    noChecks,    \* markers: pull requests told to have no checks
    actionable,  \* markers: failing checks told with their fix
    left,        \* history: pull requests too old to be listed any more
    events,      \* what the last poll printed
    since,       \* history: the poll that first saw a condition that lasts, or None
    told,        \* history: events about it since then
    carried,     \* history: conditions that were marked before they began
    failed       \* history: checks whose last verdict was a failure

vars == <<poll, prs, pendingSeen, stalled, noChecks, actionable, left, events,
          since, told, carried, failed>>

Event(kind, p, c) == [kind |-> kind, pr |-> p, check |-> c]
Pairs == PRs \X Checks
Lasting == {"CI-FAIL", "ACTIONABLE-FAIL", "STALLED"}
Keys == {Event(kind, k[1], k[2]) : kind \in Lasting, k \in Pairs}
          \cup {Event("NO-CHECKS", p, None) : p \in PRs}

Bucket(snapshot, p, c) == IF p \in DOMAIN snapshot THEN snapshot[p].checks[c] ELSE "none"
In(snapshot, bucket) == {k \in Pairs : Bucket(snapshot, k[1], k[2]) = bucket}

\* Open, blocked, and nothing that could unblock it.
NoChecks(snapshot) ==
    {p \in DOMAIN snapshot :
       snapshot[p].s = "OPEN" /\ snapshot[p].m = "BLOCKED"
       /\ \A c \in Checks : snapshot[p].checks[c] = "none"}

FixableIn(snapshot) == {k \in In(snapshot, "fail") : k[2] \in Fixable}

\* The condition of a key, in a snapshot.
Holds(key, snapshot) ==
    CASE key.kind = "NO-CHECKS" -> key.pr \in NoChecks(snapshot)
      [] key.kind = "CI-FAIL" -> <<key.pr, key.check>> \in In(snapshot, "fail")
      [] key.kind = "ACTIONABLE-FAIL" -> <<key.pr, key.check>> \in FixableIn(snapshot)
      [] key.kind = "STALLED" -> <<key.pr, key.check>> \in In(snapshot, "pending")

\* What was so when the monitor came up is known; that a check was pending, not.
Init ==
    /\ poll = 0
    /\ prs \in Snapshots
    /\ pendingSeen = [k \in Pairs |-> None]
    /\ stalled = {} /\ noChecks = NoChecks(prs) /\ actionable = FixableIn(prs)
    /\ left = {}
    /\ events = {}
    /\ since = [k \in Keys |-> IF k.kind # "STALLED" /\ Holds(k, prs) THEN 0 ELSE None]
    /\ told = [k \in Keys |-> 0]
    /\ carried = {}
    /\ failed = In(prs, "fail")

-----------------------------------------------------------------------------
(* diff_emit.                                                              *)

\* New pull requests, and what has changed of the others.
PrEvents(cur) ==
    {Event("NEW", p, None) : p \in DOMAIN cur \ DOMAIN prs}
      \cup UNION {
        (IF cur[p].s # prs[p].s THEN {Event(cur[p].s, p, None)} ELSE {})
          \cup (IF cur[p].m # prs[p].m /\ cur[p].m = "CLEAN"
                THEN {Event("CLEAN", p, None)} ELSE {}) :
        p \in DOMAIN cur \cap DOMAIN prs}

\* A faulty variant: markers are only ever added.
MarkedOnce(cur) == noChecks \cup NoChecks(cur)

\* A pull request that is out of the state loses its marker.
StillMarked(cur) == NoChecks(cur)

CheckEvents(cur) ==
    {Event("CI-FAIL", k[1], k[2]) : k \in In(cur, "fail") \ In(prs, "fail")}
      \cup {Event("CI-RECOVERED", k[1], k[2]) : k \in In(cur, "pass") \cap In(prs, "fail")}
      \cup {Event("ACTIONABLE-FAIL", k[1], k[2]) : k \in FixableIn(cur) \ actionable}
      \cup {Event("NO-CHECKS", p, None) : p \in NoChecks(cur) \ noChecks}

FirstSeen(cur) ==
    [k \in Pairs |-> IF k \notin In(cur, "pending") THEN None
                     ELSE IF pendingSeen[k] = None THEN poll + 1 ELSE pendingSeen[k]]

\* Unmarked checks that have been pending for long.
Stalls(cur) ==
    {k \in In(cur, "pending") \ stalled : poll + 1 - FirstSeen(cur)[k] > StallMin}

\* A marker goes when its check is listed and not pending.
Settled(cur) == In(cur, "pass") \cup In(cur, "fail")

\* The history of the lasting conditions.
Observe(cur) ==
    /\ since' = [k \in Keys |-> IF ~Holds(k, cur) THEN None
                                ELSE IF since[k] = None THEN poll' ELSE since[k]]
    /\ told' = [k \in Keys |-> (IF since'[k] \in {None, poll'} THEN 0 ELSE told[k])
                               + (IF k \in events' THEN 1 ELSE 0)]
    /\ carried' = {k \in Keys : since'[k] # None
                     /\ \/ k \in carried
                        \/ since'[k] = poll' /\ k.kind = "STALLED"
                             /\ <<k.pr, k.check>> \in stalled}
    /\ failed' = (failed \cup In(cur, "fail")) \ In(cur, "pass")

Poll(cur) ==
    /\ poll < MaxPolls /\ poll' = poll + 1
    /\ DOMAIN cur \cap left = {}
    /\ left' = left \cup (DOMAIN prs \ DOMAIN cur)
    /\ events' = PrEvents(cur) \cup CheckEvents(cur)
                   \cup {Event("STALLED", k[1], k[2]) : k \in Stalls(cur)}
    /\ prs' = cur
    /\ pendingSeen' = FirstSeen(cur)
    /\ stalled' = (stalled \cup Stalls(cur)) \ Settled(cur)
    /\ noChecks' = StillMarked(cur)
    /\ actionable' = FixableIn(cur)
    /\ Observe(cur)

\* gh fails, or its answer is no JSON: the next poll compares with the snapshot
\* before.  A gh that takes a minute ends the monitor, which shows as no poll.
PollFails ==
    /\ poll < MaxPolls /\ poll' = poll + 1
    /\ events' = {}
    /\ UNCHANGED <<prs, pendingSeen, stalled, noChecks, actionable, left, since,
                   told, carried, failed>>

Next == PollFails \/ \E cur \in Snapshots : Poll(cur)

Spec == Init /\ [][Next]_vars

-----------------------------------------------------------------------------
(* Properties.                                                             *)

\* When a condition that has gone on since `since` is due to be told.
Due(k) == k.kind = "STALLED" => pendingSeen[<<k.pr, k.check>>] + StallMin < poll

\* "a PR fires NO-CHECKS exactly once per transition INTO the no-checks state",
\* and so do the other lasting conditions, over failing polls and whatever else
\* changes; what was so at the start is never told.  A stall is told when a
\* successful poll finds it due, unless the check had its marker when it began.
ToldOncePerTransition ==
    \A k \in Keys :
        since[k] # None =>
            /\ told[k] <= 1
            /\ since[k] = 0 \/ ~Due(k) \/ k \in carried => told[k] = 0
            /\ since[k] > 0 /\ k.kind # "STALLED" => told[k] = 1

-----------------------------------------------------------------------------
(* What the script's header says, and the code does not do.                *)

\* "per-check failures (CI-FAIL) and recoveries (CI-RECOVERED)": a check that
\* is seen pending between its failure and its success does not recover.
RecoveriesAreTold ==
    [][\A k \in failed \cap In(prs', "pass") :
         Event("CI-RECOVERED", k[1], k[2]) \in events']_vars

\* "STALLED checks (pending > PR_MONITOR_STALL_MIN minutes; emitted ONCE)": the
\* marker of a check that left the rollup while pending silences the next stall.
StallsAreTold ==
    \A k \in Keys :
        k.kind = "STALLED" /\ since[k] # None /\ pendingSeen[<<k.pr, k.check>>] + StallMin + 1 < poll
          => told[k] = 1
=============================================================================
