------------------------------- MODULE Lifecycle -------------------------------
(***************************************************************************)
(* admin-api: the protocol every Tier 3 operation runs under               *)
(* (execute_lifecycle), with the lifecycle-state table and the audit log.  *)
(*                                                                         *)
(* A process of the service has one event loop and awaits nothing between  *)
(* get and the reply, so it works on one request at a time; the processes  *)
(* of the service (two during every deployment) interleave at each write.  *)
(***************************************************************************)
EXTENDS Naturals, Sequences, FiniteSets

CONSTANTS
    Keys,     \* idempotency keys
    Tasks,    \* processes of admin-api
    MaxRuns,  \* bound on the requests that pass the gates
    MaxFaults \* bound on the failing writes, and on the processes that stop

ASSUME LifecycleAssumption ==
    /\ Keys # {}
    /\ MaxRuns \in Nat /\ MaxFaults \in Nat

VARIABLES
    row,     \* lifecycle-state: the status, and the run it is of
    task,
    runs,    \* per run, its audit rows and (history) how its handler ended
    ran,     \* history: runs whose handler a process began, per key, in a TTL window
    answers, \* history: terminal envelopes returned, in a TTL window
    faults   \* what has gone wrong so far, by kind

vars == <<row, task, runs, ran, answers, faults>>

FaultKinds == {"write", "stop"}
FaultCounts == [FaultKinds -> 0 .. MaxFaults]
Terminal == {"succeeded", "failed"}
Runs == 1 .. Len(runs)
NoRow == [status |-> "absent", run |-> 0]
IdleTask == [at |-> "idle", key |-> CHOOSE k \in Keys : TRUE, run |-> 0]

\* Past put_pending, and not at rest.
Started == {"handle", "finish", "outcome"}

Stages == {"idle", "intent", "pending", "aborted"} \cup Started
RunRecords ==
    [key : Keys,
     handler : {"none", "running"} \cup Terminal,
     outcome : {"none", "success", "failure"}]

TypeOK ==
    /\ row \in [Keys -> [status : {"absent", "pending"} \cup Terminal, run : 0 .. Len(runs)]]
    /\ task \in [Tasks -> [at : Stages, key : Keys, run : 0 .. Len(runs)]]
    /\ runs \in Seq(RunRecords)
    /\ ran \in [Keys -> [Tasks -> SUBSET Runs]]
    /\ answers \in [Keys -> SUBSET [status : Terminal, run : Runs]]
    /\ faults \in FaultCounts
    /\ \A t \in Tasks : task[t].at \notin {"idle", "intent"} => task[t].run \in Runs

Init ==
    /\ row = [k \in Keys |-> NoRow]
    /\ task = [t \in Tasks |-> IdleTask]
    /\ runs = <<>>
    /\ ran = [k \in Keys |-> [t \in Tasks |-> {}]]
    /\ answers = [k \in Keys |-> {}]
    /\ faults = [kind \in FaultKinds |-> 0]

Move(t, at) == task' = [task EXCEPT ![t].at = at]
Rest(t) == task' = [task EXCEPT ![t] = IdleTask]
Fault(kind) ==
    faults[kind] < MaxFaults /\ faults' = [faults EXCEPT ![kind] = @ + 1]

-----------------------------------------------------------------------------
(* execute_lifecycle, one action per call to DynamoDB.                     *)

\* A faulty variant: only a finished operation is a reason not to run it.
CachedIfTerminal(k) == row[k].status \in Terminal

\* LifecycleStateStore.get finds an envelope.
Cached(k) == row[k].status # "absent"

\* The envelope is returned verbatim, whatever its status.
ReturnCached(t, k) ==
    /\ task[t].at = "idle"
    /\ Cached(k)
    /\ answers' = IF row[k].status \in Terminal
                  THEN [answers EXCEPT ![k] = @ \cup {row[k]}] ELSE answers
    /\ UNCHANGED <<row, task, runs, ran, faults>>

\* No envelope, and the confirmation is the expected one.
PassGates(t, k) ==
    /\ task[t].at = "idle"
    /\ ~Cached(k)
    /\ Len(runs) + Cardinality({u \in Tasks : task[u].at = "intent"}) < MaxRuns
    /\ task' = [task EXCEPT ![t] = [at |-> "intent", key |-> k, run |-> 0]]
    /\ UNCHANGED <<row, runs, ran, answers, faults>>

\* audit_lifecycle writes the intent row.
WriteIntent(t) ==
    /\ task[t].at = "intent"
    /\ runs' = Append(runs,
                 [key |-> task[t].key, handler |-> "none", outcome |-> "none"])
    /\ task' = [task EXCEPT ![t] =
         [at |-> "pending", key |-> task[t].key, run |-> Len(runs')]]
    /\ UNCHANGED <<row, ran, answers, faults>>

\* put_pending: an unconditional put.
PutPending(t) ==
    /\ task[t].at = "pending"
    /\ row' = [row EXCEPT ![task[t].key] =
                 [status |-> "pending", run |-> task[t].run]]
    /\ Move(t, "handle")
    /\ UNCHANGED <<runs, ran, answers, faults>>

\* The operation handler begins; from now on it may have side effects.
StartHandler(t) ==
    /\ task[t].at = "handle"
    /\ runs[task[t].run].handler = "none"
    /\ runs' = [runs EXCEPT ![task[t].run].handler = "running"]
    /\ ran' = [ran EXCEPT ![task[t].key][t] = @ \cup {task[t].run}]
    /\ UNCHANGED <<row, task, answers, faults>>

\* The handler returns, or raises, with part of its work done or none.
EndHandler(t) ==
    /\ task[t].at = "handle"
    /\ runs[task[t].run].handler = "running"
    /\ \E how \in Terminal :
         runs' = [runs EXCEPT ![task[t].run].handler = how]
    /\ Move(t, "finish")
    /\ UNCHANGED <<row, ran, answers, faults>>

\* A faulty variant: a failed operation leaves nothing behind.
UpdateSucceeded(t) ==
    /\ task[t].at = "finish"
    /\ row' = [row EXCEPT ![task[t].key] =
                 IF runs[task[t].run].handler = "failed" THEN NoRow
                 ELSE [status |-> "succeeded", run |-> task[t].run]]
    /\ Move(t, "outcome")
    /\ UNCHANGED <<runs, ran, answers, faults>>

\* update_terminal: an unconditional update of the row of the key.
UpdateTerminal(t) ==
    /\ task[t].at = "finish"
    /\ row' = [row EXCEPT ![task[t].key] =
                 [status |-> runs[task[t].run].handler, run |-> task[t].run]]
    /\ Move(t, "outcome")
    /\ UNCHANGED <<runs, ran, answers, faults>>

\* What audit_lifecycle writes at its exit: whether the body raised.
SetOutcome(t, outcome) == runs' = [runs EXCEPT ![task[t].run].outcome = outcome]

\* The outcome row, and the envelope as the answer.
WriteOutcome(t) ==
    /\ task[t].at = "outcome"
    /\ LET how == runs[task[t].run].handler
       IN  /\ SetOutcome(t, IF how = "succeeded" THEN "success" ELSE "failure")
           /\ answers' = [answers EXCEPT ![task[t].key] =
                            @ \cup {[status |-> how, run |-> task[t].run]}]
    /\ Rest(t)
    /\ UNCHANGED <<row, ran, faults>>

\* A faulty variant: a failing write ends the request on the spot.
StateWriteFailsAtOnce(t) ==
    /\ task[t].at \in {"pending", "finish"}
    /\ Fault("write")
    /\ Rest(t)
    /\ UNCHANGED <<row, runs, ran, answers>>

\* put_pending or update_terminal raises: audit_lifecycle still gets to write
\* the outcome, before the exception becomes a 500.
StateWriteFails(t) ==
    /\ task[t].at \in {"pending", "finish"}
    /\ Fault("write")
    /\ Move(t, "aborted")
    /\ UNCHANGED <<row, runs, ran, answers>>

WriteFailure(t) ==
    /\ task[t].at = "aborted"
    /\ SetOutcome(t, "failure")
    /\ Rest(t)
    /\ UNCHANGED <<row, ran, answers, faults>>

\* An audit write raises, or the process is stopped: a 500, or no answer.
RequestDies(t) ==
    /\ task[t].at # "idle"
    /\ Fault("stop")
    /\ Rest(t)
    /\ UNCHANGED <<row, runs, ran, answers>>

\* The TTL, 24 hours after put_pending; no request takes that long.
Expire(k) ==
    /\ row[k].status # "absent"
    /\ \A t \in Tasks : task[t].at # "idle" => task[t].key # k
    /\ row' = [row EXCEPT ![k] = NoRow]
    /\ ran' = [ran EXCEPT ![k] = [t \in Tasks |-> {}]]
    /\ answers' = [answers EXCEPT ![k] = {}]
    /\ UNCHANGED <<task, runs, faults>>

RequestStep(t) ==
    \/ WriteIntent(t) \/ PutPending(t) \/ StartHandler(t) \/ EndHandler(t)
    \/ UpdateTerminal(t) \/ WriteOutcome(t) \/ WriteFailure(t)

Next ==
    \/ \E t \in Tasks :
         \/ \E k \in Keys : ReturnCached(t, k) \/ PassGates(t, k)
         \/ RequestStep(t) \/ StateWriteFails(t) \/ RequestDies(t)
    \/ \E k \in Keys : Expire(k)

Spec == Init /\ [][Next]_vars

\* A request in progress goes on.
FairSpec == Spec /\ \A t \in Tasks : WF_vars(RequestStep(t))

-----------------------------------------------------------------------------
(* Properties.                                                             *)

\* One process runs the handler at most once for a key while the row lives,
\* whatever fails or is stopped in between.
AtMostOncePerTask ==
    \A k \in Keys, t \in Tasks : \A r, s \in ran[k][t] : r = s

\* While only one process has run the handler for a key, everybody who is told
\* a result is told the same one, also if a second process got past the gates.
AnswersAgree ==
    \A k \in Keys :
        (\A t, u \in Tasks : ran[k][t] # {} /\ ran[k][u] # {} => t = u)
          => \A a, b \in answers[k] : a = b

\* An intent row gets its outcome row, also when the write of the pending or of
\* the terminal envelope fails; only a process that is stopped, or a failing
\* audit write, leaves it alone.
IntentGetsOutcome ==
    \A r \in 1 .. MaxRuns :
        r \in Runs ~>
            faults["stop"] > 0 \/ (r \in Runs /\ runs[r].outcome # "none")

-----------------------------------------------------------------------------
(* What docs and comments say, and the code does not do.                   *)

\* "Repeated submissions of the same `idempotency_key` collapse to a single
\* side-effect [...] The caller therefore gets at-most-once semantics".
AtMostOnce ==
    \A k \in Keys, t, u \in Tasks : ran[k][t] # {} /\ ran[k][u] # {} => t = u

\* "the `outcome` row (or its absence) tells the operator how it ended".
OutcomeTellsHowItEnded ==
    \A r \in Runs : runs[r].outcome = "failure" => runs[r].handler # "succeeded"
=============================================================================
