--------------------------- MODULE Lifecycle_proofs ---------------------------
(***************************************************************************)
(* Proofs about the Tier 3 protocol, for any number of keys and processes. *)
(***************************************************************************)
EXTENDS Lifecycle, SequenceTheorems, TLAPS

HandlerOf(t) == runs[task[t].run].handler

\* A row is missing only while no handler has begun for its key.
RowOutlivesRuns ==
    \A k \in Keys, t \in Tasks : ran[k][t] # {} => Cached(k)

\* A process past the gates has run nothing for its key yet; one past the
\* handler's begin has run exactly this.
Progress(t) ==
    LET mine == ran[task[t].key][t]
    IN  /\ task[t].at = "intent" => mine = {}
        /\ task[t].at = "pending" => HandlerOf(t) = "none" /\ mine = {}
        /\ task[t].at = "handle" =>
             \/ HandlerOf(t) = "none" /\ mine = {}
             \/ HandlerOf(t) = "running" /\ mine = {task[t].run}
        /\ task[t].at \in {"finish", "outcome"} =>
             HandlerOf(t) \in Terminal /\ mine = {task[t].run}
        /\ task[t].at \in Started => Cached(task[t].key)

ProgressIsRecorded == \A t \in Tasks : Progress(t)

\* Every process works on a run of its own.
HasRun(t) == task[t].at \notin {"idle", "intent"}
RunsAreOwn ==
    \A t, u \in Tasks : t # u /\ HasRun(t) /\ HasRun(u) => task[t].run # task[u].run

\* An envelope with a result is that of a handler execution in this TTL window.
IsResult(k, envelope) ==
    /\ envelope.run \in Runs
    /\ envelope.status \in Terminal
    /\ envelope.status = runs[envelope.run].handler
    /\ \E t \in Tasks : envelope.run \in ran[k][t]

RowsAreResults ==
    \A k \in Keys : row[k].status \in Terminal => IsResult(k, row[k])

EnvelopesAreResults ==
    /\ RowsAreResults
    /\ \A k \in Keys : \A a \in answers[k] : IsResult(k, a)

\* The inductive invariant.
IInv ==
    /\ TypeOK
    /\ AtMostOncePerTask
    /\ RowOutlivesRuns
    /\ ProgressIsRecorded
    /\ RunsAreOwn
    /\ EnvelopesAreResults

\* At first there is nothing.
LEMMA InitEstablishesIInv == Init => IInv
BY LifecycleAssumption
DEF Init, IInv, TypeOK, AtMostOncePerTask, RowOutlivesRuns, ProgressIsRecorded,
    Progress, EnvelopesAreResults, RowsAreResults, RunsAreOwn, HasRun, IdleTask, NoRow, Stages,
    Started, Terminal, Runs, FaultCounts

\* A process moves on to another stage of the same run.
LEMMA Moving ==
    ASSUME TypeOK, NEW t \in Tasks, NEW at \in Stages, Move(t, at)
    PROVE  /\ task' \in [Tasks -> [at : Stages, key : Keys, run : 0 .. Len(runs)]]
           /\ task'[t] = [at |-> at, key |-> task[t].key, run |-> task[t].run]
           /\ \A u \in Tasks \ {t} : task'[u] = task[u]
<1>1. /\ task \in [Tasks -> [at : Stages, key : Keys, run : 0 .. Len(runs)]]
      /\ task' = [task EXCEPT ![t] = [task[t] EXCEPT !.at = at]]
  BY DEF TypeOK, Move
<1>2. task[t] \in [at : Stages, key : Keys, run : 0 .. Len(runs)]
  BY <1>1
<1>3. [task[t] EXCEPT !.at = at] = [at |-> at, key |-> task[t].key, run |-> task[t].run]
  BY <1>2
<1> QED
  BY <1>1, <1>2, <1>3

\* A run's record is one.
LEMMA RunIsRecord ==
    ASSUME TypeOK, NEW r \in Runs
    PROVE  runs[r] \in RunRecords
<1> DEFINE Records == RunRecords
<1>1. runs \in Seq(Records)
  BY DEF TypeOK
<1> HIDE DEF Records
<1>2. runs[r] \in Records
  BY <1>1 DEF Runs
<1> QED
  BY <1>2 DEF Records

\* A run's record is replaced by another one.
LEMMA RecordIsReplaced ==
    ASSUME TypeOK, NEW r \in Runs, NEW record \in RunRecords,
           runs' = [runs EXCEPT ![r] = record]
    PROVE  /\ runs' \in Seq(RunRecords) /\ Len(runs') = Len(runs)
           /\ runs'[r] = record
           /\ \A q \in Runs : q # r => runs'[q] = runs[q]
<1> DEFINE Records == RunRecords
<1>1. runs \in Seq(Records) /\ record \in Records
  BY DEF TypeOK
<1> HIDE DEF Records
<1>2. /\ runs' \in Seq(Records) /\ Len(runs') = Len(runs)
      /\ \A j \in 1 .. Len(runs) : runs'[j] = IF j = r THEN record ELSE runs[j]
  BY <1>1, ExceptSeq DEF Runs
<1>3. runs'[r] = record /\ \A q \in Runs : q # r => runs'[q] = runs[q]
  BY <1>2 DEF Runs
<1> QED
  BY <1>2, <1>3 DEF Records

\* ... in how its handler stands.
LEMMA HandlerMoves ==
    ASSUME TypeOK, NEW r \in Runs, NEW how \in {"none", "running"} \cup Terminal,
           runs' = [runs EXCEPT ![r].handler = how]
    PROVE  /\ runs' \in Seq(RunRecords) /\ Len(runs') = Len(runs)
           /\ runs'[r].handler = how
           /\ \A q \in Runs : q # r => runs'[q].handler = runs[q].handler
<1>1. runs[r] \in RunRecords
  BY RunIsRecord
<1>2. [runs[r] EXCEPT !.handler = how]
        = [key |-> runs[r].key, handler |-> how, outcome |-> runs[r].outcome]
  BY <1>1 DEF RunRecords
<1>3. [runs[r] EXCEPT !.handler = how] \in RunRecords
  BY <1>1, <1>2 DEF RunRecords
<1>4. runs' = [runs EXCEPT ![r] = [runs[r] EXCEPT !.handler = how]]
  OBVIOUS
<1>5. /\ runs' \in Seq(RunRecords) /\ Len(runs') = Len(runs)
      /\ runs'[r] = [runs[r] EXCEPT !.handler = how]
      /\ \A q \in Runs : q # r => runs'[q] = runs[q]
  BY <1>3, <1>4, RecordIsReplaced
<1>6. runs'[r].handler = how
  BY <1>2, <1>5
<1> QED
  BY <1>5, <1>6

\* ... in its outcome.
LEMMA OutcomeIsSet ==
    ASSUME TypeOK, NEW t \in Tasks, task[t].run \in Runs,
           NEW outcome \in {"success", "failure"}, SetOutcome(t, outcome)
    PROVE  /\ runs' \in Seq(RunRecords) /\ Len(runs') = Len(runs)
           /\ \A q \in Runs : runs'[q].handler = runs[q].handler
<1> DEFINE r == task[t].run
<1>1. runs[r] \in RunRecords
  BY RunIsRecord
<1>2. [runs[r] EXCEPT !.outcome = outcome]
        = [key |-> runs[r].key, handler |-> runs[r].handler, outcome |-> outcome]
  BY <1>1 DEF RunRecords
<1>3. [runs[r] EXCEPT !.outcome = outcome] \in RunRecords
  BY <1>1, <1>2 DEF RunRecords
<1>4. runs' = [runs EXCEPT ![r] = [runs[r] EXCEPT !.outcome = outcome]]
  BY DEF SetOutcome
<1>5. /\ runs' \in Seq(RunRecords) /\ Len(runs') = Len(runs)
      /\ runs'[r] = [runs[r] EXCEPT !.outcome = outcome]
      /\ \A q \in Runs : q # r => runs'[q] = runs[q]
  BY <1>3, <1>4, RecordIsReplaced
<1>6. runs'[r].handler = runs[r].handler
  BY <1>2, <1>5
<1> QED
  BY <1>5, <1>6

\* A step of one process leaves the others where they are.
LEMMA OthersProgress ==
    ASSUME IInv, NEW t \in Tasks,
           \A u \in Tasks \ {t} : task'[u] = task[u],
           \A r \in Runs : r # task[t].run => runs'[r].handler = runs[r].handler,
           \A k \in Keys, u \in Tasks \ {t} : ran'[k][u] = ran[k][u],
           \A k \in Keys : Cached(k) => Cached(k)',
           HasRun(t) \/ \A r \in Runs : runs'[r].handler = runs[r].handler
    PROVE  \A u \in Tasks \ {t} : Progress(u)'
<1> SUFFICES ASSUME NEW u \in Tasks \ {t} PROVE Progress(u)'
  OBVIOUS
<1>1. Progress(u) /\ task'[u] = task[u] /\ task[u].key \in Keys
  BY DEF IInv, ProgressIsRecorded, TypeOK
<1>2. HasRun(u) => HandlerOf(u)' = HandlerOf(u)
  <2>1. HasRun(u) => task[u].run \in Runs
    BY DEF IInv, TypeOK, HasRun
  <2>2. HasRun(u) /\ HasRun(t) => task[u].run # task[t].run
    BY DEF IInv, RunsAreOwn
  <2> QED
    BY <1>1, <2>1, <2>2 DEF HandlerOf
<1> QED
  BY <1>1, <1>2 DEF Progress, HasRun

\* Results stay what they are: a handler that has ended has ended.
LEMMA ResultsStay ==
    ASSUME IInv, Len(runs') \in Nat, Len(runs) \in Nat, Len(runs) <= Len(runs'),
           \A r \in Runs : runs[r].handler \in Terminal => runs'[r].handler = runs[r].handler,
           NEW k \in Keys, \A t \in Tasks : ran[k][t] \subseteq ran'[k][t],
           NEW a, IsResult(k, a)
    PROVE  IsResult(k, a)'
BY DEF IsResult, Runs

\* put_pending: the key's row is this run's, and pending.
LEMMA PutPendingKeepsIInv ==
    ASSUME IInv, NEW t \in Tasks, PutPending(t)
    PROVE  IInv'
<1> DEFINE k == task[t].key
           run == task[t].run
<1>1. TypeOK /\ task[t].at = "pending" /\ run \in Runs /\ k \in Keys
  BY DEF IInv, TypeOK, PutPending
<1>2. /\ task' \in [Tasks -> [at : Stages, key : Keys, run : 0 .. Len(runs)]]
      /\ task'[t] = [at |-> "handle", key |-> k, run |-> run]
      /\ \A u \in Tasks \ {t} : task'[u] = task[u]
  BY <1>1, Moving DEF PutPending, Stages, Started
<1>3. /\ row'[k] = [status |-> "pending", run |-> run]
      /\ \A l \in Keys \ {k} : row'[l] = row[l]
      /\ UNCHANGED <<runs, ran, answers, faults>>
  BY <1>1 DEF PutPending, TypeOK
<1>4. TypeOK'
  <2>1. row' \in [Keys -> [status : {"absent", "pending"} \cup Terminal, run : 0 .. Len(runs)]]
    BY <1>1 DEF TypeOK, PutPending, Runs
  <2>2. \A u \in Tasks : task'[u].at \notin {"idle", "intent"} => task'[u].run \in Runs
    <3>1. \A u \in Tasks : task[u].at \notin {"idle", "intent"} => task[u].run \in Runs
      BY <1>1 DEF TypeOK
    <3>2. task'[t].run \in Runs
      BY <1>1, <1>2
    <3> QED
      BY <1>2, <3>1, <3>2
  <2> QED
    BY <1>1, <1>2, <1>3, <2>1, <2>2 DEF TypeOK, Runs
<1>5. AtMostOncePerTask'
  BY <1>3 DEF IInv, AtMostOncePerTask
<1>6. RowOutlivesRuns'
  BY <1>1, <1>3 DEF IInv, RowOutlivesRuns, Cached
<1>7. ProgressIsRecorded'
  <2>1. \A l \in Keys : Cached(l) \/ l = k => Cached(l)'
    BY <1>3 DEF Cached
  <2>2. \A u \in Tasks \ {t} : Progress(u)'
    BY <1>1, <1>2, <1>3, <2>1, OthersProgress DEF HasRun
  <2>3. Progress(t)'
    BY <1>1, <1>2, <1>3, <2>1
    DEF IInv, ProgressIsRecorded, Progress, HandlerOf, Started
  <2> QED
    BY <2>2, <2>3 DEF ProgressIsRecorded
<1>8. RunsAreOwn'
  BY <1>1, <1>2 DEF IInv, RunsAreOwn, HasRun
<1>9. EnvelopesAreResults'
  BY <1>1, <1>3 DEF IInv, EnvelopesAreResults, RowsAreResults, IsResult, Terminal, Runs
<1> QED
  BY <1>4, <1>5, <1>6, <1>7, <1>8, <1>9 DEF IInv

\* The handler begins: this run, and no other of the process, counts.
LEMMA StartHandlerKeepsIInv ==
    ASSUME IInv, NEW t \in Tasks, StartHandler(t)
    PROVE  IInv'
<1> DEFINE k == task[t].key
           run == task[t].run
<1>1. TypeOK /\ task[t].at = "handle" /\ run \in Runs /\ k \in Keys
      /\ Progress(t) /\ runs[run].handler = "none"
  BY DEF IInv, TypeOK, StartHandler, ProgressIsRecorded
<1>2. /\ runs' \in Seq(RunRecords) /\ Len(runs') = Len(runs)
      /\ runs'[run].handler = "running"
      /\ \A q \in Runs : q # run => runs'[q].handler = runs[q].handler
  BY <1>1, HandlerMoves DEF StartHandler
<1>3. /\ ran[k][t] = {} /\ ran'[k][t] = {run}
      /\ \A l \in Keys, u \in Tasks : l # k \/ u # t => ran'[l][u] = ran[l][u]
      /\ UNCHANGED <<row, task, answers, faults>>
  BY <1>1 DEF StartHandler, TypeOK, Progress, HandlerOf
<1>4. TypeOK'
  <2>1. ran' \in [Keys -> [Tasks -> SUBSET Runs]]
    BY <1>1 DEF StartHandler, TypeOK
  <2> QED
    BY <1>1, <1>2, <1>3, <2>1 DEF TypeOK, Runs
<1>5. AtMostOncePerTask'
  BY <1>1, <1>3 DEF IInv, AtMostOncePerTask
<1>6. Cached(k) /\ \A l \in Keys : Cached(l)' = Cached(l)
  BY <1>1, <1>3 DEF Progress, Started, Cached
<1>7. RowOutlivesRuns'
  BY <1>1, <1>3, <1>6 DEF IInv, RowOutlivesRuns
<1>8. ProgressIsRecorded'
  <2>1. \A u \in Tasks \ {t} : Progress(u)'
    BY <1>1, <1>2, <1>3, <1>6, OthersProgress DEF HasRun
  <2>2. Progress(t)'
    BY <1>1, <1>2, <1>3, <1>6 DEF Progress, HandlerOf, Started
  <2> QED
    BY <2>1, <2>2 DEF ProgressIsRecorded
<1>9. RunsAreOwn'
  BY <1>3 DEF IInv, RunsAreOwn, HasRun
<1>10. EnvelopesAreResults'
  <2>0. Len(runs) \in Nat /\ Len(runs) <= Len(runs')
    BY <1>1, <1>2 DEF TypeOK
  <2>1. /\ \A r \in Runs : runs[r].handler \in Terminal => runs'[r].handler = runs[r].handler
        /\ \A l \in Keys, u \in Tasks : ran[l][u] \subseteq ran'[l][u]
    BY <1>1, <1>2, <1>3 DEF Terminal
  <2>2. \A l \in Keys : \A a : IsResult(l, a) => IsResult(l, a)'
    BY <1>2, <2>0, <2>1, ResultsStay
  <2> QED
    BY <1>3, <2>2 DEF IInv, EnvelopesAreResults, RowsAreResults
<1> QED
  BY <1>4, <1>5, <1>7, <1>8, <1>9, <1>10 DEF IInv

\* The handler ends, and the run has its result.
LEMMA EndHandlerKeepsIInv ==
    ASSUME IInv, NEW t \in Tasks, EndHandler(t)
    PROVE  IInv'
<1> DEFINE k == task[t].key
           run == task[t].run
<1>1. TypeOK /\ task[t].at = "handle" /\ run \in Runs /\ k \in Keys
      /\ Progress(t) /\ runs[run].handler = "running"
  BY DEF IInv, TypeOK, EndHandler, ProgressIsRecorded
<1>2. /\ task' \in [Tasks -> [at : Stages, key : Keys, run : 0 .. Len(runs)]]
      /\ task'[t] = [at |-> "finish", key |-> k, run |-> run]
      /\ \A u \in Tasks \ {t} : task'[u] = task[u]
  BY <1>1, Moving DEF EndHandler, Stages, Started
<1>3. PICK how \in Terminal : runs' = [runs EXCEPT ![run].handler = how]
  BY DEF EndHandler
<1>4. /\ runs' \in Seq(RunRecords) /\ Len(runs') = Len(runs)
      /\ runs'[run].handler = how
      /\ \A q \in Runs : q # run => runs'[q].handler = runs[q].handler
  BY <1>1, <1>3, HandlerMoves
<1>5. UNCHANGED <<row, ran, answers, faults>> /\ ran[k][t] = {run} /\ Cached(k)
  BY <1>1 DEF EndHandler, Progress, HandlerOf, Started
<1>6. TypeOK'
  <2>1. \A u \in Tasks : task'[u].at \notin {"idle", "intent"} => task'[u].run \in Runs
    <3>1. \A u \in Tasks : task[u].at \notin {"idle", "intent"} => task[u].run \in Runs
      BY <1>1 DEF TypeOK
    <3>2. task'[t].run \in Runs
      BY <1>1, <1>2
    <3> QED
      BY <1>2, <3>1, <3>2
  <2>2. Runs' = Runs
    BY <1>4 DEF Runs
  <2> QED
    BY <1>1, <1>2, <1>4, <1>5, <2>1, <2>2 DEF TypeOK
<1>7. AtMostOncePerTask' /\ RowOutlivesRuns'
  BY <1>5 DEF IInv, AtMostOncePerTask, RowOutlivesRuns, Cached
<1>8. ProgressIsRecorded'
  <2>1. \A l \in Keys : Cached(l)' = Cached(l)
    BY <1>5 DEF Cached
  <2>2. \A u \in Tasks \ {t} : Progress(u)'
    BY <1>1, <1>2, <1>4, <1>5, <2>1, OthersProgress DEF HasRun
  <2>3. Progress(t)'
    BY <1>1, <1>2, <1>4, <1>5, <2>1 DEF Progress, HandlerOf, Started
  <2> QED
    BY <2>2, <2>3 DEF ProgressIsRecorded
<1>9. RunsAreOwn'
  BY <1>1, <1>2 DEF IInv, RunsAreOwn, HasRun
<1>10. EnvelopesAreResults'
  <2>1. /\ Len(runs) \in Nat /\ Len(runs) <= Len(runs')
        /\ \A r \in Runs : runs[r].handler \in Terminal => runs'[r].handler = runs[r].handler
        /\ \A l \in Keys, u \in Tasks : ran[l][u] \subseteq ran'[l][u]
    BY <1>1, <1>4, <1>5 DEF TypeOK, Terminal
  <2>2. \A l \in Keys : \A a : IsResult(l, a) => IsResult(l, a)'
    BY <1>4, <2>1, ResultsStay
  <2> QED
    BY <1>5, <2>2 DEF IInv, EnvelopesAreResults, RowsAreResults
<1> QED
  BY <1>6, <1>7, <1>8, <1>9, <1>10 DEF IInv

\* The row gets the result of this run.
LEMMA UpdateTerminalKeepsIInv ==
    ASSUME IInv, NEW t \in Tasks, UpdateTerminal(t)
    PROVE  IInv'
<1> DEFINE k == task[t].key
           run == task[t].run
<1>1. TypeOK /\ task[t].at = "finish" /\ run \in Runs /\ k \in Keys /\ Progress(t)
  BY DEF IInv, TypeOK, UpdateTerminal, ProgressIsRecorded
<1>2. /\ task' \in [Tasks -> [at : Stages, key : Keys, run : 0 .. Len(runs)]]
      /\ task'[t] = [at |-> "outcome", key |-> k, run |-> run]
      /\ \A u \in Tasks \ {t} : task'[u] = task[u]
  BY <1>1, Moving DEF UpdateTerminal, Stages, Started
<1>3. /\ ran[k][t] = {run} /\ HandlerOf(t) \in Terminal
      /\ row'[k] = [status |-> HandlerOf(t), run |-> run]
      /\ \A l \in Keys \ {k} : row'[l] = row[l]
      /\ UNCHANGED <<runs, ran, answers, faults>>
  BY <1>1 DEF UpdateTerminal, TypeOK, Progress, HandlerOf
<1>4. TypeOK'
  <2>1. row' \in [Keys -> [status : {"absent", "pending"} \cup Terminal,
                          run : 0 .. Len(runs)]]
    BY <1>1, <1>3 DEF TypeOK, UpdateTerminal, Runs, HandlerOf
  <2>2. \A u \in Tasks : task'[u].at \notin {"idle", "intent"} => task'[u].run \in Runs
    <3>1. \A u \in Tasks : task[u].at \notin {"idle", "intent"} => task[u].run \in Runs
      BY <1>1 DEF TypeOK
    <3>2. task'[t].run \in Runs
      BY <1>1, <1>2
    <3> QED
      BY <1>2, <3>1, <3>2
  <2> QED
    BY <1>1, <1>2, <1>3, <2>1, <2>2 DEF TypeOK, Runs
<1>5. AtMostOncePerTask'
  BY <1>3 DEF IInv, AtMostOncePerTask
<1>6. \A l \in Keys : Cached(l) \/ l = k => Cached(l)'
  BY <1>3 DEF Cached, Terminal
<1>7. RowOutlivesRuns'
  BY <1>3, <1>6 DEF IInv, RowOutlivesRuns
<1>8. ProgressIsRecorded'
  <2>1. \A u \in Tasks \ {t} : Progress(u)'
    BY <1>1, <1>2, <1>3, <1>6, OthersProgress DEF HasRun
  <2>2. Progress(t)'
    BY <1>1, <1>2, <1>3, <1>6 DEF Progress, HandlerOf, Started
  <2> QED
    BY <2>1, <2>2 DEF ProgressIsRecorded
<1>9. RunsAreOwn'
  BY <1>1, <1>2 DEF IInv, RunsAreOwn, HasRun
<1>10. EnvelopesAreResults'
  <2>1. \A l \in Keys : \A a : IsResult(l, a)' = IsResult(l, a)
    BY <1>3 DEF IsResult, Runs
  <2>2. IsResult(k, [status |-> HandlerOf(t), run |-> run])
    BY <1>1, <1>3 DEF IsResult, HandlerOf
  <2>3. \A l \in Keys : row'[l].status \in Terminal => IsResult(l, row'[l])
    <3> SUFFICES ASSUME NEW l \in Keys, row'[l].status \in Terminal
                 PROVE  IsResult(l, row'[l])
      OBVIOUS
    <3>1. CASE l # k
      BY <3>1, <1>3 DEF IInv, EnvelopesAreResults, RowsAreResults
    <3>2. CASE l = k
      BY <3>2, <1>3, <2>2
    <3> QED
      BY <3>1, <3>2
  <2>4. \A l \in Keys : \A a \in answers'[l] : IsResult(l, a)
    BY <1>3 DEF IInv, EnvelopesAreResults, RowsAreResults
  <2> QED
    BY <2>1, <2>3, <2>4 DEF EnvelopesAreResults, RowsAreResults, IsResult, Runs
<1> QED
  BY <1>4, <1>5, <1>7, <1>8, <1>9, <1>10 DEF IInv

\* The intent row: a new run, whose handler has not begun.
LEMMA WriteIntentKeepsIInv ==
    ASSUME IInv, NEW t \in Tasks, WriteIntent(t)
    PROVE  IInv'
<1> DEFINE k == task[t].key
           run == task[t].run
           new == Len(runs) + 1
<1>1. TypeOK /\ task[t].at = "intent" /\ k \in Keys /\ Progress(t)
  BY DEF IInv, TypeOK, WriteIntent, ProgressIsRecorded
<1>2. /\ runs' \in Seq(RunRecords) /\ Len(runs') = new /\ Len(runs) \in Nat
      /\ runs'[new].handler = "none"
      /\ \A q \in Runs : runs'[q] = runs[q]
  BY <1>1 DEF WriteIntent, TypeOK, RunRecords, Runs
<1>3. /\ task' \in [Tasks -> [at : Stages, key : Keys, run : 0 .. new]]
      /\ task'[t] = [at |-> "pending", key |-> k, run |-> new]
      /\ \A u \in Tasks \ {t} : task'[u] = task[u]
  <2>1. task \in [Tasks -> [at : Stages, key : Keys, run : 0 .. Len(runs)]]
    BY <1>1 DEF TypeOK
  <2>2. task' = [task EXCEPT ![t] = [at |-> "pending", key |-> k, run |-> new]]
    BY <1>2 DEF WriteIntent
  <2>3. [at |-> "pending", key |-> k, run |-> new]
          \in [at : Stages, key : Keys, run : 0 .. new]
    BY <1>1, <1>2 DEF Stages
  <2> QED
    BY <1>2, <2>1, <2>2, <2>3
<1>4. UNCHANGED <<row, ran, answers, faults>>
  BY DEF WriteIntent
<1>5. TypeOK'
  <2>1. Runs \subseteq Runs' /\ new \in Runs'
    BY <1>2 DEF Runs
  <2>2. \A u \in Tasks : task'[u].at \notin {"idle", "intent"} => task'[u].run \in Runs'
    <3>1. \A u \in Tasks : task[u].at \notin {"idle", "intent"} => task[u].run \in Runs
      BY <1>1 DEF TypeOK
    <3> QED
      BY <1>3, <2>1, <3>1
  <2>3. row' \in [Keys -> [status : {"absent", "pending"} \cup Terminal,
                          run : 0 .. Len(runs')]]
    BY <1>1, <1>2, <1>4 DEF TypeOK
  <2>4. /\ ran' \in [Keys -> [Tasks -> SUBSET Runs']]
        /\ answers' \in [Keys -> SUBSET [status : Terminal, run : Runs']]
    BY <1>1, <1>4, <2>1 DEF TypeOK
  <2> QED
    BY <1>1, <1>2, <1>3, <1>4, <2>2, <2>3, <2>4 DEF TypeOK
<1>6. AtMostOncePerTask' /\ RowOutlivesRuns'
  BY <1>4 DEF IInv, AtMostOncePerTask, RowOutlivesRuns, Cached
<1>7. ProgressIsRecorded'
  <2>1. \A l \in Keys : Cached(l)' = Cached(l)
    BY <1>4 DEF Cached
  <2>2. \A u \in Tasks \ {t} : Progress(u)'
    BY <1>1, <1>2, <1>3, <1>4, <2>1, OthersProgress
  <2>3. Progress(t)'
    BY <1>1, <1>2, <1>3, <1>4 DEF Progress, HandlerOf, Started
  <2> QED
    BY <2>2, <2>3 DEF ProgressIsRecorded
<1>8. RunsAreOwn'
  <2>1. \A u \in Tasks : HasRun(u) => task[u].run # new
    BY <1>1, <1>2 DEF HasRun, TypeOK, Runs
  <2> QED
    BY <1>1, <1>3, <2>1 DEF IInv, RunsAreOwn, HasRun
<1>9. EnvelopesAreResults'
  <2>0. Len(runs) \in Nat /\ Len(runs) <= Len(runs') /\ Len(runs') \in Nat
    BY <1>2
  <2>1. /\ \A r \in Runs : runs[r].handler \in Terminal => runs'[r].handler = runs[r].handler
        /\ \A l \in Keys, u \in Tasks : ran[l][u] \subseteq ran'[l][u]
    BY <1>2, <1>4
  <2>2. \A l \in Keys : \A a : IsResult(l, a) => IsResult(l, a)'
    BY <2>0, <2>1, ResultsStay
  <2> QED
    BY <1>4, <2>2 DEF IInv, EnvelopesAreResults, RowsAreResults
<1> QED
  BY <1>5, <1>6, <1>7, <1>8, <1>9 DEF IInv

\* Nothing but the stage of the process changes.
LEMMA StateWriteFailsKeepsIInv ==
    ASSUME IInv, NEW t \in Tasks, StateWriteFails(t)
    PROVE  IInv'
<1> DEFINE k == task[t].key
           run == task[t].run
<1>1. TypeOK /\ HasRun(t) /\ run \in Runs /\ k \in Keys
  BY DEF IInv, TypeOK, StateWriteFails, HasRun
<1>2. /\ task' \in [Tasks -> [at : Stages, key : Keys, run : 0 .. Len(runs)]]
      /\ task'[t] = [at |-> "aborted", key |-> k, run |-> run]
      /\ \A u \in Tasks \ {t} : task'[u] = task[u]
  BY <1>1, Moving DEF StateWriteFails, Stages, Started
<1>3. UNCHANGED <<row, runs, ran, answers>> /\ faults' \in FaultCounts
  BY <1>1, LifecycleAssumption DEF StateWriteFails, Fault, FaultKinds, FaultCounts, TypeOK
<1>4. TypeOK'
  <2>1. \A u \in Tasks : task'[u].at \notin {"idle", "intent"} => task'[u].run \in Runs
    <3>1. \A u \in Tasks : task[u].at \notin {"idle", "intent"} => task[u].run \in Runs
      BY <1>1 DEF TypeOK
    <3>2. task'[t].run \in Runs
      BY <1>1, <1>2
    <3> QED
      BY <1>2, <3>1, <3>2
  <2> QED
    BY <1>1, <1>2, <1>3, <2>1 DEF TypeOK, Runs
<1>5. AtMostOncePerTask' /\ RowOutlivesRuns' /\ EnvelopesAreResults'
  BY <1>3 DEF IInv, AtMostOncePerTask, RowOutlivesRuns, Cached,
              EnvelopesAreResults, RowsAreResults, IsResult, Runs
<1>6. ProgressIsRecorded'
  <2>1. \A l \in Keys : Cached(l)' = Cached(l)
    BY <1>3 DEF Cached
  <2>2. \A u \in Tasks \ {t} : Progress(u)'
    BY <1>2, <1>3, <2>1, OthersProgress
  <2>3. Progress(t)'
    BY <1>2 DEF Progress, Started
  <2> QED
    BY <2>2, <2>3 DEF ProgressIsRecorded
<1>7. RunsAreOwn'
  BY <1>1, <1>2 DEF IInv, RunsAreOwn, HasRun
<1> QED
  BY <1>4, <1>5, <1>6, <1>7 DEF IInv

\* A process comes to rest.
LEMMA Resting ==
    ASSUME IInv, NEW t \in Tasks, Rest(t), UNCHANGED row, UNCHANGED ran,
           Len(runs') = Len(runs), \A r \in Runs : runs'[r].handler = runs[r].handler
    PROVE  /\ task' \in [Tasks -> [at : Stages, key : Keys, run : 0 .. Len(runs')]]
           /\ \A u \in Tasks : task'[u].at \notin {"idle", "intent"} =>
                task'[u].run \in Runs'
           /\ AtMostOncePerTask' /\ RowOutlivesRuns'
           /\ ProgressIsRecorded' /\ RunsAreOwn'
           /\ RowsAreResults'
           /\ \A k \in Keys : \A a \in answers[k] : IsResult(k, a)'
<1>1. /\ task' = [task EXCEPT ![t] = IdleTask]
      /\ IdleTask \in [at : Stages, key : Keys, run : 0 .. Len(runs)]
      /\ IdleTask.at = "idle"
      /\ task \in [Tasks -> [at : Stages, key : Keys, run : 0 .. Len(runs)]]
      /\ TypeOK /\ Len(runs) \in Nat
  BY LifecycleAssumption DEF IInv, TypeOK, Rest, IdleTask, Stages
<1>2. /\ task' \in [Tasks -> [at : Stages, key : Keys, run : 0 .. Len(runs)]]
      /\ task'[t].at = "idle"
      /\ \A u \in Tasks \ {t} : task'[u] = task[u]
  BY <1>1
<1>3. \A u \in Tasks : task'[u].at \notin {"idle", "intent"} => task'[u].run \in Runs'
  BY <1>1, <1>2 DEF TypeOK, Runs
<1>4. AtMostOncePerTask' /\ RowOutlivesRuns'
  BY DEF IInv, AtMostOncePerTask, RowOutlivesRuns, Cached
<1>5. ProgressIsRecorded'
  <2>1. \A l \in Keys : Cached(l)' = Cached(l)
    BY DEF Cached
  <2>2. \A u \in Tasks \ {t} : Progress(u)'
    BY <1>2, <2>1, OthersProgress
  <2>3. Progress(t)'
    BY <1>2 DEF Progress, Started
  <2> QED
    BY <2>2, <2>3 DEF ProgressIsRecorded
<1>6. RunsAreOwn'
  BY <1>2 DEF IInv, RunsAreOwn, HasRun
<1>7. \A k \in Keys : \A a : IsResult(k, a) => IsResult(k, a)'
  BY <1>1, ResultsStay
<1> QED
  BY <1>2, <1>3, <1>4, <1>5, <1>6, <1>7 DEF IInv, EnvelopesAreResults, RowsAreResults

\* The outcome row, and the answer of a run that has ended.
LEMMA WriteOutcomeKeepsIInv ==
    ASSUME IInv, NEW t \in Tasks, WriteOutcome(t)
    PROVE  IInv'
<1> DEFINE k == task[t].key
           run == task[t].run
           envelope == [status |-> HandlerOf(t), run |-> run]
<1>1. /\ TypeOK /\ run \in Runs /\ k \in Keys
      /\ HandlerOf(t) \in Terminal /\ ran[k][t] = {run}
  BY DEF IInv, TypeOK, WriteOutcome, ProgressIsRecorded, Progress
<1>2. /\ runs' \in Seq(RunRecords) /\ Len(runs') = Len(runs)
      /\ \A q \in Runs : runs'[q].handler = runs[q].handler
  BY <1>1, OutcomeIsSet DEF WriteOutcome
<1>3. /\ Rest(t) /\ UNCHANGED <<row, ran, faults>>
      /\ answers' = [answers EXCEPT ![k] = @ \cup {envelope}]
  BY DEF WriteOutcome, HandlerOf
<1>4. IsResult(k, envelope)
  BY <1>1 DEF IsResult, HandlerOf
<1>5. \A l \in Keys : \A a : IsResult(l, a) => IsResult(l, a)'
  BY <1>1, <1>2, <1>3 DEF IsResult, Runs
<1>6. TypeOK'
  <2>1. answers' \in [Keys -> SUBSET [status : Terminal, run : Runs]]
    BY <1>1, <1>3 DEF TypeOK
  <2>2. Runs' = Runs
    BY <1>2 DEF Runs
  <2> QED
    BY <1>1, <1>2, <1>3, <2>1, <2>2, Resting DEF TypeOK
<1>7. EnvelopesAreResults'
  BY <1>1, <1>2, <1>3, <1>4, <1>5, Resting DEF EnvelopesAreResults, RowsAreResults, TypeOK
<1> QED
  BY <1>2, <1>3, <1>6, <1>7, Resting DEF IInv

\* The outcome row of a request that goes wrong.
LEMMA WriteFailureKeepsIInv ==
    ASSUME IInv, NEW t \in Tasks, WriteFailure(t)
    PROVE  IInv'
<1>1. TypeOK /\ task[t].run \in Runs
  BY DEF IInv, TypeOK, WriteFailure
<1>2. /\ runs' \in Seq(RunRecords) /\ Len(runs') = Len(runs)
      /\ \A q \in Runs : runs'[q].handler = runs[q].handler
  BY <1>1, OutcomeIsSet DEF WriteFailure
<1>3. Rest(t) /\ UNCHANGED <<row, ran, answers, faults>>
  BY DEF WriteFailure
<1>4. TypeOK'
  BY <1>1, <1>2, <1>3, Resting DEF TypeOK, Runs
<1> QED
  BY <1>2, <1>3, <1>4, Resting DEF IInv, EnvelopesAreResults, RowsAreResults

\* A request dies and leaves the tables as they are.
LEMMA RequestDiesKeepsIInv ==
    ASSUME IInv, NEW t \in Tasks, RequestDies(t)
    PROVE  IInv'
<1>1. Rest(t) /\ UNCHANGED <<row, runs, ran, answers>> /\ faults' \in FaultCounts
  BY LifecycleAssumption DEF RequestDies, Fault, FaultKinds, FaultCounts, IInv, TypeOK
<1>2. TypeOK'
  BY <1>1, Resting DEF IInv, TypeOK, Runs
<1> QED
  BY <1>1, <1>2, Resting DEF IInv, EnvelopesAreResults, RowsAreResults

\* A cached envelope is returned.
LEMMA ReturnCachedKeepsIInv ==
    ASSUME IInv, NEW t \in Tasks, NEW k \in Keys, ReturnCached(t, k)
    PROVE  IInv'
<1>1. /\ answers \in [Keys -> SUBSET [status : Terminal, run : Runs]]
      /\ row[k].status \in Terminal => IsResult(k, row[k])
      /\ row[k] \in [status : {"absent", "pending"} \cup Terminal, run : 0 .. Len(runs)]
      /\ UNCHANGED <<row, task, runs, ran, faults>>
  BY DEF IInv, TypeOK, EnvelopesAreResults, RowsAreResults, ReturnCached
<1>2. /\ answers' \in [Keys -> SUBSET [status : Terminal, run : Runs]]
      /\ \A l \in Keys : \A a \in answers'[l] : a \in answers[l] \/ IsResult(l, a)
  BY <1>1 DEF ReturnCached, IsResult
<1>3. TypeOK'
  <2>1. Runs' = Runs /\ TypeOK
    BY <1>1 DEF IInv, Runs
  <2> QED
    BY <1>1, <1>2, <2>1 DEF TypeOK
<1>4. AtMostOncePerTask' /\ RowOutlivesRuns' /\ ProgressIsRecorded' /\ RunsAreOwn'
  BY <1>1 DEF IInv, AtMostOncePerTask, RowOutlivesRuns, ProgressIsRecorded,
              Progress, HandlerOf, RunsAreOwn, HasRun, Cached
<1>5. EnvelopesAreResults'
  BY <1>1, <1>2 DEF IInv, EnvelopesAreResults, RowsAreResults, IsResult, Runs
<1> QED
  BY <1>3, <1>4, <1>5 DEF IInv

\* A request passes the gates: there is no row, so nothing has run.
LEMMA PassGatesKeepsIInv ==
    ASSUME IInv, NEW t \in Tasks, NEW k \in Keys, PassGates(t, k)
    PROVE  IInv'
<1>1. /\ TypeOK /\ ~Cached(k) /\ ran[k][t] = {}
      /\ UNCHANGED <<row, runs, ran, answers, faults>>
  BY DEF IInv, PassGates, RowOutlivesRuns
<1>2. /\ task' \in [Tasks -> [at : Stages, key : Keys, run : 0 .. Len(runs)]]
      /\ task'[t] = [at |-> "intent", key |-> k, run |-> 0]
      /\ \A u \in Tasks \ {t} : task'[u] = task[u]
  BY <1>1 DEF PassGates, TypeOK, Stages
<1>3. TypeOK'
  <2>1. \A u \in Tasks : task'[u].at \notin {"idle", "intent"} => task'[u].run \in Runs
    <3>1. \A u \in Tasks : task[u].at \notin {"idle", "intent"} => task[u].run \in Runs
      BY <1>1 DEF TypeOK
    <3>2. task'[t].at = "intent"
      BY <1>2
    <3> QED
      BY <1>2, <3>1, <3>2
  <2> QED
    BY <1>1, <1>2, <2>1 DEF TypeOK, Runs
<1>4. AtMostOncePerTask' /\ RowOutlivesRuns' /\ EnvelopesAreResults'
  BY <1>1 DEF IInv, AtMostOncePerTask, RowOutlivesRuns, Cached,
              EnvelopesAreResults, RowsAreResults, IsResult, Runs
<1>5. ProgressIsRecorded'
  <2>1. \A l \in Keys : Cached(l)' = Cached(l)
    BY <1>1 DEF Cached
  <2>2. \A u \in Tasks \ {t} : Progress(u)'
    BY <1>1, <1>2, <2>1, OthersProgress
  <2>3. Progress(t)'
    BY <1>1, <1>2 DEF Progress, Started
  <2> QED
    BY <2>2, <2>3 DEF ProgressIsRecorded
<1>6. RunsAreOwn'
  BY <1>2 DEF IInv, RunsAreOwn, HasRun
<1> QED
  BY <1>3, <1>4, <1>5, <1>6 DEF IInv

\* A row expires, and a new window begins for its key.
LEMMA ExpireKeepsIInv ==
    ASSUME IInv, NEW k \in Keys, Expire(k)
    PROVE  IInv'
<1>1. /\ TypeOK /\ UNCHANGED <<task, runs, faults>>
      /\ \A t \in Tasks : task[t].at # "idle" => task[t].key # k
  BY DEF IInv, Expire
<1>2. /\ row' \in [Keys -> [status : {"absent", "pending"} \cup Terminal, run : 0 .. Len(runs)]]
      /\ ran' \in [Keys -> [Tasks -> SUBSET Runs]]
      /\ answers' \in [Keys -> SUBSET [status : Terminal, run : Runs]]
  BY <1>1 DEF Expire, TypeOK, NoRow, Runs
<1>3. /\ row'[k].status = "absent" /\ answers'[k] = {} /\ \A t \in Tasks : ran'[k][t] = {}
      /\ \A l \in Keys \ {k} :
           row'[l] = row[l] /\ answers'[l] = answers[l] /\ ran'[l] = ran[l]
  BY <1>1 DEF Expire, TypeOK, NoRow
<1>4. TypeOK'
  BY <1>1, <1>2 DEF TypeOK, Runs
<1>5. AtMostOncePerTask' /\ RowOutlivesRuns'
  BY <1>3 DEF IInv, AtMostOncePerTask, RowOutlivesRuns, Cached
<1>6. ProgressIsRecorded'
  BY <1>1, <1>3 DEF IInv, TypeOK, ProgressIsRecorded, Progress, HandlerOf, Cached, Started
<1>7. RunsAreOwn'
  BY <1>1 DEF IInv, RunsAreOwn, HasRun
<1>8. EnvelopesAreResults'
  BY <1>1, <1>3 DEF IInv, EnvelopesAreResults, RowsAreResults, IsResult, Runs, Terminal
<1> QED
  BY <1>4, <1>5, <1>6, <1>7, <1>8 DEF IInv

\* Every step keeps the invariant.
LEMMA NextKeepsIInv == IInv /\ [Next]_vars => IInv'
<1> SUFFICES ASSUME IInv, [Next]_vars PROVE IInv'
  OBVIOUS
<1>1. ASSUME NEW t \in Tasks, RequestStep(t) PROVE IInv'
  BY <1>1, WriteIntentKeepsIInv, PutPendingKeepsIInv, StartHandlerKeepsIInv,
     EndHandlerKeepsIInv, UpdateTerminalKeepsIInv, WriteOutcomeKeepsIInv,
     WriteFailureKeepsIInv
  DEF RequestStep
<1>2. CASE UNCHANGED vars
  BY <1>2 DEF vars, IInv, TypeOK, AtMostOncePerTask, RowOutlivesRuns,
              ProgressIsRecorded, Progress, HandlerOf, Cached, RunsAreOwn,
              HasRun, EnvelopesAreResults, RowsAreResults, IsResult, Runs
<1> QED
  BY <1>1, <1>2, ReturnCachedKeepsIInv, PassGatesKeepsIInv,
     StateWriteFailsKeepsIInv, RequestDiesKeepsIInv, ExpireKeepsIInv
  DEF Next

\* The invariant holds in every reachable state.
LEMMA IInvHolds == Spec => []IInv
BY InitEstablishesIInv, NextKeepsIInv, PTL DEF Spec

-----------------------------------------------------------------------------

\* Every reachable state of the protocol is typed.
THEOREM TypeCorrectness == Spec => []TypeOK
BY IInvHolds, PTL DEF IInv

\* execute_lifecycle: one process never runs the handler twice for a key whose
\* row has not expired, whatever failed or was stopped in between.
THEOREM OncePerTask == Spec => []AtMostOncePerTask
BY IInvHolds, PTL DEF IInv

\* With one process, the promise of lifecycle_state.py holds.
THEOREM OneProcessAtMostOnce ==
    ASSUME \A t, u \in Tasks : t = u
    PROVE  Spec => [](AtMostOnce /\ AtMostOncePerTask)
<1>1. AtMostOnce
  BY DEF AtMostOnce
<1> QED
  BY <1>1, OncePerTask, PTL

\* LifecycleStateStore.get and update_terminal: whoever asks is told the same
\* result while only one process has run the handler.
THEOREM AnswersStay == Spec => []AnswersAgree
<1>1. IInv => AnswersAgree
  <2> SUFFICES ASSUME IInv, NEW k \in Keys,
                      \A t, u \in Tasks : ran[k][t] # {} /\ ran[k][u] # {} => t = u,
                      NEW a \in answers[k], NEW b \in answers[k]
               PROVE  a = b
    BY DEF AnswersAgree
  <2>1. /\ a \in [status : Terminal, run : Runs] /\ b \in [status : Terminal, run : Runs]
        /\ IsResult(k, a) /\ IsResult(k, b)
    BY DEF IInv, TypeOK, EnvelopesAreResults, RowsAreResults
  <2>2. PICK t \in Tasks : a.run \in ran[k][t]
    BY <2>1 DEF IsResult
  <2>3. PICK u \in Tasks : b.run \in ran[k][u]
    BY <2>1 DEF IsResult
  <2>4. t = u
    BY <2>2, <2>3
  <2>5. a.run = b.run
    BY <2>2, <2>3, <2>4 DEF IInv, AtMostOncePerTask
  <2>6. a.status = b.status
    BY <2>1, <2>5 DEF IsResult
  <2> QED
    BY <2>1, <2>5, <2>6
<1> QED
  BY <1>1, IInvHolds, PTL
=============================================================================
