------------------------------ MODULE GpuSpawner ------------------------------
(***************************************************************************)
(* gpu-spawner: the consumer of the spawn queue and the spawn callback.    *)
(* A worker is one execution of process_message.  Claims and releases are  *)
(* the one-step grants of SlotOwnership, which the claim protocol of       *)
(* pool_claim.py implements (FramePool, GrantsAreAtomic).                  *)
(***************************************************************************)
EXTENDS StreamingState

Slots == INSTANCE SlotOwnership WITH
           owner <- claimed_by, grant <- slot, Claimers <- Workers

LiveInstances == {i \in Instances : inst[i].phase \in Live}

MoveWorker(w, at) == worker' = [worker EXCEPT ![w].at = at]

\* The execution ends.
Return(w) == worker' = [worker EXCEPT ![w] = IdleWorker]

\* poll_once receives the session's message and the callback starts.
Receive(w, s) ==
    /\ worker[w].at = "idle"
    /\ intent[s] = "queued"
    /\ receives[s] < MaxReceives
    /\ intent' = [intent EXCEPT ![s] = "inflight"]
    /\ receives' = [receives EXCEPT ![s] = @ + 1]
    /\ worker' = [worker EXCEPT ![w] = [IdleWorker EXCEPT !.at = "list", !.sid = s]]
    /\ UNCHANGED <<wsVars, tableVars, poolVars, inst, frames, faults>>

\* A faulty variant: no room is made for the new instance.
VictimsOffByOne ==
    IF Cap = 0 THEN {}
    ELSE {i \in LiveInstances :
            Cardinality({j \in LiveInstances : j < i}) + Cap < Cardinality(LiveInstances)}

\* The oldest instances, as many as it takes to leave room for one more under
\* the cap: those with fewer older ones than `live - cap + 1`.
Victims ==
    IF Cap = 0 THEN {}
    ELSE {i \in LiveInstances :
            Cardinality({j \in LiveInstances : j < i}) + Cap <= Cardinality(LiveInstances)}

\* list_running_instances.
ListRunning(w) ==
    /\ worker[w].at = "list"
    /\ worker' = [worker EXCEPT ![w].at = "evict", ![w].victims = Victims]
    /\ UNCHANGED <<wsVars, tableVars, spawnVars, poolVars, inst, frames, faults>>

\* DescribeInstances failed: go on without evicting.
ListFails(w) ==
    /\ worker[w].at = "list"
    /\ Fault
    /\ MoveWorker(w, "claim")
    /\ UNCHANGED <<wsVars, tableVars, spawnVars, poolVars, inst, frames>>

\* A faulty variant: the list of victims does not shrink.
EvictOneAgain(w) ==
    /\ worker[w].at = "evict"
    /\ \E i \in worker[w].victims :
         inst' = [inst EXCEPT ![i].phase = "terminated"]
    /\ UNCHANGED <<wsVars, tableVars, spawnVars, poolVars, worker, frames, faults>>

\* terminate_instance of the next victim; its slot and its row stay as they are.
EvictOne(w) ==
    /\ worker[w].at = "evict"
    /\ \E i \in worker[w].victims :
         /\ \A j \in worker[w].victims : i <= j
         /\ inst' = [inst EXCEPT ![i].phase = "terminated"]
         /\ worker' = [worker EXCEPT ![w].victims = @ \ {i}]
    /\ UNCHANGED <<wsVars, tableVars, spawnVars, poolVars, frames, faults>>

\* TerminateInstances failed: logged, go on.
EvictFails(w) ==
    /\ worker[w].at = "evict"
    /\ Fault
    /\ \E i \in worker[w].victims :
         worker' = [worker EXCEPT ![w].victims = @ \ {i}]
    /\ UNCHANGED <<wsVars, tableVars, spawnVars, poolVars, inst, frames>>

EvictDone(w) ==
    /\ worker[w].at = "evict"
    /\ worker[w].victims = {}
    /\ MoveWorker(w, "claim")
    /\ UNCHANGED <<wsVars, tableVars, spawnVars, poolVars, inst, frames, faults>>

\* claim(): the queue is drained before it is returned.  What the bounded
\* drain leaves is older than the cutoff of the container's stale filter,
\* minutes later, so nothing sent before the claim is ever heard.
Claim(w, p) ==
    /\ worker[w].at = "claim"
    /\ Slots!Acquire(w, p, worker[w].sid)
    /\ frames' = [frames EXCEPT ![p] = {}]
    /\ MoveWorker(w, "stamp")
    /\ UNCHANGED <<wsVars, tableVars, spawnVars, inst, faults>>

\* PoolExhaustedError: re-raised, the message is left to be redelivered.
PoolExhausted(w) ==
    /\ worker[w].at = "claim"
    /\ \A p \in Pools : claimed_by[p] # NoSession
    /\ Return(w)
    /\ UNCHANGED <<wsVars, tableVars, spawnVars, poolVars, inst, frames, faults>>

\* ConditionExpression of the stamp: attribute_exists(session_id).
StampCondition(s) == RowExists(s)

\* The queue and the status are stamped on the session row, whatever its
\* status is by now.
StampRow(w) ==
    /\ worker[w].at = "stamp"
    /\ StampCondition(worker[w].sid)
    /\ row' = [row EXCEPT ![worker[w].sid] =
                 [status |-> "spawning-gpu", url |-> slot[w]]]
    /\ MoveWorker(w, "launch")
    /\ UNCHANGED <<wsVars, orphaned, spawnVars, poolVars, inst, frames, faults>>

\* The row is gone, or the update fails before it takes effect.
StampFails(w) ==
    /\ worker[w].at = "stamp"
    /\ IF StampCondition(worker[w].sid) THEN Fault ELSE UNCHANGED faults
    /\ MoveWorker(w, "release")
    /\ UNCHANGED <<wsVars, tableVars, spawnVars, poolVars, inst, frames>>

\* A faulty variant: release after success, too.
LetGoOfSlot(w) == Slots!GiveBack(w)

\* After a launch the slot is the instance's: nobody releases it.
LeaveSlot(w) == Slots!LeaveOwned(w)

\* RunInstances takes effect; `known` says whether the caller learns of it.
Boot(w, known) ==
    \E i \in Instances :
        /\ inst[i].phase = "none"
        /\ \A j \in 1 .. (i - 1) : inst[j].phase # "none"
        /\ inst' = [inst EXCEPT ![i] =
             [NoInstance EXCEPT !.phase = "booting", !.sid = worker[w].sid,
                                !.pool = slot[w], !.known = known]]

\* run_instance: a new instance boots with the claimed queue.
Launch(w) ==
    /\ worker[w].at = "launch"
    /\ Boot(w, TRUE)
    /\ LeaveSlot(w)
    /\ MoveWorker(w, "ack")
    /\ UNCHANGED <<wsVars, tableVars, spawnVars, frames, faults>>

\* RunInstances is refused (capacity, quota, permission; in the model also for
\* want of one of the MaxInstances instances).
LaunchFails(w) ==
    /\ worker[w].at = "launch"
    /\ IF \E i \in Instances : inst[i].phase = "none"
       THEN Fault ELSE UNCHANGED faults
    /\ MoveWorker(w, "release")
    /\ UNCHANGED <<wsVars, tableVars, spawnVars, poolVars, inst, frames>>

\* RunInstances took effect but the call raised, a timeout for instance: the
\* code cannot tell and goes on as after a refusal.
LaunchUnacknowledged(w) ==
    /\ worker[w].at = "launch"
    /\ Fault
    /\ Boot(w, FALSE)
    /\ MoveWorker(w, "release")
    /\ UNCHANGED <<wsVars, tableVars, spawnVars, poolVars, frames>>

\* release() of the claimed slot, then the exception: the row keeps the
\* frame_queue_url it may have been stamped with.
ReleaseSlot(w) ==
    /\ worker[w].at = "release"
    /\ Slots!GiveBack(w)
    /\ orphaned' = IF row[worker[w].sid].url = slot[w]
                   THEN orphaned \cup {worker[w].sid} ELSE orphaned
    /\ Return(w)
    /\ UNCHANGED <<wsVars, row, spawnVars, inst, frames, faults>>

\* delete_message, after success only.  It comes too late for a message on the
\* dead-letter queue, and may miss one that was received again since.
DeleteMessage(w) ==
    /\ worker[w].at = "ack"
    /\ LET s == worker[w].sid
           again == \E v \in Workers \ {w} : worker[v].sid = s
       IN  \/ intent[s] # "dlq" /\ intent' = [intent EXCEPT ![s] = "deleted"]
           \/ (intent[s] = "dlq" \/ again) /\ UNCHANGED intent
    /\ Return(w)
    /\ UNCHANGED <<wsVars, tableVars, receives, poolVars, inst, frames, faults>>

\* The task is stopped, or a call raises where nothing is undone (the drain,
\* release, delete_message).  A claimed slot stays claimed.
WorkerDies(w) ==
    /\ worker[w].at # "idle"
    /\ Fault
    /\ Return(w)
    /\ IF slot[w] = NoPool THEN UNCHANGED poolVars ELSE Slots!LeaveOwned(w)
    /\ UNCHANGED <<wsVars, tableVars, spawnVars, inst, frames>>

\* The visibility timeout of a message nobody has deleted ends.  It is back on
\* the queue, or on the dead-letter queue after its last receive.  The
\* timeout, 300 s, may end while its worker is still running.
Reappear(s) ==
    /\ intent[s] = "inflight"
    /\ intent' = [intent EXCEPT ![s] =
                    IF receives[s] < MaxReceives THEN "queued" ELSE "dlq"]
    /\ UNCHANGED <<wsVars, tableVars, receives, poolVars, worker, inst, frames,
                   faults>>

\* What the service's thread does next in an execution it has started.
CallbackStep(w) ==
    \/ ListRunning(w) \/ ListFails(w)
    \/ EvictOne(w) \/ EvictFails(w) \/ EvictDone(w)
    \/ \E p \in Pools : Claim(w, p)
    \/ PoolExhausted(w)
    \/ StampRow(w) \/ StampFails(w)
    \/ Launch(w) \/ LaunchFails(w) \/ LaunchUnacknowledged(w)
    \/ ReleaseSlot(w) \/ DeleteMessage(w)

SpawnerNext(w) ==
    \/ \E s \in Sessions : Receive(w, s)
    \/ CallbackStep(w)
    \/ WorkerDies(w)
=============================================================================
