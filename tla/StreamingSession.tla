--------------------------- MODULE StreamingSession ---------------------------
(***************************************************************************)
(* The streaming path of Panakoes, end to end: clients, the WebSocket      *)
(* Lambda, the spawn queue and gpu-spawner, the frame-queue pool, the GPU  *)
(* hosts and the transcriber containers, with failures and redeliveries.   *)
(***************************************************************************)
EXTENDS StreamingRouter, GpuSpawner, StreamContainer

Next ==
    \/ \E s \in Sessions : RouterNext(s) \/ ClientNext(s) \/ Reappear(s)
    \/ \E w \in Workers : SpawnerNext(w)
    \/ \E i \in Instances : ContainerNext(i)

Spec == Init /\ [][Next]_vars

\* Lambda invocations, the consumer thread and the container run on; messages
\* become visible again and the polls find each of them in the end, between
\* one callback and the next; the watcher keeps polling.  Clients need not do
\* anything, DynamoDB need not delete a row, and no fault has to happen.
Fairness ==
    /\ \A s \in Sessions :
         /\ WF_vars(ConnectPutEvent(s))
         /\ WF_vars(Disconnect(s))
         /\ WF_vars(Reappear(s))
         /\ SF_vars(\E w \in Workers : Receive(w, s))
    /\ \A w \in Workers : WF_vars(CallbackStep(w))
    /\ \A i \in Instances :
         /\ WF_vars(ContainerStep(i))
         /\ WF_vars(Watch(i))

FairSpec == Spec /\ Fairness

-----------------------------------------------------------------------------
(* Properties.                                                             *)

\* Two hosts never consume the same frame queue, unless RunInstances launched
\* one of them behind the spawner's back.
OneConsumer ==
    \A i, j \in LiveInstances :
        i # j /\ inst[i].pool = inst[j].pool => ~(inst[i].known /\ inst[j].known)

\* A container hears its own session only: another session's audio gets there
\* only if that session's row was left naming a queue whose slot was released.
HearsOwnSession ==
    \A i \in Instances :
        inst[i].known => inst[i].heard \subseteq {inst[i].sid} \cup orphaned

\* The queue the router sends a session's frames to is one the pool has
\* claimed for that session, unless its slot was released after the stamp.
FramesGoToOwnQueue ==
    \A s \in Sessions :
        row[s].url # NoPool /\ s \notin orphaned => claimed_by[row[s].url] = s

\* A frame queue carries one session, from the router to one host.
QueuesAreNotShared == OneConsumer /\ FramesGoToOwnQueue

\* Without faults, the hosts running never exceed the cap by more than the
\* callbacks that can be between their listing and their launch at once.
CapHolds ==
    Cap > 0 /\ faults = 0 =>
        Cardinality(LiveInstances) <= Cap + Cardinality(Workers) - 1

\* Every spawn message is worked off: deleted once the spawner knows of a host
\* that was launched for its session, or dead-lettered.
IntentsAreResolved ==
    \A s \in Sessions :
        intent[s] \in {"queued", "inflight"} ~>
            \/ intent[s] = "dlq"
            \/ intent[s] = "deleted" /\ \E i \in Instances : inst[i].sid = s /\ inst[i].known

\* A container that streams while its row says that the session is over stops
\* consuming, unless somebody overwrites the status first.
DisconnectIsNoticed ==
    \A i \in Instances :
        (inst[i].phase = "streaming"
           /\ row[inst[i].sid].status \in {"absent", "disconnected"})
          ~> (inst[i].phase # "streaming"
                \/ row[inst[i].sid].status \notin {"absent", "disconnected"})

-----------------------------------------------------------------------------
(* What docs and comments say, and the code does not do.                   *)

\* "releases it at lifecycle end": once a session's host is terminated and
\* its client is gone, the slot becomes free.
SlotFreedAtLifecycleEnd ==
    \A i \in Instances :
        (inst[i].phase = "terminated" /\ inst[i].known
           /\ client[inst[i].sid] = "closed")
          ~> \A p \in Pools : p = inst[i].pool => claimed_by[p] # inst[i].sid

\* "each session owning exactly one queue at a time".
OneQueuePerSession ==
    \A p, q \in Pools :
        claimed_by[p] = claimed_by[q] /\ claimed_by[p] # NoSession => p = q

\* "gpu-spawner reads the table on a periodic sweep as a backstop": a session
\* whose event was not put is spawned nonetheless.
SweepFindsSession ==
    \A s \in Sessions :
        (row[s].status = "connecting" /\ client[s] = "open")
          ~> (row[s].status # "connecting" \/ client[s] # "open"
                \/ intent[s] = "dlq")

\* "the router is the only legitimate creator" of a session row.
OnlyRouterCreatesRows ==
    [][\A s \in Sessions : ~RowExists(s) /\ RowExists(s)' => client[s] = "new"]_vars

\* "Stops the $0.526/hr leak per aborted session": unless a call fails, a
\* container that ends takes its host with it.
EndedContainerTakesHost ==
    faults = 0 => \A i \in Instances : inst[i].phase # "stopped"

\* "Container's lifecycle watcher detects disconnected row within 10 s": once
\* $disconnect has been handled, the row no longer says that the session runs.
DisconnectIsRecorded ==
    faults = 0 =>
        \A s \in Sessions :
            client[s] = "closed" /\ s \notin disconnects =>
                row[s].status \notin {"connecting", "spawning-gpu"}

\* "so we do not leak a claim on a launch that never happened": a slot that is
\* released is not the queue of a running host.
ReleasedMeansNotLaunched ==
    \A i \in Instances :
        inst[i].phase \in Live => claimed_by[inst[i].pool] # NoSession
=============================================================================
