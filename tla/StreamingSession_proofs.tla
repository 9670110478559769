----------------------- MODULE StreamingSession_proofs -----------------------
(***************************************************************************)
(* Proofs about the streaming path, for any number of sessions, queues,    *)
(* executions of the callback, hosts, redeliveries and faults.             *)
(***************************************************************************)
EXTENDS StreamingSession, FiniteSetTheorems, WellFoundedInduction, TLAPS

Launched(i) == inst[i].phase # "none"

\* A worker's slot is claimed for the session it spawns for.
SlotIsMine ==
    \A w \in Workers : slot[w] # NoPool => claimed_by[slot[w]] = worker[w].sid

\* No two workers have one slot.
ExclusiveSlot ==
    \A v, w \in Workers : v # w /\ slot[v] # NoPool => slot[v] # slot[w]

\* The queue of a known host stays claimed for its session, and no worker has
\* it, so that nobody can release it.
HostKeepsSlot ==
    \A i \in Instances :
        Launched(i) /\ inst[i].known =>
            /\ claimed_by[inst[i].pool] = inst[i].sid
            /\ \A w \in Workers : slot[w] # inst[i].pool

\* No two known hosts were ever launched with one queue.
OneHostPerQueue ==
    \A i, j \in Instances :
        /\ i # j /\ Launched(i) /\ Launched(j)
        /\ inst[i].known /\ inst[j].known
        => inst[i].pool # inst[j].pool

\* The audio in a claimed queue is that of the session it is claimed for, or of
\* one whose row was left behind.
FramesAreOwn ==
    \A p \in Pools :
        claimed_by[p] # NoSession => frames[p] \subseteq {claimed_by[p]} \cup orphaned

SlotInv == SlotIsMine /\ ExclusiveSlot /\ HostKeepsSlot /\ OneHostPerQueue

FlowInv == FramesGoToOwnQueue /\ FramesAreOwn /\ HearsOwnSession

\* The inductive invariant.
IInv == TypeOK /\ SlotInv /\ FlowInv

\* Nothing is there at first.
LEMMA InitEstablishesIInv == Init => IInv
<1> SUFFICES ASSUME Init PROVE IInv
  OBVIOUS
<1> USE StreamingAssumption DEF Init
<1>1. TypeOK
  <2>1. ClientsTyped
    BY DEF ClientsTyped
  <2>2. RowsTyped
    BY DEF RowsTyped, Statuses
  <2>3. WorkersTyped
    BY DEF WorkersTyped, WorkerType, IdleWorker
  <2>4. NoInstance \in HostType
    BY DEF NoInstance, HostType, Phases
  <2>5. HostsTyped
    BY <2>4 DEF HostsTyped, IdleWorker, NoInstance
  <2> QED
    BY <2>1, <2>2, <2>3, <2>5 DEF TypeOK
<1>2. \A i \in Instances : ~Launched(i) /\ inst[i].heard = {}
  BY DEF Launched, NoInstance
<1>3. SlotInv
  BY <1>2 DEF SlotInv, SlotIsMine, ExclusiveSlot, HostKeepsSlot, OneHostPerQueue
<1>4. FlowInv
  BY <1>2 DEF FlowInv, FramesGoToOwnQueue, FramesAreOwn, HearsOwnSession
<1> QED
  BY <1>1, <1>3, <1>4 DEF IInv

-----------------------------------------------------------------------------
(* Types.                                                                  *)

\* A host that changes keeps its session and its queue.
LEMMA HostChanges ==
    ASSUME HostsTyped, NEW i \in Instances, NEW v \in HostType,
           v.phase # "none", v.sid \in Sessions, v.pool \in Pools,
           inst' = [inst EXCEPT ![i] = v],
           \A w \in Workers : worker'[w].victims \subseteq worker[w].victims
    PROVE  HostsTyped'
BY DEF HostsTyped

\* What changes the workers only.
LEMMA HostsStay ==
    ASSUME HostsTyped, UNCHANGED inst,
           \A w \in Workers, i \in Instances :
               i \in worker'[w].victims => i \in worker[w].victims \/ inst[i].phase # "none"
    PROVE  HostsTyped'
BY DEF HostsTyped

\* A worker that moves on, with or without its slot.
LEMMA WorkerChanges ==
    ASSUME WorkersTyped, NEW w \in Workers,
           NEW v \in WorkerType,
           v.at # "idle" => v.sid \in Sessions,
           worker' = [worker EXCEPT ![w] = v],
           NEW p \in Pools \cup {NoPool}, slot' = [slot EXCEPT ![w] = p],
           p # NoPool <=> v.at \in {"stamp", "launch", "release"},
           claimed_by' \in [Pools -> Sessions \cup {NoSession}]
    PROVE  WorkersTyped'
BY DEF WorkersTyped

\* A worker that moves on to another point.
LEMMA WorkerMoves ==
    ASSUME WorkersTyped, NEW w \in Workers, worker[w].at # "idle",
           NEW at \in {"claim", "stamp", "launch", "release", "ack"},
           MoveWorker(w, at),
           NEW p \in Pools \cup {NoPool}, slot' = [slot EXCEPT ![w] = p],
           p # NoPool <=> at \in {"stamp", "launch", "release"},
           claimed_by' \in [Pools -> Sessions \cup {NoSession}]
    PROVE  /\ WorkersTyped'
           /\ \A v \in Workers : /\ worker'[v].victims = worker[v].victims
                                 /\ worker'[v].sid = worker[v].sid
<1> DEFINE v == [worker[w] EXCEPT !.at = at]
<1>1. /\ v \in WorkerType
      /\ v.sid = worker[w].sid /\ v.at = at /\ v.victims = worker[w].victims
      /\ v.sid \in Sessions
  BY DEF WorkersTyped, WorkerType
<1>2. worker' = [worker EXCEPT ![w] = v]
  BY DEF MoveWorker, WorkersTyped
<1> HIDE DEF v
<1>3. WorkersTyped'
  BY <1>1, <1>2, WorkerChanges
<1> QED
  BY <1>1, <1>2, <1>3 DEF WorkersTyped

\* A worker that is done has neither slot nor victims.
LEMMA WorkerReturns ==
    ASSUME WorkersTyped, NEW w \in Workers, Return(w),
           slot' = [slot EXCEPT ![w] = NoPool],
           claimed_by' \in [Pools -> Sessions \cup {NoSession}]
    PROVE  /\ WorkersTyped'
           /\ \A v \in Workers : /\ worker'[v].victims \subseteq worker[v].victims
                                 /\ v # w => worker'[v].sid = worker[v].sid
<1>1. /\ IdleWorker \in WorkerType
      /\ IdleWorker.at = "idle" /\ IdleWorker.victims = {}
  BY DEF IdleWorker, WorkerType
<1>2. worker' = [worker EXCEPT ![w] = IdleWorker]
  BY DEF Return
<1>3. WorkersTyped'
  BY <1>1, <1>2, WorkerChanges
<1> QED
  BY <1>1, <1>2, <1>3 DEF WorkersTyped

\* A worker without a slot that leaves the slots alone.
LEMMA NoSlotStays ==
    ASSUME WorkersTyped, NEW w \in Workers, UNCHANGED slot
    PROVE  slot' = [slot EXCEPT ![w] = slot[w]]
BY DEF WorkersTyped

\* Faults are counted up to their bound.
LEMMA NextKeepsFaults == TypeOK /\ [Next]_vars => faults' \in 0 .. MaxFaults
<1> SUFFICES ASSUME TypeOK, [Next]_vars PROVE faults' \in 0 .. MaxFaults
  OBVIOUS
<1>1. CASE UNCHANGED faults
  BY <1>1 DEF TypeOK
<1>2. CASE Fault
  BY <1>2, StreamingAssumption DEF Fault, TypeOK
<1>3. UNCHANGED faults \/ Fault
  BY DEF Next, vars, RouterNext, ClientNext, SpawnerNext, CallbackStep, ContainerNext,
         ContainerStep, ConnectPutRow, ConnectPutEvent, ConnectEventFails, ConnectDies,
         Disconnect, DisconnectLost, AudioFrame, Close, ExpireRow, Reappear, Receive,
         WorkerDies, ListRunning, ListFails, EvictOne, EvictFails, EvictDone, Claim,
         PoolExhausted, StampRow, StampFails, Launch, LaunchFails, LaunchUnacknowledged,
         ReleaseSlot, DeleteMessage, StartContainer, Ping, ModelLoaded, TranscribeFrame,
         StreamStops, WriteFinal, WriteFinalFails, SelfTerminate, SelfTerminateFails,
         BootFails, PassFails, Watch, SpotNotice, ContainerFails, HostLost
<1> QED
  BY <1>1, <1>2, <1>3

\* Connections and messages keep their types.
LEMMA NextKeepsClients == TypeOK /\ [Next]_vars => ClientsTyped'
<1> SUFFICES ASSUME TypeOK, [Next]_vars PROVE ClientsTyped'
  OBVIOUS
<1> USE DEF TypeOK
<1>1. CASE UNCHANGED <<client, disconnects, intent, receives>>
  BY <1>1 DEF ClientsTyped
<1>2. ASSUME NEW s \in Sessions, RouterNext(s) \/ ClientNext(s) PROVE ClientsTyped'
  BY <1>2 DEF ClientsTyped, wsVars, spawnVars, RouterNext, ClientNext, ConnectPutRow,
              ConnectPutEvent, ConnectEventFails, ConnectDies, Disconnect,
              DisconnectLost, AudioFrame, Close, ExpireRow
<1>3. ASSUME NEW s \in Sessions, Reappear(s) PROVE ClientsTyped'
  BY <1>3 DEF ClientsTyped, wsVars, Reappear
<1>4. ASSUME NEW w \in Workers, NEW s \in Sessions, Receive(w, s) PROVE ClientsTyped'
  BY <1>4, StreamingAssumption DEF ClientsTyped, wsVars, Receive
<1>5. ASSUME NEW w \in Workers, DeleteMessage(w) PROVE ClientsTyped'
  BY <1>5 DEF ClientsTyped, wsVars, DeleteMessage
<1>6. ASSUME NEW w \in Workers, CallbackStep(w) \/ WorkerDies(w)
      PROVE  ClientsTyped'
  BY <1>1, <1>5, <1>6
     DEF CallbackStep, WorkerDies, ListRunning, ListFails, EvictOne, EvictFails,
         EvictDone, Claim, PoolExhausted, StampRow, StampFails, Launch, LaunchFails,
         LaunchUnacknowledged, ReleaseSlot, wsVars, spawnVars
<1>7. ASSUME NEW i \in Instances, ContainerNext(i) PROVE ClientsTyped'
  BY <1>1, <1>7
     DEF ContainerNext, ContainerStep, StartContainer, Ping, ModelLoaded, TranscribeFrame,
         StreamStops, WriteFinal, WriteFinalFails, SelfTerminate, SelfTerminateFails,
         BootFails, PassFails, Watch, SpotNotice, ContainerFails, HostLost, Alone,
         wsVars, spawnVars
<1>8. CASE UNCHANGED vars
  BY <1>1, <1>8 DEF vars, wsVars, spawnVars
<1> QED
  BY <1>2, <1>3, <1>4, <1>6, <1>7, <1>8 DEF Next, SpawnerNext

\* A status is set; the queue the row names stays.
LEMMA StatusSet ==
    ASSUME RowsTyped, NEW s, NEW status \in Statuses \ {"absent"}, SetStatus(s, status)
    PROVE  /\ row' \in [Sessions -> [status : Statuses, url : Pools \cup {NoPool}]]
           /\ \A t \in Sessions : /\ row'[t].url = row[t].url
                                  /\ row'[t].status = "absent" => row[t].status = "absent"
BY DEF RowsTyped, SetStatus

\* Rows and queues keep their types.
LEMMA NextKeepsRows == TypeOK /\ [Next]_vars => RowsTyped'
<1> SUFFICES ASSUME TypeOK, [Next]_vars PROVE RowsTyped'
  OBVIOUS
<1> USE DEF TypeOK
<1>0. \A status \in {"connecting", "spawning-gpu", "disconnected", "ended", "unset"} :
         status \in Statuses \ {"absent"}
  BY DEF Statuses
<1>1. CASE UNCHANGED <<row, orphaned, frames>>
  BY <1>1 DEF RowsTyped
<1>2. ASSUME NEW s, NEW status \in Statuses \ {"absent"}, SetStatus(s, status),
             UNCHANGED <<orphaned, frames>>
      PROVE  RowsTyped'
  BY <1>2, StatusSet DEF RowsTyped
<1>3. ASSUME NEW s \in Sessions, ConnectPutRow(s) \/ Disconnect(s) PROVE RowsTyped'
  BY <1>0, <1>1, <1>2, <1>3 DEF ConnectPutRow, Disconnect
<1>4. ASSUME NEW s \in Sessions, AudioFrame(s) PROVE RowsTyped'
  <2>1. frames' \in [Pools -> SUBSET Sessions]
    BY <1>4 DEF AudioFrame, RowsTyped
  <2> QED
    BY <1>4, <2>1 DEF AudioFrame, RowsTyped, tableVars
<1>5. ASSUME NEW s \in Sessions, ExpireRow(s) PROVE RowsTyped'
  BY <1>5 DEF ExpireRow, RowsTyped, Statuses
<1>6. ASSUME NEW s \in Sessions, RouterNext(s) \/ ClientNext(s) \/ Reappear(s)
      PROVE  RowsTyped'
  BY <1>1, <1>3, <1>4, <1>5, <1>6
     DEF RouterNext, ClientNext, ConnectPutEvent, ConnectEventFails, ConnectDies,
         DisconnectLost, Close, Reappear, tableVars
<1>7. ASSUME NEW w \in Workers, NEW p \in Pools, Claim(w, p) PROVE RowsTyped'
  BY <1>7 DEF Claim, RowsTyped, tableVars
<1>8. ASSUME NEW w \in Workers, StampRow(w) PROVE RowsTyped'
  BY <1>8 DEF StampRow, RowsTyped, WorkersTyped, Statuses
<1>9. ASSUME NEW w \in Workers, ReleaseSlot(w) PROVE RowsTyped'
  BY <1>9 DEF ReleaseSlot, RowsTyped, WorkersTyped
<1>10. ASSUME NEW w \in Workers, SpawnerNext(w) PROVE RowsTyped'
  BY <1>1, <1>7, <1>8, <1>9, <1>10
     DEF SpawnerNext, CallbackStep, Receive, WorkerDies, ListRunning, ListFails, EvictOne,
         EvictFails, EvictDone, PoolExhausted, StampFails, Launch, LaunchFails,
         LaunchUnacknowledged, DeleteMessage, tableVars
<1>11. ASSUME NEW i \in Instances, WriteFinal(i) PROVE RowsTyped'
  BY <1>0, <1>2, <1>11 DEF WriteFinal, Alone
<1>12. ASSUME NEW i \in Instances, TranscribeFrame(i) \/ PassFails(i) PROVE RowsTyped'
  <2>1. frames' \in [Pools -> SUBSET Sessions] /\ UNCHANGED orphaned
    BY <1>12 DEF TranscribeFrame, PassFails, RowsTyped, Alone
  <2>2. CASE UNCHANGED row
    BY <2>1, <2>2 DEF RowsTyped
  <2>3. CASE SetStatus(inst[i].sid, "unset")
    BY <1>0, <2>1, <2>3, StatusSet DEF RowsTyped
  <2> QED
    BY <1>12, <2>2, <2>3 DEF TranscribeFrame, PassFails, UpdateTranscript
<1>13. ASSUME NEW i \in Instances, ContainerNext(i) PROVE RowsTyped'
  BY <1>1, <1>11, <1>12, <1>13
     DEF ContainerNext, ContainerStep, StartContainer, Ping, ModelLoaded, StreamStops,
         WriteFinalFails, SelfTerminate, SelfTerminateFails, BootFails, Watch, SpotNotice,
         ContainerFails, HostLost, Alone
<1>14. CASE UNCHANGED vars
  BY <1>1, <1>14 DEF vars, tableVars
<1> QED
  BY <1>6, <1>10, <1>13, <1>14 DEF Next

\* A host that has been launched becomes v, which has its session and its queue.
HostMoves(i, v) ==
    /\ v \in HostType
    /\ inst' = [inst EXCEPT ![i] = v]
    /\ inst[i].phase # "none" /\ v.phase # "none"
    /\ v.sid = inst[i].sid /\ v.pool = inst[i].pool /\ v.known = inst[i].known

\* A container's step leaves its session, its queue and how it was launched.
LEMMA ContainerKeepsHosts ==
    ASSUME HostsTyped, RowsTyped, NEW i \in Instances, ContainerNext(i)
    PROVE  /\ UNCHANGED <<worker, slot, claimed_by>>
           /\ \E v : HostMoves(i, v)
<1>9. UNCHANGED <<worker, slot, claimed_by>>
  BY DEF ContainerNext, ContainerStep, StartContainer, Ping, ModelLoaded, TranscribeFrame,
         StreamStops, WriteFinal, WriteFinalFails, SelfTerminate, SelfTerminateFails,
         BootFails, PassFails, Watch, SpotNotice, ContainerFails, HostLost, Alone, poolVars
<1> SUFFICES \E v : HostMoves(i, v)
  BY <1>9
<1>0. inst[i] \in HostType
  BY DEF HostsTyped
<1>1. ASSUME NEW phase \in Phases \ {"none"}, Move(i, phase), inst[i].phase # "none"
      PROVE  \E v : HostMoves(i, v)
  <2> DEFINE v == [inst[i] EXCEPT !.phase = phase]
  <2>1. /\ v \in HostType /\ v.phase # "none"
        /\ v.sid = inst[i].sid /\ v.pool = inst[i].pool /\ v.known = inst[i].known
    BY <1>0, <1>1 DEF HostType
  <2>2. inst' = [inst EXCEPT ![i] = v]
    BY <1>1 DEF Move, HostsTyped
  <2> HIDE DEF v
  <2>9. HostMoves(i, v)
    BY <1>1, <2>1, <2>2 DEF HostMoves
  <2> QED
    BY <2>9
<1>2. CASE \/ StartContainer(i) \/ ModelLoaded(i) \/ StreamStops(i) \/ WriteFinal(i)
           \/ WriteFinalFails(i) \/ SelfTerminate(i) \/ SelfTerminateFails(i)
           \/ BootFails(i) \/ HostLost(i)
  <2>1. \A phase \in {"loading", "stopped", "streaming", "draining", "finalized",
                      "terminated"} : phase \in Phases \ {"none"}
    BY DEF Phases
  <2>2. inst[i].phase # "none" /\ \E phase \in Phases \ {"none"} : Move(i, phase)
    BY <1>2, <2>1 DEF StartContainer, ModelLoaded, StreamStops, WriteFinal,
       WriteFinalFails, SelfTerminate, SelfTerminateFails, BootFails, HostLost, Live
  <2> QED
    BY <1>1, <2>2
<1>3. CASE Watch(i) \/ SpotNotice(i)
  <2> DEFINE v == [inst[i] EXCEPT !.event = TRUE]
  <2>1. /\ v \in HostType /\ v.phase = inst[i].phase
        /\ v.sid = inst[i].sid /\ v.pool = inst[i].pool /\ v.known = inst[i].known
    BY <1>0 DEF HostType
  <2>2. inst' = [inst EXCEPT ![i] = v] /\ inst[i].phase # "none"
    BY <1>3 DEF Watch, SpotNotice, HostsTyped
  <2> HIDE DEF v
  <2>9. HostMoves(i, v)
    BY <2>1, <2>2 DEF HostMoves
  <2> QED
    BY <2>9
<1>4. CASE Ping(i)
  <2> DEFINE v == [inst[i] EXCEPT !.gone = TRUE]
  <2>1. /\ v \in HostType /\ v.phase = inst[i].phase
        /\ v.sid = inst[i].sid /\ v.pool = inst[i].pool /\ v.known = inst[i].known
    BY <1>0 DEF HostType
  <2>2. inst' = [inst EXCEPT ![i] = v] /\ inst[i].phase # "none"
    BY <1>4 DEF Ping, HostsTyped
  <2> HIDE DEF v
  <2>9. HostMoves(i, v)
    BY <2>1, <2>2 DEF HostMoves
  <2> QED
    BY <2>9
<1>5. ASSUME NEW s \in Sessions, NEW phase \in {"streaming", "draining"},
             inst' = [inst EXCEPT ![i].heard = @ \cup {s}, ![i].phase = phase],
             inst[i].phase # "none"
      PROVE  \E v : HostMoves(i, v)
  <2> DEFINE h == inst[i].heard \cup {s}
             v == [[inst[i] EXCEPT !.heard = h] EXCEPT !.phase = phase]
  <2>1. h \in SUBSET Sessions
    BY <1>0 DEF HostType
  <2>2. inst' = [inst EXCEPT ![i] = v]
    BY <1>5 DEF HostsTyped, HostType
  <2>3. /\ v \in HostType /\ v.phase = phase
        /\ v.sid = inst[i].sid /\ v.pool = inst[i].pool /\ v.known = inst[i].known
    <3> HIDE DEF h
    <3> QED
      BY <1>0, <2>1 DEF HostType, Phases
  <2> HIDE DEF v
  <2>9. HostMoves(i, v)
    BY <1>5, <2>2, <2>3 DEF HostMoves
  <2> QED
    BY <2>9
<1>6. CASE TranscribeFrame(i) \/ PassFails(i)
  <2>1. inst[i].phase = "streaming" /\ inst[i].pool \in Pools
    BY <1>6 DEF TranscribeFrame, PassFails, HostsTyped
  <2>2. frames[inst[i].pool] \subseteq Sessions
    BY <2>1 DEF RowsTyped
  <2>3. CASE TranscribeFrame(i)
    <3>1. CASE inst[i].event \/ inst[i].gone
      <4>1. \E s \in Sessions :
              inst' = [inst EXCEPT ![i].heard = @ \cup {s}, ![i].phase = "draining"]
        BY <2>2, <2>3, <3>1 DEF TranscribeFrame
      <4> QED
        BY <1>5, <2>1, <4>1
    <3>2. CASE ~(inst[i].event \/ inst[i].gone)
      <4>1. \E s \in Sessions :
              inst' = [inst EXCEPT ![i].heard = @ \cup {s}, ![i].phase = "streaming"]
        BY <2>2, <2>3, <3>2 DEF TranscribeFrame
      <4> QED
        BY <1>5, <2>1, <4>1
    <3> QED
      BY <3>1, <3>2
  <2>4. CASE PassFails(i)
    <3>1. PICK s \in Sessions : inst' = [inst EXCEPT ![i].heard = @ \cup {s}]
      BY <2>2, <2>4 DEF PassFails
    <3> DEFINE h == inst[i].heard \cup {s}
               v == [inst[i] EXCEPT !.heard = h]
    <3>2. h \in SUBSET Sessions
      BY <1>0 DEF HostType
    <3>3. inst' = [inst EXCEPT ![i] = v]
      BY <3>1 DEF HostsTyped
    <3>4. /\ v \in HostType /\ v.phase = inst[i].phase
          /\ v.sid = inst[i].sid /\ v.pool = inst[i].pool /\ v.known = inst[i].known
      <4> HIDE DEF h
      <4> QED
        BY <1>0, <3>2 DEF HostType
    <3> HIDE DEF v
    <3>9. HostMoves(i, v)
      BY <2>1, <3>3, <3>4 DEF HostMoves
    <3> QED
      BY <3>9
  <2> QED
    BY <1>6, <2>3, <2>4
<1>8. CASE ContainerFails(i)
  <2>1. inst[i].phase # "none"
    BY <1>8 DEF ContainerFails
  <2>2. CASE inst[i].restarted
    <3>1. Move(i, "stopped")
      BY <1>8, <2>2 DEF ContainerFails, Move, HostsTyped
    <3>2. "stopped" \in Phases \ {"none"}
      BY DEF Phases
    <3> QED
      BY <1>1, <2>1, <3>1, <3>2
  <2>3. CASE ~inst[i].restarted
    <3> DEFINE v == [inst[i] EXCEPT !.phase = "booting", !.restarted = TRUE,
                                    !.event = FALSE, !.gone = FALSE]
    <3>1. /\ v \in HostType /\ v.phase = "booting"
          /\ v.sid = inst[i].sid /\ v.pool = inst[i].pool /\ v.known = inst[i].known
      BY <1>0 DEF HostType, Phases
    <3>2. inst' = [inst EXCEPT ![i] = v]
      BY <1>8, <2>3 DEF ContainerFails, HostsTyped
    <3> HIDE DEF v
    <3>9. HostMoves(i, v)
      BY <2>1, <3>1, <3>2 DEF HostMoves
    <3> QED
      BY <3>9
  <2> QED
    BY <2>2, <2>3
<1> QED
  BY <1>2, <1>3, <1>4, <1>6, <1>8 DEF ContainerNext, ContainerStep

\* A worker without a slot that goes on without one.
LEMMA NoSlotYet ==
    ASSUME WorkersTyped, NEW w \in Workers, UNCHANGED <<slot, claimed_by>>,
           slot[w] = NoPool,
           NEW v \in WorkerType,
           v.at \in {"list", "evict"}, v.sid \in Sessions,
           worker' = [worker EXCEPT ![w] = v]
    PROVE  /\ WorkersTyped'
           /\ \A x \in Workers : worker'[x] = IF x = w THEN v ELSE worker[x]
<1>1. WorkersTyped'
  BY WorkerChanges, NoSlotStays DEF WorkersTyped
<1> QED
  BY <1>1 DEF WorkersTyped

\* A launch fills the next place with a host of the worker's session and slot.
LEMMA BootMeans ==
    ASSUME TypeOK, NEW w \in Workers, worker[w].at = "launch", NEW known \in BOOLEAN,
           Boot(w, known)
    PROVE  \E i \in Instances, v \in HostType :
             /\ inst[i].phase = "none" /\ inst' = [inst EXCEPT ![i] = v]
             /\ v.phase = "booting" /\ v.heard = {}
             /\ v.sid = worker[w].sid /\ v.sid \in Sessions
             /\ v.pool = slot[w] /\ v.pool \in Pools /\ v.known = known
<1> DEFINE v == [NoInstance EXCEPT !.phase = "booting", !.sid = worker[w].sid,
                                   !.pool = slot[w], !.known = known]
<1>1. worker[w].sid \in Sessions /\ slot[w] \in Pools
  BY DEF TypeOK, WorkersTyped
<1>2. /\ v \in HostType /\ v.phase = "booting" /\ v.heard = {}
      /\ v.sid = worker[w].sid /\ v.pool = slot[w] /\ v.known = known
  BY <1>1 DEF NoInstance, HostType, Phases
<1>3. PICK i \in Instances : inst[i].phase = "none" /\ inst' = [inst EXCEPT ![i] = v]
  BY DEF Boot
<1> HIDE DEF v
<1> QED
  BY <1>1, <1>2, <1>3

\* Workers and hosts keep their types.
LEMMA NextKeepsWork == TypeOK /\ [Next]_vars => WorkersTyped' /\ HostsTyped'
<1> SUFFICES ASSUME TypeOK, [Next]_vars PROVE WorkersTyped' /\ HostsTyped'
  OBVIOUS
<1> USE DEF TypeOK
<1>1. ASSUME UNCHANGED <<claimed_by, slot, worker, inst>>
      PROVE  WorkersTyped' /\ HostsTyped'
  BY <1>1 DEF WorkersTyped, HostsTyped
<1>2. ASSUME NEW s \in Sessions, RouterNext(s) \/ ClientNext(s) \/ Reappear(s)
      PROVE  WorkersTyped' /\ HostsTyped'
  BY <1>1, <1>2
     DEF RouterNext, ClientNext, ConnectPutRow, ConnectPutEvent, ConnectEventFails,
         ConnectDies, Disconnect, DisconnectLost, AudioFrame, Close, ExpireRow, Reappear,
         poolVars
<1>3. ASSUME NEW i \in Instances, ContainerNext(i) PROVE WorkersTyped' /\ HostsTyped'
  <2>1. UNCHANGED <<worker, slot, claimed_by>>
    BY <1>3, ContainerKeepsHosts
  <2>2. PICK v : HostMoves(i, v)
    BY <1>3, ContainerKeepsHosts
  <2>3. v.sid \in Sessions /\ v.pool \in Pools
    BY <2>2 DEF HostMoves, HostsTyped
  <2>4. HostsTyped'
    BY <2>1, <2>2, <2>3, HostChanges DEF HostMoves
  <2> QED
    BY <2>1, <2>4 DEF WorkersTyped
<1>5. ASSUME NEW w \in Workers, NEW s \in Sessions, Receive(w, s)
      PROVE  WorkersTyped' /\ HostsTyped'
  <2> DEFINE v == [IdleWorker EXCEPT !.at = "list", !.sid = s]
  <2>1. /\ v \in WorkerType
        /\ v.at = "list" /\ v.sid = s /\ v.victims = {}
    BY DEF IdleWorker, WorkerType
  <2>2. /\ worker' = [worker EXCEPT ![w] = v]
        /\ slot[w] = NoPool /\ UNCHANGED <<slot, claimed_by, inst>>
    BY <1>5 DEF Receive, WorkersTyped, poolVars
  <2> HIDE DEF v
  <2>3. /\ WorkersTyped'
        /\ \A x \in Workers : worker'[x] = IF x = w THEN v ELSE worker[x]
    BY <2>1, <2>2, NoSlotYet
  <2> QED
    BY <2>1, <2>2, <2>3, HostsStay
<1>6. ASSUME NEW w \in Workers, ListRunning(w) PROVE WorkersTyped' /\ HostsTyped'
  <2>1. Victims \subseteq Instances /\ \A i \in Victims : inst[i].phase # "none"
    BY DEF Victims, LiveInstances, Live
  <2> DEFINE v == [worker[w] EXCEPT !.at = "evict", !.victims = Victims]
  <2>2. /\ slot[w] = NoPool /\ worker[w].sid \in Sessions
        /\ UNCHANGED <<slot, claimed_by, inst>>
    BY <1>6 DEF ListRunning, WorkersTyped, poolVars
  <2>3. /\ v \in WorkerType
        /\ v.at = "evict" /\ v.sid = worker[w].sid /\ v.victims = Victims
    BY <2>1, <2>2 DEF WorkersTyped, WorkerType
  <2>4. worker' = [worker EXCEPT ![w] = v]
    BY <1>6 DEF ListRunning, WorkersTyped
  <2> HIDE DEF v
  <2>5. /\ WorkersTyped'
        /\ \A x \in Workers : worker'[x] = IF x = w THEN v ELSE worker[x]
    BY <2>2, <2>3, <2>4, NoSlotYet
  <2> QED
    BY <2>1, <2>2, <2>3, <2>5, HostsStay
<1>7. ASSUME NEW w \in Workers, EvictOne(w) \/ EvictFails(w)
      PROVE  WorkersTyped' /\ HostsTyped'
  <2>1. PICK i \in worker[w].victims :
          worker' = [worker EXCEPT ![w].victims = @ \ {i}]
            /\ (inst' = [inst EXCEPT ![i].phase = "terminated"] \/ UNCHANGED inst)
    BY <1>7 DEF EvictOne, EvictFails
  <2> DEFINE vs == worker[w].victims \ {i}
             x == [worker[w] EXCEPT !.victims = vs]
  <2>2. /\ worker[w].victims \subseteq Instances /\ worker[w].at = "evict"
        /\ slot[w] = NoPool /\ worker[w].sid \in Sessions
        /\ UNCHANGED <<slot, claimed_by>>
    BY <1>7 DEF EvictOne, EvictFails, WorkersTyped, WorkerType, poolVars
  <2>a. worker' = [worker EXCEPT ![w] = x]
    BY <2>1 DEF WorkersTyped
  <2>3. vs \subseteq Instances /\ vs \subseteq worker[w].victims
    BY <2>2
  <2> HIDE DEF vs
  <2>b. /\ x \in WorkerType
        /\ x.at = "evict" /\ x.sid = worker[w].sid /\ x.victims = vs
    BY <2>2, <2>3 DEF WorkersTyped, WorkerType
  <2> HIDE DEF x
  <2>c. /\ WorkersTyped'
        /\ \A v \in Workers : worker'[v] = IF v = w THEN x ELSE worker[v]
    BY <2>2, <2>a, <2>b, NoSlotYet
  <2>4. /\ WorkersTyped'
        /\ \A v \in Workers : worker'[v].victims \subseteq worker[v].victims
    BY <2>3, <2>b, <2>c
  <2>5. CASE UNCHANGED inst
    BY <2>4, <2>5, HostsStay
  <2>6. CASE inst' = [inst EXCEPT ![i].phase = "terminated"]
    <3> DEFINE v == [inst[i] EXCEPT !.phase = "terminated"]
    <3>1. i \in Instances /\ inst[i] \in HostType /\ inst[i].phase # "none"
      BY <2>1, <2>2 DEF HostsTyped
    <3>2. /\ v \in HostType /\ v.phase # "none"
          /\ v.sid = inst[i].sid /\ v.pool = inst[i].pool
      BY <3>1 DEF HostType, Phases
    <3>3. inst' = [inst EXCEPT ![i] = v]
      BY <2>6, <3>1 DEF HostsTyped
    <3> HIDE DEF v
    <3>4. v.sid \in Sessions /\ v.pool \in Pools
      BY <3>1, <3>2 DEF HostsTyped
    <3>5. HostsTyped'
      BY <2>4, <3>1, <3>2, <3>3, <3>4, HostChanges
    <3> QED
      BY <2>4, <3>5
  <2> QED
    BY <2>1, <2>5, <2>6
<1>8. ASSUME NEW w \in Workers, ListFails(w) \/ EvictDone(w)
      PROVE  WorkersTyped' /\ HostsTyped'
  <2>1. /\ worker[w].at \in {"list", "evict"} /\ MoveWorker(w, "claim")
        /\ UNCHANGED <<slot, claimed_by, inst>>
    BY <1>8 DEF ListFails, EvictDone, poolVars
  <2>2. slot[w] = NoPool /\ slot' = [slot EXCEPT ![w] = NoPool]
        /\ claimed_by' \in [Pools -> Sessions \cup {NoSession}]
    BY <2>1, NoSlotStays DEF WorkersTyped
  <2>3. WorkersTyped' /\ \A v \in Workers : worker'[v].victims = worker[v].victims
    BY <2>1, <2>2, WorkerMoves
  <2> QED
    BY <2>1, <2>3, HostsStay
<1>9. ASSUME NEW w \in Workers, NEW p \in Pools, Claim(w, p)
      PROVE  WorkersTyped' /\ HostsTyped'
  <2>1. /\ worker[w].at = "claim" /\ worker[w].sid \in Sessions
        /\ MoveWorker(w, "stamp") /\ UNCHANGED inst
        /\ slot' = [slot EXCEPT ![w] = p]
        /\ claimed_by' = [claimed_by EXCEPT ![p] = worker[w].sid]
        /\ p # NoPool
    BY <1>9, StreamingAssumption DEF Claim, Slots!Acquire, WorkersTyped
  <2>2. claimed_by' \in [Pools -> Sessions \cup {NoSession}]
    BY <2>1 DEF WorkersTyped
  <2>3. WorkersTyped' /\ \A v \in Workers : worker'[v].victims = worker[v].victims
    BY <2>1, <2>2, WorkerMoves
  <2> QED
    BY <2>1, <2>3, HostsStay
<1>10. ASSUME NEW w \in Workers, StampRow(w) \/ StampFails(w) \/ LaunchFails(w)
       PROVE  WorkersTyped' /\ HostsTyped'
  <2>1. /\ worker[w].at \in {"stamp", "launch"}
        /\ MoveWorker(w, "launch") \/ MoveWorker(w, "release")
        /\ UNCHANGED <<slot, claimed_by, inst>>
    BY <1>10 DEF StampRow, StampFails, LaunchFails, poolVars
  <2>2. /\ slot[w] # NoPool /\ slot[w] \in Pools \cup {NoPool}
        /\ slot' = [slot EXCEPT ![w] = slot[w]]
        /\ claimed_by' \in [Pools -> Sessions \cup {NoSession}]
    BY <2>1, NoSlotStays DEF WorkersTyped
  <2>3. WorkersTyped' /\ \A v \in Workers : worker'[v].victims = worker[v].victims
    BY <2>1, <2>2, WorkerMoves
  <2> QED
    BY <2>1, <2>3, HostsStay
<1>11. ASSUME NEW w \in Workers, Launch(w) \/ LaunchUnacknowledged(w)
       PROVE  WorkersTyped' /\ HostsTyped'
  <2>1. /\ worker[w].at = "launch" /\ \E known \in BOOLEAN : Boot(w, known)
        /\ claimed_by' \in [Pools -> Sessions \cup {NoSession}]
        /\ \/ MoveWorker(w, "ack") /\ slot' = [slot EXCEPT ![w] = NoPool]
           \/ MoveWorker(w, "release") /\ UNCHANGED slot
    BY <1>11 DEF Launch, LaunchUnacknowledged, LeaveSlot, Slots!LeaveOwned, WorkersTyped,
       poolVars
  <2>2. slot[w] # NoPool /\ slot[w] \in Pools
    BY <2>1 DEF WorkersTyped
  <2>3. WorkersTyped' /\ \A v \in Workers : worker'[v].victims = worker[v].victims
    BY <2>1, <2>2, WorkerMoves, NoSlotStays
  <2>4. PICK i \in Instances, v \in HostType :
          /\ inst' = [inst EXCEPT ![i] = v] /\ v.phase = "booting"
          /\ v.sid \in Sessions /\ v.pool \in Pools
    BY <2>1, BootMeans
  <2>5. HostsTyped'
    BY <2>3, <2>4, HostChanges
  <2> QED
    BY <2>3, <2>5
<1>12. ASSUME NEW w \in Workers, \/ ReleaseSlot(w) \/ DeleteMessage(w)
                                 \/ PoolExhausted(w) \/ WorkerDies(w)
       PROVE  WorkersTyped' /\ HostsTyped'
  <2>1. /\ Return(w) /\ UNCHANGED inst
        /\ \/ slot' = [slot EXCEPT ![w] = NoPool]
           \/ slot[w] = NoPool /\ UNCHANGED slot
        /\ claimed_by' \in [Pools -> Sessions \cup {NoSession}]
    BY <1>12 DEF ReleaseSlot, DeleteMessage, PoolExhausted, WorkerDies, WorkersTyped,
       Slots!GiveBack, Slots!LeaveOwned, poolVars
  <2>2. slot' = [slot EXCEPT ![w] = NoPool]
    BY <2>1, NoSlotStays
  <2>3. /\ WorkersTyped'
        /\ \A v \in Workers : worker'[v].victims \subseteq worker[v].victims
    BY <2>1, <2>2, WorkerReturns
  <2> QED
    BY <2>1, <2>3, HostsStay
<1>13. CASE UNCHANGED vars
  BY <1>1, <1>13 DEF vars, poolVars
<1> QED
  BY <1>2, <1>3, <1>5, <1>6, <1>7, <1>8, <1>9, <1>10, <1>11, <1>12, <1>13
     DEF Next, SpawnerNext, CallbackStep

\* Types are kept, whatever is delivered twice, lost, refused or stopped.
THEOREM TypeCorrectness == Spec => []TypeOK
<1>1. Init => TypeOK
  BY InitEstablishesIInv DEF IInv
<1>2. TypeOK /\ [Next]_vars => TypeOK'
  BY NextKeepsFaults, NextKeepsClients, NextKeepsRows, NextKeepsWork DEF TypeOK
<1> QED
  BY <1>1, <1>2, PTL DEF Spec

-----------------------------------------------------------------------------
(* Slots and hosts.                                                        *)

\* Hosts keep their session, their queue and how they were launched.
SameHosts ==
    \A i \in Instances :
        /\ Launched(i)' <=> Launched(i)
        /\ inst'[i].sid = inst[i].sid /\ inst'[i].pool = inst[i].pool
        /\ inst'[i].known = inst[i].known

\* Claims and grants stay, and a worker with a slot stays with its session.
SameSlots ==
    /\ UNCHANGED <<claimed_by, slot>>
    /\ \A w \in Workers : slot[w] # NoPool => worker'[w].sid = worker[w].sid

\* Then they are as far apart as before.
LEMMA SlotsStay == SlotInv /\ SameHosts /\ SameSlots => SlotInv'
<1> SUFFICES ASSUME SlotInv, SameHosts, SameSlots PROVE SlotInv'
  OBVIOUS
<1> USE DEF SlotInv
<1>1. SlotIsMine'
  BY DEF SlotIsMine, SameSlots
<1>2. ExclusiveSlot'
  BY DEF ExclusiveSlot, SameSlots
<1>3. HostKeepsSlot'
  BY DEF HostKeepsSlot, SameSlots, SameHosts
<1>4. OneHostPerQueue'
  BY DEF OneHostPerQueue, SameHosts
<1> QED
  BY <1>1, <1>2, <1>3, <1>4

\* A free row is nobody's queue: to claim it disturbs no one.
LEMMA ClaimKeepsSlots ==
    ASSUME TypeOK, SlotInv, NEW w \in Workers, NEW p \in Pools, Claim(w, p)
    PROVE  SlotInv'
<1>1. /\ slot' = [slot EXCEPT ![w] = p] /\ claimed_by[p] = NoSession
      /\ claimed_by' = [claimed_by EXCEPT ![p] = worker[w].sid]
      /\ worker[w].at = "claim" /\ MoveWorker(w, "stamp") /\ UNCHANGED inst
  BY DEF Claim, Slots!Acquire
<1>2. /\ worker[w].sid \in Sessions /\ p # NoPool
      /\ \A v \in Workers : worker'[v].sid = worker[v].sid
      /\ \A v \in Workers : slot[v] # NoPool =>
           slot[v] \in Pools /\ worker[v].sid \in Sessions
  BY <1>1, StreamingAssumption DEF TypeOK, WorkersTyped, MoveWorker
<1>3. \A v \in Workers : slot[v] # p
  BY <1>1, <1>2, StreamingAssumption DEF SlotInv, SlotIsMine
<1>4. /\ claimed_by'[p] = worker[w].sid
      /\ \A q \in Pools : q # p => claimed_by'[q] = claimed_by[q]
      /\ slot'[w] = p
      /\ \A v \in Workers : v # w => slot'[v] = slot[v]
  BY <1>1 DEF TypeOK, WorkersTyped
<1>5. SlotIsMine'
  BY <1>2, <1>3, <1>4 DEF SlotInv, SlotIsMine
<1>6. ExclusiveSlot'
  BY <1>2, <1>3, <1>4 DEF SlotInv, ExclusiveSlot
<1>7. HostKeepsSlot'
  <2> SUFFICES ASSUME NEW i \in Instances, Launched(i), inst[i].known
               PROVE  /\ claimed_by'[inst[i].pool] = inst[i].sid
                      /\ \A v \in Workers : slot'[v] # inst[i].pool
    BY <1>1 DEF HostKeepsSlot, Launched
  <2>1. inst[i].pool \in Pools /\ inst[i].sid \in Sessions
    BY DEF Launched, TypeOK, HostsTyped
  <2>2. /\ claimed_by[inst[i].pool] = inst[i].sid
        /\ \A v \in Workers : slot[v] # inst[i].pool
    BY DEF SlotInv, HostKeepsSlot
  <2>3. inst[i].pool # p
    BY <1>1, <2>1, <2>2, StreamingAssumption
  <2> QED
    BY <1>4, <2>1, <2>2, <2>3
<1>8. OneHostPerQueue'
  BY <1>1 DEF SlotInv, OneHostPerQueue, Launched
<1> QED
  BY <1>5, <1>6, <1>7, <1>8 DEF SlotInv

\* A worker lets go of a slot that stays claimed, or is released.
LEMMA LetGoKeepsSlots ==
    ASSUME TypeOK, SlotInv, NEW w \in Workers, slot[w] # NoPool,
           slot' = [slot EXCEPT ![w] = NoPool], UNCHANGED inst,
           \A v \in Workers : v # w => worker'[v].sid = worker[v].sid,
           \/ UNCHANGED claimed_by
           \/ claimed_by' = [claimed_by EXCEPT ![slot[w]] = NoSession]
    PROVE  SlotInv'
<1>1. /\ slot[w] \in Pools
      /\ slot'[w] = NoPool /\ \A v \in Workers : v # w => slot'[v] = slot[v]
      /\ \A q \in Pools : q # slot[w] => claimed_by'[q] = claimed_by[q]
      /\ \A v \in Workers : slot[v] # NoPool => slot[v] \in Pools
  BY DEF TypeOK, WorkersTyped
<1>2. SlotIsMine'
  BY <1>1 DEF SlotInv, SlotIsMine, ExclusiveSlot
<1>3. ExclusiveSlot'
  BY <1>1 DEF SlotInv, ExclusiveSlot
<1>4. HostKeepsSlot'
  <2> SUFFICES ASSUME NEW i \in Instances, Launched(i), inst[i].known
               PROVE  /\ claimed_by'[inst[i].pool] = inst[i].sid
                      /\ \A v \in Workers : slot'[v] # inst[i].pool
    BY DEF HostKeepsSlot, Launched
  <2>1. inst[i].pool \in Pools /\ inst[i].pool # NoPool
    BY StreamingAssumption DEF Launched, TypeOK, HostsTyped
  <2>2. /\ claimed_by[inst[i].pool] = inst[i].sid
        /\ \A v \in Workers : slot[v] # inst[i].pool
    BY DEF SlotInv, HostKeepsSlot
  <2> QED
    BY <1>1, <2>1, <2>2
<1>5. OneHostPerQueue'
  BY DEF SlotInv, OneHostPerQueue, Launched
<1> QED
  BY <1>2, <1>3, <1>4, <1>5 DEF SlotInv

\* A known launch hands the worker's slot to the new host; one behind the
\* spawner's back hands over nothing.
LEMMA BootKeepsSlots ==
    ASSUME TypeOK, SlotInv, NEW w \in Workers, Launch(w) \/ LaunchUnacknowledged(w)
    PROVE  SlotInv'
<1>1. PICK known \in BOOLEAN :
        /\ worker[w].at = "launch" /\ Boot(w, known) /\ UNCHANGED claimed_by
        /\ IF known THEN slot' = [slot EXCEPT ![w] = NoPool] ELSE UNCHANGED slot
        /\ MoveWorker(w, "ack") \/ MoveWorker(w, "release")
  BY DEF Launch, LaunchUnacknowledged, LeaveSlot, Slots!LeaveOwned, poolVars
<1>2. PICK i \in Instances, v \in HostType :
        /\ inst[i].phase = "none" /\ inst' = [inst EXCEPT ![i] = v]
        /\ v.phase = "booting" /\ v.sid = worker[w].sid
        /\ v.pool = slot[w] /\ v.pool \in Pools /\ v.known = known
  BY <1>1, BootMeans
<1>3. /\ slot[w] # NoPool /\ slot[w] \in Pools
      /\ \A x \in Workers : worker'[x].sid = worker[x].sid
      /\ \A x \in Workers : x # w => slot'[x] = slot[x]
      /\ slot'[w] = IF known THEN NoPool ELSE slot[w]
  <2>1. slot[w] # NoPool /\ slot[w] \in Pools
    BY <1>1 DEF TypeOK, WorkersTyped
  <2>2. \A x \in Workers : worker'[x].sid = worker[x].sid
    BY <1>1 DEF TypeOK, WorkersTyped, WorkerType, MoveWorker
  <2>3. CASE known
    BY <1>1, <2>1, <2>2, <2>3 DEF TypeOK, WorkersTyped
  <2>4. CASE ~known
    BY <1>1, <2>1, <2>2, <2>4 DEF TypeOK, WorkersTyped
  <2> QED
    BY <2>3, <2>4
<1>4. /\ inst'[i] = v /\ ~Launched(i) /\ Launched(i)'
      /\ \A j \in Instances : j # i => inst'[j] = inst[j] /\ (Launched(j)' <=> Launched(j))
  BY <1>2 DEF TypeOK, HostsTyped, Launched
<1>5. /\ claimed_by[slot[w]] = worker[w].sid
      /\ \A x \in Workers : x # w => slot[x] # slot[w]
      /\ \A j \in Instances : Launched(j) /\ inst[j].known => inst[j].pool # slot[w]
  BY <1>3 DEF SlotInv, SlotIsMine, ExclusiveSlot, HostKeepsSlot
<1>6. SlotIsMine'
  BY <1>1, <1>3 DEF SlotInv, SlotIsMine
<1>7. ExclusiveSlot'
  BY <1>3 DEF SlotInv, ExclusiveSlot
<1>8. HostKeepsSlot'
  <2> SUFFICES ASSUME NEW j \in Instances, Launched(j)', inst'[j].known
               PROVE  /\ claimed_by[inst'[j].pool] = inst'[j].sid
                      /\ \A x \in Workers : slot'[x] # inst'[j].pool
    BY <1>1 DEF HostKeepsSlot
  <2>1. CASE j = i
    <3>1. known /\ inst'[j].pool = slot[w] /\ inst'[j].sid = worker[w].sid
      BY <1>2, <1>4, <2>1
    <3> QED
      BY <1>3, <1>5, <3>1, StreamingAssumption
  <2>2. CASE j # i
    <3>1. Launched(j) /\ inst'[j] = inst[j] /\ inst[j].pool \in Pools
      BY <1>4, <2>2 DEF TypeOK, HostsTyped, Launched
    <3>2. inst[j].pool # NoPool
      BY <3>1, StreamingAssumption
    <3> QED
      BY <1>3, <3>1, <3>2 DEF SlotInv, HostKeepsSlot
  <2> QED
    BY <2>1, <2>2
<1>9. OneHostPerQueue'
  BY <1>2, <1>4, <1>5 DEF SlotInv, OneHostPerQueue
<1> QED
  BY <1>6, <1>7, <1>8, <1>9 DEF SlotInv

\* Steps that leave the slots alone.
LEMMA SlotsAloneMeans ==
    ASSUME TypeOK, UNCHANGED <<claimed_by, slot, inst>>, NEW w \in Workers,
           \/ UNCHANGED worker
           \/ slot[w] = NoPool /\ \A v \in Workers : v # w => worker'[v].sid = worker[v].sid
           \/ \E at : MoveWorker(w, at)
    PROVE  SameHosts /\ SameSlots
<1>1. SameHosts
  BY DEF SameHosts, Launched
<1>2. \A v \in Workers : slot[v] # NoPool => worker'[v].sid = worker[v].sid
  BY DEF TypeOK, WorkersTyped, WorkerType, MoveWorker
<1> QED
  BY <1>1, <1>2 DEF SameSlots

\* Every step keeps slots and hosts apart.
LEMMA NextKeepsSlots == TypeOK /\ SlotInv /\ [Next]_vars => SlotInv'
<1> SUFFICES ASSUME TypeOK, SlotInv, [Next]_vars PROVE SlotInv'
  OBVIOUS
<1>1. ASSUME UNCHANGED <<claimed_by, slot, worker, inst>> PROVE SlotInv'
  <2>1. SameHosts /\ SameSlots
    BY <1>1 DEF SameHosts, SameSlots, Launched
  <2> QED
    BY <2>1, SlotsStay
<1>2. ASSUME NEW s \in Sessions, RouterNext(s) \/ ClientNext(s) \/ Reappear(s)
      PROVE  SlotInv'
  BY <1>1, <1>2
     DEF RouterNext, ClientNext, ConnectPutRow, ConnectPutEvent, ConnectEventFails,
         ConnectDies, Disconnect, DisconnectLost, AudioFrame, Close, ExpireRow, Reappear,
         poolVars
<1>3. ASSUME NEW i \in Instances, ContainerNext(i) PROVE SlotInv'
  <2>1. UNCHANGED <<worker, slot, claimed_by>>
    BY <1>3, ContainerKeepsHosts DEF TypeOK
  <2>2. PICK v : HostMoves(i, v)
    BY <1>3, ContainerKeepsHosts DEF TypeOK
  <2>3. SameHosts
    BY <2>2 DEF HostMoves, SameHosts, Launched, TypeOK, HostsTyped
  <2> QED
    BY <2>1, <2>3, SlotsStay DEF SameSlots
<1>4. ASSUME NEW w \in Workers, NEW s \in Sessions, Receive(w, s) PROVE SlotInv'
  <2>1. /\ slot[w] = NoPool /\ UNCHANGED <<claimed_by, slot, inst>>
        /\ \A v \in Workers : v # w => worker'[v].sid = worker[v].sid
    BY <1>4 DEF Receive, TypeOK, WorkersTyped, poolVars
  <2> QED
    BY <2>1, SlotsAloneMeans, SlotsStay
<1>5. ASSUME NEW w \in Workers, ListRunning(w) \/ EvictFails(w) PROVE SlotInv'
  <2>1. /\ slot[w] = NoPool /\ UNCHANGED <<claimed_by, slot, inst>>
        /\ \A v \in Workers : v # w => worker'[v].sid = worker[v].sid
    BY <1>5 DEF ListRunning, EvictFails, TypeOK, WorkersTyped, poolVars
  <2> QED
    BY <2>1, SlotsAloneMeans, SlotsStay
<1>6. ASSUME NEW w \in Workers, EvictOne(w) PROVE SlotInv'
  <2>1. PICK i \in worker[w].victims : inst' = [inst EXCEPT ![i].phase = "terminated"]
    BY <1>6 DEF EvictOne
  <2>2. i \in Instances /\ inst[i].phase # "none"
    BY <2>1 DEF TypeOK, WorkersTyped, WorkerType, HostsTyped
  <2>3. SameHosts
    BY <2>1, <2>2 DEF SameHosts, Launched, TypeOK, HostsTyped, HostType
  <2>4. SameSlots
    BY <1>6 DEF EvictOne, SameSlots, TypeOK, WorkersTyped, WorkerType, poolVars
  <2> QED
    BY <2>3, <2>4, SlotsStay
<1>7. ASSUME NEW w \in Workers,
             \/ ListFails(w) \/ EvictDone(w) \/ StampRow(w) \/ StampFails(w) \/ LaunchFails(w)
      PROVE  SlotInv'
  <2>1. UNCHANGED <<claimed_by, slot, inst>> /\ \E at : MoveWorker(w, at)
    BY <1>7 DEF ListFails, EvictDone, StampRow, StampFails, LaunchFails, poolVars
  <2> QED
    BY <2>1, SlotsAloneMeans, SlotsStay
<1>8. ASSUME NEW w \in Workers, Return(w), UNCHANGED inst,
             \/ slot[w] = NoPool /\ UNCHANGED <<claimed_by, slot>>
             \/ /\ slot[w] # NoPool
                /\ slot' = [slot EXCEPT ![w] = NoPool]
                /\ \/ UNCHANGED claimed_by
                   \/ claimed_by' = [claimed_by EXCEPT ![slot[w]] = NoSession]
      PROVE  SlotInv'
  <2>1. \A v \in Workers : v # w => worker'[v].sid = worker[v].sid
    BY <1>8 DEF Return, TypeOK, WorkersTyped
  <2>2. CASE slot[w] = NoPool
    BY <1>8, <2>1, <2>2, SlotsAloneMeans, SlotsStay
  <2>3. CASE slot[w] # NoPool
    BY <1>8, <2>1, <2>3, LetGoKeepsSlots
  <2> QED
    BY <2>2, <2>3
<1>9. ASSUME NEW w \in Workers,
             ReleaseSlot(w) \/ DeleteMessage(w) \/ PoolExhausted(w) \/ WorkerDies(w)
      PROVE  SlotInv'
  <2>1. CASE ReleaseSlot(w)
    BY <1>8, <2>1 DEF ReleaseSlot, Slots!GiveBack
  <2>2. CASE DeleteMessage(w) \/ PoolExhausted(w)
    BY <1>8, <2>2 DEF DeleteMessage, PoolExhausted, TypeOK, WorkersTyped, poolVars
  <2>3. CASE WorkerDies(w)
    BY <1>8, <2>3 DEF WorkerDies, Slots!LeaveOwned, poolVars
  <2> QED
    BY <1>9, <2>1, <2>2, <2>3
<1>10. CASE UNCHANGED vars
  BY <1>1, <1>10 DEF vars, poolVars
<1> QED
  BY <1>2, <1>3, <1>4, <1>5, <1>6, <1>7, <1>9, <1>10, ClaimKeepsSlots, BootKeepsSlots
     DEF Next, SpawnerNext, CallbackStep

-----------------------------------------------------------------------------
(* Audio.                                                                  *)

\* Nothing new is heard, sent or named.
NothingFlows ==
    /\ UNCHANGED <<claimed_by, orphaned>>
    /\ \A s \in Sessions : row'[s].url \in {row[s].url, NoPool}
    /\ \A p \in Pools : frames'[p] \subseteq frames[p]
    /\ \A i \in Instances :
         inst'[i].known =>
             \/ inst'[i].heard = {}
             \/ /\ inst[i].known /\ inst'[i].sid = inst[i].sid
                /\ inst'[i].heard \subseteq inst[i].heard

\* Then audio is where it belongs as before.
LEMMA NothingFlowsKeeps == FlowInv /\ NothingFlows => FlowInv'
<1> SUFFICES ASSUME FlowInv, NothingFlows PROVE FlowInv'
  OBVIOUS
<1>1. FramesGoToOwnQueue'
  BY DEF FlowInv, NothingFlows, FramesGoToOwnQueue
<1>2. FramesAreOwn'
  BY DEF FlowInv, NothingFlows, FramesAreOwn
<1>3. HearsOwnSession'
  <2> SUFFICES ASSUME NEW i \in Instances, inst'[i].known
               PROVE  inst'[i].heard \subseteq {inst'[i].sid} \cup orphaned
    BY DEF HearsOwnSession, NothingFlows
  <2>1. CASE inst'[i].heard = {}
    BY <2>1
  <2>2. CASE inst'[i].heard # {}
    <3>1. /\ inst[i].known /\ inst'[i].sid = inst[i].sid
          /\ inst'[i].heard \subseteq inst[i].heard
      BY <2>2 DEF NothingFlows
    <3>2. inst[i].heard \subseteq {inst[i].sid} \cup orphaned
      BY <3>1 DEF FlowInv, HearsOwnSession
    <3> QED
      BY <3>1, <3>2
  <2> QED
    BY <2>1, <2>2
<1> QED
  BY <1>1, <1>2, <1>3 DEF FlowInv

\* A frame goes to the queue its session's row names.
LEMMA AudioFlows ==
    ASSUME TypeOK, FlowInv, NEW s \in Sessions, AudioFrame(s) PROVE FlowInv'
<1>1. /\ row[s].url \in Pools /\ UNCHANGED <<claimed_by, row, orphaned, inst>>
      /\ frames' = [frames EXCEPT ![row[s].url] = @ \cup {s}]
  BY DEF AudioFrame, TypeOK, RowsTyped, tableVars, poolVars
<1>2. FramesGoToOwnQueue' /\ HearsOwnSession'
  BY <1>1 DEF FlowInv, FramesGoToOwnQueue, HearsOwnSession
<1>3. FramesAreOwn'
  <2> SUFFICES ASSUME NEW p \in Pools, claimed_by[p] # NoSession
               PROVE  frames'[p] \subseteq {claimed_by[p]} \cup orphaned
    BY <1>1 DEF FramesAreOwn
  <2>1. frames[p] \subseteq {claimed_by[p]} \cup orphaned
    BY DEF FlowInv, FramesAreOwn
  <2>2. CASE p = row[s].url
    <3>1. s \in orphaned \/ claimed_by[p] = s
      BY <1>1, <2>2, StreamingAssumption DEF FlowInv, FramesGoToOwnQueue
    <3>2. frames'[p] = frames[p] \cup {s}
      BY <1>1, <2>2 DEF TypeOK, RowsTyped
    <3> QED
      BY <2>1, <3>1, <3>2
  <2>3. CASE p # row[s].url
    <3>1. frames'[p] = frames[p]
      BY <1>1, <2>3 DEF TypeOK, RowsTyped
    <3> QED
      BY <2>1, <3>1
  <2> QED
    BY <2>2, <2>3
<1> QED
  BY <1>2, <1>3 DEF FlowInv

\* A queue is emptied when it is claimed.
LEMMA ClaimFlows ==
    ASSUME TypeOK, FlowInv, NEW w \in Workers, NEW p \in Pools, Claim(w, p)
    PROVE  FlowInv'
<1>1. /\ claimed_by[p] = NoSession /\ UNCHANGED <<row, orphaned, inst>>
      /\ claimed_by' = [claimed_by EXCEPT ![p] = worker[w].sid]
      /\ frames' = [frames EXCEPT ![p] = {}]
  BY DEF Claim, Slots!Acquire, tableVars
<1>2. /\ \A q \in Pools : q # p => claimed_by'[q] = claimed_by[q] /\ frames'[q] = frames[q]
      /\ frames'[p] = {}
      /\ \A s \in Sessions : row[s].url # NoPool => row[s].url \in Pools
  BY <1>1 DEF TypeOK, WorkersTyped, RowsTyped
<1>3. FramesGoToOwnQueue'
  <2> SUFFICES ASSUME NEW s \in Sessions, row[s].url # NoPool, s \notin orphaned
               PROVE  claimed_by'[row[s].url] = s
    BY <1>1 DEF FramesGoToOwnQueue
  <2>1. claimed_by[row[s].url] = s
    BY DEF FlowInv, FramesGoToOwnQueue
  <2>2. row[s].url # p
    BY <1>1, <2>1, StreamingAssumption
  <2> QED
    BY <1>2, <2>1, <2>2
<1>4. FramesAreOwn'
  BY <1>1, <1>2 DEF FlowInv, FramesAreOwn
<1>5. HearsOwnSession'
  BY <1>1 DEF FlowInv, HearsOwnSession
<1> QED
  BY <1>3, <1>4, <1>5 DEF FlowInv

\* The row is stamped with the queue of its own session.
LEMMA StampFlows ==
    ASSUME TypeOK, SlotIsMine, FlowInv, NEW w \in Workers, StampRow(w)
    PROVE  FlowInv'
<1>1. /\ worker[w].at = "stamp" /\ UNCHANGED <<claimed_by, orphaned, frames, inst>>
      /\ row' = [row EXCEPT ![worker[w].sid] = [status |-> "spawning-gpu", url |-> slot[w]]]
  BY DEF StampRow, poolVars
<1>2. worker[w].sid \in Sessions /\ claimed_by[slot[w]] = worker[w].sid
  BY <1>1 DEF TypeOK, WorkersTyped, SlotIsMine
<1>3. /\ row'[worker[w].sid].url = slot[w]
      /\ \A s \in Sessions : s # worker[w].sid => row'[s] = row[s]
  BY <1>1, <1>2 DEF TypeOK, RowsTyped
<1>4. FramesGoToOwnQueue'
  BY <1>1, <1>2, <1>3 DEF FlowInv, FramesGoToOwnQueue
<1>5. FramesAreOwn' /\ HearsOwnSession'
  BY <1>1 DEF FlowInv, FramesAreOwn, HearsOwnSession
<1> QED
  BY <1>4, <1>5 DEF FlowInv

\* The only session whose row may name a released queue becomes an orphan.
LEMMA ReleaseFlows ==
    ASSUME TypeOK, SlotIsMine, FlowInv, NEW w \in Workers, ReleaseSlot(w)
    PROVE  FlowInv'
<1>1. /\ slot[w] # NoPool /\ UNCHANGED <<row, frames, inst>>
      /\ claimed_by' = [claimed_by EXCEPT ![slot[w]] = NoSession]
      /\ orphaned' = IF row[worker[w].sid].url = slot[w]
                     THEN orphaned \cup {worker[w].sid} ELSE orphaned
  BY DEF ReleaseSlot, Slots!GiveBack
<1>2. /\ claimed_by[slot[w]] = worker[w].sid /\ slot[w] \in Pools
      /\ orphaned \subseteq orphaned'
      /\ claimed_by'[slot[w]] = NoSession
      /\ \A q \in Pools : q # slot[w] => claimed_by'[q] = claimed_by[q]
      /\ \A s \in Sessions : row[s].url # NoPool => row[s].url \in Pools
  BY <1>1 DEF TypeOK, WorkersTyped, RowsTyped, SlotIsMine
<1>3. FramesGoToOwnQueue'
  <2> SUFFICES ASSUME NEW s \in Sessions, row[s].url # NoPool, s \notin orphaned'
               PROVE  claimed_by'[row[s].url] = s
    BY <1>1 DEF FramesGoToOwnQueue
  <2>1. claimed_by[row[s].url] = s
    BY <1>2 DEF FlowInv, FramesGoToOwnQueue
  <2>2. row[s].url # slot[w]
    BY <1>1, <1>2, <2>1
  <2> QED
    BY <1>2, <2>1, <2>2
<1>4. FramesAreOwn'
  BY <1>1, <1>2 DEF FlowInv, FramesAreOwn
<1>5. HearsOwnSession'
  BY <1>1, <1>2 DEF FlowInv, HearsOwnSession
<1> QED
  BY <1>3, <1>4, <1>5 DEF FlowInv

\* A container hears what is in its queue, which is claimed for its session.
LEMMA HearingFlows ==
    ASSUME TypeOK, SlotInv, FlowInv, NEW i \in Instances,
           TranscribeFrame(i) \/ PassFails(i)
    PROVE  FlowInv'
<1>1. PICK s \in frames[inst[i].pool] :
        /\ frames' = [frames EXCEPT ![inst[i].pool] = @ \ {s}]
        /\ inst'[i].heard = inst[i].heard \cup {s}
        /\ \A j \in Instances : j # i => inst'[j] = inst[j]
  <2>0. inst[i] \in HostType
    BY DEF TypeOK, HostsTyped
  <2>1. CASE TranscribeFrame(i)
    <3>1. PICK s \in frames[inst[i].pool], phase \in {"draining", "streaming"} :
            /\ frames' = [frames EXCEPT ![inst[i].pool] = @ \ {s}]
            /\ inst' = [inst EXCEPT ![i].heard = @ \cup {s}, ![i].phase = phase]
      BY <2>1 DEF TranscribeFrame
    <3> QED
      BY <2>0, <3>1 DEF TypeOK, HostsTyped, HostType
  <2>2. CASE PassFails(i)
    <3>1. PICK s \in frames[inst[i].pool] :
            /\ frames' = [frames EXCEPT ![inst[i].pool] = @ \ {s}]
            /\ inst' = [inst EXCEPT ![i].heard = @ \cup {s}]
      BY <2>2 DEF PassFails
    <3> QED
      BY <2>0, <3>1 DEF TypeOK, HostsTyped, HostType
  <2> QED
    BY <2>1, <2>2
<1>2. /\ UNCHANGED <<claimed_by, orphaned>> /\ inst[i].phase = "streaming"
  BY DEF TranscribeFrame, PassFails, Alone, poolVars
<1>3. ContainerNext(i)
  BY DEF ContainerNext, ContainerStep
<1>4. inst'[i].sid = inst[i].sid /\ inst'[i].known = inst[i].known
  <2>1. PICK v : HostMoves(i, v)
    BY <1>3, ContainerKeepsHosts DEF TypeOK
  <2> QED
    BY <2>1 DEF HostMoves, TypeOK, HostsTyped
<1>5. \A t \in Sessions : row'[t].url = row[t].url
  <2>1. "unset" \in Statuses \ {"absent"}
    BY DEF Statuses
  <2>2. CASE UNCHANGED row
    BY <2>2
  <2>3. CASE SetStatus(inst[i].sid, "unset")
    BY <2>1, <2>3, StatusSet DEF TypeOK
  <2> QED
    BY <2>2, <2>3 DEF TranscribeFrame, PassFails, UpdateTranscript
<1>6. FramesGoToOwnQueue'
  BY <1>2, <1>5 DEF FlowInv, FramesGoToOwnQueue
<1>7. FramesAreOwn'
  <2>1. \A p \in Pools : frames'[p] \subseteq frames[p]
    BY <1>1 DEF TypeOK, RowsTyped
  <2> QED
    BY <1>2, <2>1 DEF FlowInv, FramesAreOwn
<1>8. HearsOwnSession'
  <2> SUFFICES ASSUME NEW j \in Instances, inst'[j].known
               PROVE  inst'[j].heard \subseteq {inst'[j].sid} \cup orphaned
    BY <1>2 DEF HearsOwnSession
  <2>1. CASE j # i
    BY <1>1, <2>1 DEF FlowInv, HearsOwnSession
  <2>2. CASE j = i
    <3>1. inst[i].pool \in Pools /\ inst[i].sid \in Sessions /\ Launched(i)
      BY <1>2 DEF TypeOK, HostsTyped, Launched
    <3>2. claimed_by[inst[i].pool] = inst[i].sid
      BY <1>4, <2>2, <3>1 DEF SlotInv, HostKeepsSlot
    <3>3. frames[inst[i].pool] \subseteq {inst[i].sid} \cup orphaned
      BY <3>1, <3>2, StreamingAssumption DEF FlowInv, FramesAreOwn
    <3>4. inst[i].heard \subseteq {inst[i].sid} \cup orphaned
      BY <1>4, <2>2 DEF FlowInv, HearsOwnSession
    <3> QED
      BY <1>1, <1>4, <2>2, <3>3, <3>4
  <2> QED
    BY <2>1, <2>2
<1> QED
  BY <1>6, <1>7, <1>8 DEF FlowInv

\* A container's other steps, and evictions, make nothing heard.
LEMMA OtherHostStep ==
    ASSUME TypeOK, NEW i \in Instances,
           \/ StartContainer(i) \/ Ping(i) \/ ModelLoaded(i) \/ StreamStops(i)
           \/ WriteFinal(i) \/ WriteFinalFails(i) \/ SelfTerminate(i)
           \/ SelfTerminateFails(i) \/ BootFails(i) \/ Watch(i) \/ SpotNotice(i)
           \/ ContainerFails(i) \/ HostLost(i)
           \/ Move(i, "terminated")
               /\ UNCHANGED <<row, frames, claimed_by, orphaned>>
    PROVE  NothingFlows
<1>1. UNCHANGED <<claimed_by, orphaned, frames>>
  BY DEF StartContainer, Ping, ModelLoaded, StreamStops, WriteFinal, WriteFinalFails,
         SelfTerminate, SelfTerminateFails, BootFails, Watch, SpotNotice, ContainerFails,
         HostLost, Alone, poolVars
<1>2. \A s \in Sessions : row'[s].url = row[s].url
  <2>1. "ended" \in Statuses \ {"absent"}
    BY DEF Statuses
  <2>2. CASE UNCHANGED row
    BY <2>2
  <2>3. CASE SetStatus(inst[i].sid, "ended")
    BY <2>1, <2>3, StatusSet DEF TypeOK
  <2> QED
    BY <2>2, <2>3
       DEF StartContainer, Ping, ModelLoaded, StreamStops, WriteFinal, WriteFinalFails,
           SelfTerminate, SelfTerminateFails, BootFails, Watch, SpotNotice, ContainerFails,
           HostLost
<1>3. \A j \in Instances :
         /\ inst'[j].sid = inst[j].sid /\ inst'[j].known = inst[j].known
         /\ inst'[j].heard = inst[j].heard
  <2>0. inst[i] \in HostType
    BY DEF TypeOK, HostsTyped
  <2>1. ASSUME NEW phase, Move(i, phase)
        PROVE  \A j \in Instances :
                 /\ inst'[j].sid = inst[j].sid /\ inst'[j].known = inst[j].known
                 /\ inst'[j].heard = inst[j].heard
    BY <2>0, <2>1 DEF Move, TypeOK, HostsTyped, HostType
  <2>2. CASE Ping(i) \/ Watch(i) \/ SpotNotice(i)
    BY <2>0, <2>2 DEF Ping, Watch, SpotNotice, TypeOK, HostsTyped, HostType
  <2>3. CASE ContainerFails(i)
    <3>1. CASE inst[i].restarted
      BY <2>0, <2>3, <3>1 DEF ContainerFails, TypeOK, HostsTyped, HostType
    <3>2. CASE ~inst[i].restarted
      BY <2>0, <2>3, <3>2 DEF ContainerFails, TypeOK, HostsTyped, HostType
    <3> QED
      BY <3>1, <3>2
  <2> QED
    BY <2>1, <2>2, <2>3
       DEF StartContainer, ModelLoaded, StreamStops, WriteFinal, WriteFinalFails,
           SelfTerminate, SelfTerminateFails, BootFails, HostLost
<1> QED
  BY <1>1, <1>2, <1>3 DEF NothingFlows

\* A new host has heard nothing.
LEMMA BootFlows ==
    ASSUME TypeOK, NEW w \in Workers, Launch(w) \/ LaunchUnacknowledged(w)
    PROVE  NothingFlows
<1>1. PICK known \in BOOLEAN : worker[w].at = "launch" /\ Boot(w, known)
  BY DEF Launch, LaunchUnacknowledged
<1>2. UNCHANGED <<row, orphaned, frames, claimed_by>>
  BY DEF Launch, LaunchUnacknowledged, LeaveSlot, Slots!LeaveOwned, tableVars, poolVars
<1>3. PICK i \in Instances, v \in HostType :
        inst' = [inst EXCEPT ![i] = v] /\ v.heard = {}
  BY <1>1, BootMeans
<1> QED
  BY <1>2, <1>3 DEF NothingFlows, TypeOK, HostsTyped

\* Every step keeps audio with its session.
LEMMA NextKeepsFlow == TypeOK /\ SlotInv /\ FlowInv /\ [Next]_vars => FlowInv'
<1> SUFFICES ASSUME TypeOK, SlotInv, FlowInv, [Next]_vars PROVE FlowInv'
  OBVIOUS
<1>0. SlotIsMine
  BY DEF SlotInv
<1>1. ASSUME NothingFlows PROVE FlowInv'
  BY <1>1, NothingFlowsKeeps
<1>2. ASSUME UNCHANGED <<claimed_by, orphaned, row, frames, inst>> PROVE FlowInv'
  <2>1. NothingFlows
    BY <1>2 DEF NothingFlows
  <2> QED
    BY <1>1, <2>1
<1>3. ASSUME NEW s \in Sessions, ConnectPutRow(s) \/ Disconnect(s) \/ ExpireRow(s)
      PROVE  FlowInv'
  <2>1. "connecting" \in Statuses \ {"absent"} /\ "disconnected" \in Statuses \ {"absent"}
    BY DEF Statuses
  <2>2. \A t \in Sessions : row'[t].url \in {row[t].url, NoPool}
    <3>1. CASE ConnectPutRow(s)
      BY <2>1, <3>1, StatusSet DEF ConnectPutRow, TypeOK
    <3>2. CASE Disconnect(s)
      BY <2>1, <3>2, StatusSet DEF Disconnect, TypeOK
    <3>3. CASE ExpireRow(s)
      BY <3>3 DEF ExpireRow, TypeOK, RowsTyped
    <3> QED
      BY <1>3, <3>1, <3>2, <3>3
  <2>3. UNCHANGED <<claimed_by, orphaned, frames, inst>>
    BY <1>3 DEF ConnectPutRow, Disconnect, ExpireRow, poolVars
  <2>4. NothingFlows
    BY <2>2, <2>3 DEF NothingFlows
  <2> QED
    BY <1>1, <2>4
<1>4. ASSUME NEW s \in Sessions, RouterNext(s) \/ ClientNext(s) \/ Reappear(s)
      PROVE  FlowInv'
  BY <1>2, <1>3, <1>4, AudioFlows
     DEF RouterNext, ClientNext, ConnectPutEvent, ConnectEventFails, ConnectDies,
         DisconnectLost, Close, Reappear, tableVars, poolVars
<1>5. ASSUME NEW w \in Workers, EvictOne(w) PROVE FlowInv'
  <2>1. PICK i \in worker[w].victims : Move(i, "terminated")
    BY <1>5 DEF EvictOne, Move
  <2>2. i \in Instances /\ UNCHANGED <<row, frames, claimed_by, orphaned>>
    BY <1>5, <2>1 DEF EvictOne, TypeOK, WorkersTyped, WorkerType, tableVars, poolVars
  <2> QED
    BY <1>1, <2>1, <2>2, OtherHostStep
<1>6. ASSUME NEW w \in Workers, SpawnerNext(w) PROVE FlowInv'
  BY <1>0, <1>1, <1>2, <1>5, <1>6, ClaimFlows, StampFlows, ReleaseFlows, BootFlows
     DEF SpawnerNext, CallbackStep, Receive, WorkerDies, ListRunning, ListFails, EvictFails,
         EvictDone, PoolExhausted, StampFails, LaunchFails, DeleteMessage,
         Slots!LeaveOwned, tableVars, poolVars
<1>7. ASSUME NEW i \in Instances, ContainerNext(i) PROVE FlowInv'
  BY <1>1, <1>7, HearingFlows, OtherHostStep DEF ContainerNext, ContainerStep
<1>8. CASE UNCHANGED vars
  BY <1>2, <1>8 DEF vars, tableVars, poolVars
<1> QED
  BY <1>4, <1>6, <1>7, <1>8 DEF Next

\* The inductive invariant holds.
LEMMA IInvHolds == Spec => []IInv
<1>1. TypeOK /\ SlotInv /\ FlowInv /\ [Next]_vars => (SlotInv /\ FlowInv)'
  BY NextKeepsSlots, NextKeepsFlow
<1>2. Init => SlotInv /\ FlowInv
  BY InitEstablishesIInv DEF IInv
<1>3. Spec => [](TypeOK /\ SlotInv /\ FlowInv)
  BY <1>1, <1>2, TypeCorrectness, PTL DEF Spec
<1> QED
  BY <1>3, PTL DEF IInv

\* A frame queue carries one session's audio to one host: no redelivery, no second
\* execution of the callback, late release or stopped task makes two known hosts
\* consume one queue, or a row name a queue that is somebody else's.
THEOREM QueuesStayApart == Spec => []QueuesAreNotShared
<1>1. IInv => QueuesAreNotShared
  BY DEF IInv, SlotInv, FlowInv, OneHostPerQueue, QueuesAreNotShared, OneConsumer, LiveInstances,
         Live, Launched
<1> QED
  BY <1>1, IInvHolds, PTL

\* A container that was launched as the spawner knows transcribes its own
\* session's audio only, up to rows left naming a queue whose slot was released.
THEOREM OwnAudioOnly == Spec => []HearsOwnSession
BY IInvHolds, PTL DEF IInv, FlowInv
-----------------------------------------------------------------------------
(* The cap.                                                                *)

\* Only a worker that evicts has victims left.
VictimsDone == \A w \in Workers : worker[w].at # "evict" => worker[w].victims = {}

\* A worker between its listing and its launch.
Spawning(w) == worker[w].at \in {"evict", "claim", "stamp", "launch"}

\* The hosts that will be left of those running when w is done evicting.
Left(w) == LiveInstances \ worker[w].victims

\* D[w] stands for the workers that have launched since w listed: a worker finds
\* room under the cap but for one host of each of them, and one of them that has
\* listed again since knows of no more launches than w.
Overlap(D) ==
    /\ D \in [Workers -> SUBSET Workers]
    /\ \A w \in Workers :
         Spawning(w) =>
             w \notin D[w] /\ Cardinality(Left(w)) + 1 <= Cap + Cardinality(D[w])
    /\ \A v, w \in Workers :
         Spawning(v) /\ Spawning(w) /\ v \in D[w] => D[v] \subseteq D[w]

\* The inductive invariant behind the cap.
CapInv ==
    /\ TypeOK /\ VictimsDone /\ CapHolds
    /\ Cap > 0 /\ faults = 0 => \E D : Overlap(D)

\* A set of numbers has a least one.
LEMMA LeastOf ==
    ASSUME NEW T, T \subseteq Nat, T # {}
    PROVE  \E m \in T : \A k \in T : m <= k
<1>1. PICK m \in T : \A k \in T : ~(<<k, m>> \in OpToRel(<, Nat))
  BY NatLessThanWellFounded, WFMin
<1>2. \A k \in T : ~(k < m)
  BY <1>1 DEF OpToRel
<1> QED
  BY <1>2

\* Running hosts are finitely many.
LEMMA LiveIsFinite ==
    IsFiniteSet(LiveInstances) /\ LiveInstances \subseteq Nat
<1>1. IsFiniteSet(Instances) /\ LiveInstances \subseteq Instances
  BY FS_Interval, StreamingAssumption DEF Instances, LiveInstances
<1>2. Instances \subseteq Nat
  BY StreamingAssumption DEF Instances
<1> QED
  BY <1>1, <1>2, FS_Subset

\* What the victims leave has room for one more host under the cap.
LEMMA VictimsMakeRoom ==
    ASSUME Cap > 0
    PROVE  Cardinality(LiveInstances \ Victims) + 1 <= Cap
<1> DEFINE L == LiveInstances
           N == L \ Victims
           Older(i) == {j \in L : j < i}
<1>0. IsFiniteSet(L) /\ L \subseteq Nat /\ Cap \in Nat /\ Cardinality(L) \in Nat
  BY LiveIsFinite, FS_CardinalityType, StreamingAssumption
<1>1. CASE N = {}
  BY <1>0, <1>1, FS_EmptySet
<1>2. CASE N # {}
  <2>1. PICK m \in N : \A k \in N : m <= k
    BY <1>0, <1>2, LeastOf
  <2>2. IsFiniteSet(Older(m)) /\ Cardinality(Older(m)) \in Nat
    BY <1>0, FS_Subset, FS_CardinalityType
  <2>3. ~(Cardinality(Older(m)) + Cap <= Cardinality(L))
    BY <2>1, <1>0 DEF Victims
  <2>4. N \subseteq L \ Older(m)
    <3> SUFFICES ASSUME NEW k \in N PROVE k \in L /\ ~(k < m)
      OBVIOUS
    <3>1. m <= k /\ k \in Nat /\ m \in Nat
      BY <1>0, <2>1
    <3> QED
      BY <3>1
  <2>5. L \cap Older(m) = Older(m)
    OBVIOUS
  <2>6. /\ IsFiniteSet(L \ Older(m))
        /\ Cardinality(L \ Older(m)) = Cardinality(L) - Cardinality(Older(m))
    BY <1>0, <2>5, FS_Difference
  <2>7. Cardinality(N) <= Cardinality(L \ Older(m)) /\ IsFiniteSet(N)
    BY <2>4, <2>6, FS_Subset
  <2>8. Cardinality(N) \in Nat
    BY <2>7, FS_CardinalityType
  <2> HIDE DEF N, L, Older
  <2>9. Cardinality(N) + 1 <= Cap
    BY <1>0, <2>2, <2>3, <2>6, <2>7, <2>8
  <2> QED
    BY <2>9 DEF N, L
<1> QED
  BY <1>1, <1>2

\* Fewer hosts are left to a worker, and none begins to spawn.
LEMMA FewerHosts ==
    ASSUME NEW D, Overlap(D), LiveInstances' \subseteq LiveInstances,
           \A w \in Workers : Spawning(w)' => Spawning(w) /\ Left(w)' \subseteq Left(w)
    PROVE  Overlap(D)'
<1>1. ASSUME NEW w \in Workers, Spawning(w)'
      PROVE  w \notin D[w] /\ Cardinality(Left(w)') + 1 <= Cap + Cardinality(D[w])
  <2>1. Left(w)' \subseteq Left(w) /\ IsFiniteSet(Left(w))
    BY <1>1, LiveIsFinite, FS_Subset DEF Left
  <2>2. /\ Cardinality(Left(w)') <= Cardinality(Left(w)) /\ IsFiniteSet(Left(w)')
    BY <2>1, FS_Subset
  <2>3. Cardinality(Left(w)') \in Nat /\ Cardinality(Left(w)) \in Nat
    BY <2>1, <2>2, FS_CardinalityType
  <2>4. IsFiniteSet(D[w]) /\ Cardinality(D[w]) \in Nat
    BY FS_Subset, FS_CardinalityType, StreamingAssumption DEF Overlap
  <2>5. w \notin D[w] /\ Cardinality(Left(w)) + 1 <= Cap + Cardinality(D[w])
    BY <1>1 DEF Overlap
  <2> QED
    BY <2>2, <2>3, <2>4, <2>5, StreamingAssumption
<1>2. \A v, w \in Workers :
         Spawning(v)' /\ Spawning(w)' /\ v \in D[w] => D[v] \subseteq D[w]
  BY DEF Overlap
<1>3. \A w \in Workers :
         Spawning(w)' =>
             w \notin D[w] /\ Cardinality(Left(w)') + 1 <= Cap + Cardinality(D[w])
  BY <1>1
<1>4. D \in [Workers -> SUBSET Workers]
  BY DEF Overlap
<1> QED
  BY <1>2, <1>3, <1>4 DEF Overlap

\* What launches nothing and lists nothing keeps the hosts under the cap.
LEMMA CapStays ==
    ASSUME CapInv, TypeOK', VictimsDone', faults' = 0 => faults = 0,
           LiveInstances' \subseteq LiveInstances,
           \A w \in Workers : Spawning(w)' => Spawning(w) /\ Left(w)' \subseteq Left(w)
    PROVE  CapInv'
<1>1. CapHolds'
  <2> SUFFICES ASSUME Cap > 0, faults' = 0
               PROVE  Cardinality(LiveInstances') <= Cap + Cardinality(Workers) - 1
    BY DEF CapHolds
  <2>1. /\ Cardinality(LiveInstances') <= Cardinality(LiveInstances)
        /\ IsFiniteSet(LiveInstances')
    BY LiveIsFinite, FS_Subset
  <2>2. Cardinality(LiveInstances') \in Nat /\ Cardinality(LiveInstances) \in Nat
    BY <2>1, LiveIsFinite, FS_CardinalityType
  <2>3. Cardinality(Workers) \in Nat /\ Cap \in Nat
    BY FS_CardinalityType, StreamingAssumption
  <2>4. Cardinality(LiveInstances) <= Cap + Cardinality(Workers) - 1
    BY DEF CapInv, CapHolds
  <2> QED
    BY <2>1, <2>2, <2>3, <2>4
<1>2. Cap > 0 /\ faults' = 0 => \E D : Overlap(D)'
  BY FewerHosts DEF CapInv
<1> QED
  BY <1>1, <1>2 DEF CapInv

\* Only a listing gives a worker victims, and only an eviction that finds none
\* left, or a fault, takes it further.
LEMMA NextKeepsVictims == TypeOK /\ VictimsDone /\ [Next]_vars => VictimsDone'
<1> SUFFICES ASSUME TypeOK, VictimsDone, [Next]_vars PROVE VictimsDone'
  OBVIOUS
<1>0. worker \in [Workers -> WorkerType]
  BY DEF TypeOK, WorkersTyped
<1>1. CASE UNCHANGED worker
  BY <1>1 DEF VictimsDone
<1>2. ASSUME NEW w \in Workers, NEW v, worker' = [worker EXCEPT ![w] = v],
             v.at # "evict" => v.victims = {}
      PROVE  VictimsDone'
  BY <1>0, <1>2 DEF VictimsDone
<1>3. ASSUME NEW w \in Workers, NEW at, MoveWorker(w, at), worker[w].victims = {}
      PROVE  VictimsDone'
  BY <1>0, <1>3 DEF MoveWorker, VictimsDone, WorkerType
<1>4. ASSUME NEW w \in Workers, Return(w) PROVE VictimsDone'
  BY <1>2, <1>4 DEF Return, IdleWorker
<1>5. ASSUME NEW w \in Workers, NEW s \in Sessions, Receive(w, s) PROVE VictimsDone'
  <2> DEFINE v == [IdleWorker EXCEPT !.at = "list", !.sid = s]
  <2>1. v.victims = {}
    BY DEF IdleWorker
  <2>2. worker' = [worker EXCEPT ![w] = v]
    BY <1>5 DEF Receive
  <2> QED
    BY <1>2, <2>1, <2>2
<1>6. ASSUME NEW w \in Workers, ListRunning(w) \/ EvictOne(w) \/ EvictFails(w)
      PROVE  VictimsDone'
  <2>1. /\ worker'[w].at = "evict"
        /\ \A v \in Workers : v # w => worker'[v] = worker[v]
    BY <1>0, <1>6 DEF ListRunning, EvictOne, EvictFails, WorkerType
  <2> QED
    BY <2>1 DEF VictimsDone
<1>7. ASSUME NEW w \in Workers, NEW p \in Pools,
             \/ ListFails(w) \/ EvictDone(w) \/ Claim(w, p) \/ StampRow(w) \/ StampFails(w)
             \/ Launch(w) \/ LaunchFails(w) \/ LaunchUnacknowledged(w)
      PROVE  VictimsDone'
  BY <1>3, <1>7 DEF VictimsDone, ListFails, EvictDone, Claim, StampRow, StampFails, Launch,
                    LaunchFails, LaunchUnacknowledged
<1>8. ASSUME NEW w \in Workers,
             \/ ListFails(w) \/ EvictDone(w) \/ StampRow(w) \/ StampFails(w)
             \/ Launch(w) \/ LaunchFails(w) \/ LaunchUnacknowledged(w)
      PROVE  VictimsDone'
  BY <1>3, <1>8 DEF VictimsDone, ListFails, EvictDone, StampRow, StampFails, Launch,
                    LaunchFails, LaunchUnacknowledged
<1>9. ASSUME NEW w \in Workers, SpawnerNext(w) PROVE VictimsDone'
  BY <1>4, <1>5, <1>6, <1>7, <1>8, <1>9
     DEF SpawnerNext, CallbackStep, PoolExhausted, ReleaseSlot, DeleteMessage, WorkerDies
<1>10. ASSUME NEW s \in Sessions, RouterNext(s) \/ ClientNext(s) \/ Reappear(s)
       PROVE  UNCHANGED worker
  BY <1>10 DEF RouterNext, ClientNext, ConnectPutRow, ConnectPutEvent, ConnectEventFails,
               ConnectDies, Disconnect, DisconnectLost, AudioFrame, ExpireRow, Close, Reappear
<1>11. ASSUME NEW i \in Instances, ContainerNext(i) PROVE UNCHANGED worker
  BY <1>11, ContainerKeepsHosts DEF TypeOK
<1>12. CASE UNCHANGED vars
  BY <1>1, <1>12 DEF vars
<1> QED
  BY <1>1, <1>9, <1>10, <1>11, <1>12 DEF Next

\* A listing forgets the launches before it.
LEMMA ListingKeepsCap ==
    ASSUME CapInv, TypeOK', VictimsDone', NEW w \in Workers, ListRunning(w)
    PROVE  CapInv'
<1>1. /\ worker' = [worker EXCEPT ![w].at = "evict", ![w].victims = Victims]
      /\ UNCHANGED <<inst, faults>> /\ LiveInstances' = LiveInstances
  BY DEF ListRunning, LiveInstances
<1>2. /\ worker'[w].victims = Victims
      /\ \A v \in Workers : v # w => worker'[v] = worker[v]
  BY <1>1 DEF CapInv, TypeOK, WorkersTyped, WorkerType
<1>3. /\ Left(w)' = LiveInstances \ Victims
      /\ \A v \in Workers : v # w => Left(v)' = Left(v) /\ (Spawning(v)' <=> Spawning(v))
  BY <1>1, <1>2 DEF Left, Spawning
<1>4. CapHolds'
  BY <1>1 DEF CapInv, CapHolds
<1>5. ASSUME Cap > 0, NEW D, Overlap(D) PROVE \E E : Overlap(E)'
  <2> DEFINE E == [D EXCEPT ![w] = {}]
  <2>1. /\ E \in [Workers -> SUBSET Workers] /\ E[w] = {}
        /\ \A v \in Workers : v # w => E[v] = D[v]
    BY <1>5 DEF Overlap
  <2> HIDE DEF E
  <2>2. Cardinality(Left(w)') + 1 <= Cap + Cardinality(E[w])
    BY <1>3, <1>5, <2>1, VictimsMakeRoom, FS_EmptySet, StreamingAssumption
  <2>3. \A v \in Workers :
          Spawning(v)' =>
             v \notin E[v] /\ Cardinality(Left(v)') + 1 <= Cap + Cardinality(E[v])
    BY <1>3, <1>5, <2>1, <2>2 DEF Overlap
  <2>4. \A u, v \in Workers :
          Spawning(u)' /\ Spawning(v)' /\ u \in E[v] => E[u] \subseteq E[v]
    BY <1>3, <1>5, <2>1 DEF Overlap
  <2>5. Overlap(E)'
    BY <2>1, <2>3, <2>4 DEF Overlap
  <2> QED
    BY <2>5
<1>6. Cap > 0 /\ faults' = 0 => \E D : Overlap(D)'
  BY <1>1, <1>5 DEF CapInv
<1> QED
  BY <1>4, <1>6 DEF CapInv

\* A launch takes the room that the workers spawning at the time had left.
LEMMA LaunchKeepsCap ==
    ASSUME CapInv, TypeOK', VictimsDone', NEW w \in Workers, Launch(w)
    PROVE  CapInv'
<1>1. /\ worker[w].at = "launch" /\ worker[w].victims = {} /\ UNCHANGED faults
      /\ worker' = [worker EXCEPT ![w].at = "ack"]
  BY DEF Launch, MoveWorker, CapInv, VictimsDone
<1>2. /\ worker'[w].at = "ack"
      /\ \A v \in Workers :
           /\ worker'[v].victims = worker[v].victims
           /\ v # w => worker'[v] = worker[v]
  BY <1>1 DEF CapInv, TypeOK, WorkersTyped, WorkerType
<1>3. PICK i \in Instances, host \in HostType :
        inst[i].phase = "none" /\ inst' = [inst EXCEPT ![i] = host]
  <2>1. PICK known \in BOOLEAN :
          TypeOK /\ worker[w].at = "launch" /\ Boot(w, known)
    BY DEF Launch, CapInv
  <2> QED
    BY <2>1, BootMeans
<1>4. LiveInstances' \subseteq LiveInstances \cup {i}
  BY <1>3 DEF LiveInstances, CapInv, TypeOK, HostsTyped
<1>5. Spawning(w) /\ Left(w) = LiveInstances
  BY <1>1 DEF Spawning, Left
<1>6. ~Spawning(w)' /\ \A v \in Workers : v # w => (Spawning(v)' <=> Spawning(v))
  BY <1>2 DEF Spawning
<1>7. \A v \in Workers : Left(v)' \subseteq Left(v) \cup {i}
  BY <1>2, <1>4 DEF Left
<1>8. ASSUME NEW S, NEW T, IsFiniteSet(S), T \subseteq S \cup {i}
      PROVE  /\ Cardinality(T) \in Nat /\ Cardinality(S) \in Nat
             /\ Cardinality(T) <= Cardinality(S) + 1
  <2>1. /\ IsFiniteSet(S \cup {i}) /\ Cardinality(S) \in Nat
        /\ Cardinality(S \cup {i}) \in Nat
        /\ Cardinality(S \cup {i}) <= Cardinality(S) + 1
    <3>1. IsFiniteSet(S \cup {i}) /\ Cardinality(S) \in Nat
      BY <1>8, FS_AddElement, FS_CardinalityType
    <3>2. \/ Cardinality(S \cup {i}) = Cardinality(S)
          \/ Cardinality(S \cup {i}) = Cardinality(S) + 1
      BY <1>8, FS_AddElement
    <3> QED
      BY <3>1, <3>2
  <2>2. IsFiniteSet(T) /\ Cardinality(T) <= Cardinality(S \cup {i})
    BY <1>8, <2>1, FS_Subset
  <2> QED
    BY <2>1, <2>2, FS_CardinalityType
<1>9. IsFiniteSet(LiveInstances) /\ \A v \in Workers : IsFiniteSet(Left(v))
  BY LiveIsFinite, FS_Subset DEF Left
<1>10. ASSUME Cap > 0, faults = 0, NEW D, Overlap(D)
       PROVE  /\ Cardinality(LiveInstances') <= Cap + Cardinality(Workers) - 1
              /\ \E E : Overlap(E)'
  <2>0. /\ D \in [Workers -> SUBSET Workers] /\ w \notin D[w]
        /\ Cardinality(LiveInstances) + 1 <= Cap + Cardinality(D[w])
    BY <1>5, <1>10 DEF Overlap
  <2>1. /\ IsFiniteSet(Workers) /\ Cardinality(Workers) \in Nat /\ Cap \in Nat
        /\ \A S \in SUBSET Workers : IsFiniteSet(S) /\ Cardinality(S) \in Nat
    BY FS_Subset, FS_CardinalityType, StreamingAssumption
  <2>2. Cardinality(D[w]) <= Cardinality(Workers) - 1
    <3>1. D[w] \in SUBSET (Workers \ {w})
      BY <2>0
    <3>2. Cardinality(Workers \ {w}) = Cardinality(Workers) - 1 /\ IsFiniteSet(Workers \ {w})
      BY <2>1, FS_RemoveElement
    <3> QED
      BY <3>1, <3>2, FS_Subset
  <2>3. /\ Cardinality(LiveInstances') <= Cardinality(LiveInstances) + 1
        /\ Cardinality(LiveInstances) \in Nat /\ Cardinality(LiveInstances') \in Nat
    BY <1>4, <1>8, <1>9
  <2>4. Cardinality(LiveInstances') <= Cap + Cardinality(Workers) - 1
    BY <2>0, <2>1, <2>2, <2>3
  <2> DEFINE E == [v \in Workers |-> IF v = w THEN {} ELSE D[v] \cup {w}]
  <2>5. E \in [Workers -> SUBSET Workers] /\ \A v \in Workers : v # w => E[v] = D[v] \cup {w}
    BY <2>0
  <2> HIDE DEF E
  <2>6. ASSUME NEW v \in Workers, Spawning(v)'
        PROVE  v \notin E[v] /\ Cardinality(Left(v)') + 1 <= Cap + Cardinality(E[v])
    <3>1. /\ v # w /\ Spawning(v) /\ E[v] = D[v] \cup {w} /\ v \notin D[v]
          /\ Cardinality(Left(v)) + 1 <= Cap + Cardinality(D[v])
      BY <1>6, <1>10, <2>5, <2>6 DEF Overlap
    <3>2. /\ Cardinality(Left(v)') <= Cardinality(Left(v)) + 1
          /\ Cardinality(Left(v)) \in Nat /\ Cardinality(Left(v)') \in Nat
      BY <1>7, <1>8, <1>9
    <3>3. IsFiniteSet(D[v]) /\ Cardinality(D[v]) \in Nat /\ Cardinality(D[w]) \in Nat
      BY <2>0, <2>1
    <3>4. CASE w \notin D[v]
      <4>1. Cardinality(E[v]) = Cardinality(D[v]) + 1
        BY <3>1, <3>3, <3>4, FS_AddElement
      <4> QED
        BY <2>1, <3>1, <3>2, <3>3, <4>1
    <3>5. CASE w \in D[v]
      <4>1. E[v] = D[v]
        BY <3>1, <3>5
      <4>2. D[w] \cup {w} \subseteq D[v]
        BY <1>5, <1>10, <3>1, <3>5 DEF Overlap
      <4>3. Cardinality(D[w] \cup {w}) = Cardinality(D[w]) + 1
        BY <2>0, <2>1, FS_AddElement
      <4>4. Cardinality(D[w]) + 1 <= Cardinality(D[v])
        BY <3>3, <4>2, <4>3, FS_Subset
      <4>5. Cardinality(Left(v)') <= Cardinality(LiveInstances) + 1
        <5>1. Left(v)' \subseteq LiveInstances \cup {i}
          BY <1>4 DEF Left
        <5> QED
          BY <1>8, <1>9, <5>1
      <4>6. Cardinality(Left(v)') + 1 <= Cap + Cardinality(D[v])
        BY <2>0, <2>1, <2>3, <3>2, <3>3, <4>4, <4>5
      <4> QED
        BY <3>1, <4>1, <4>6
    <3> QED
      BY <3>4, <3>5
  <2>7. \A u, v \in Workers :
          Spawning(u)' /\ Spawning(v)' /\ u \in E[v] => E[u] \subseteq E[v]
    <3> SUFFICES ASSUME NEW u \in Workers, NEW v \in Workers,
                        Spawning(u)', Spawning(v)', u \in E[v]
                 PROVE  E[u] \subseteq E[v]
      OBVIOUS
    <3>1. /\ u # w /\ v # w /\ Spawning(u) /\ Spawning(v)
          /\ E[u] = D[u] \cup {w} /\ E[v] = D[v] \cup {w}
      BY <1>6, <2>5
    <3>2. D[u] \subseteq D[v]
      BY <1>10, <3>1 DEF Overlap
    <3> QED
      BY <3>1, <3>2
  <2>8. Overlap(E)'
    BY <2>5, <2>6, <2>7 DEF Overlap
  <2> QED
    BY <2>4, <2>8
<1>11. CapHolds'
  BY <1>1, <1>10 DEF CapInv, CapHolds
<1>12. Cap > 0 /\ faults' = 0 => \E D : Overlap(D)'
  BY <1>1, <1>10 DEF CapInv
<1> QED
  BY <1>11, <1>12 DEF CapInv

\* A call that fails ends the promise.
LEMMA FaultEndsCap ==
    ASSUME CapInv, TypeOK', VictimsDone', Fault PROVE CapInv'
<1>1. faults' # 0
  BY DEF Fault, CapInv, TypeOK
<1> QED
  BY <1>1 DEF CapInv, CapHolds

\* Every step keeps the invariant behind the cap.
LEMMA NextKeepsCap == CapInv /\ TypeOK' /\ [Next]_vars => CapInv'
<1> SUFFICES ASSUME CapInv, TypeOK', [Next]_vars PROVE CapInv'
  OBVIOUS
<1>0. TypeOK /\ worker \in [Workers -> WorkerType] /\ inst \in [Instances -> HostType]
  BY DEF CapInv, TypeOK, WorkersTyped, HostsTyped
<1>1. VictimsDone'
  BY NextKeepsVictims DEF CapInv
<1>2. ASSUME Fault PROVE CapInv'
  BY <1>1, <1>2, FaultEndsCap
<1>3. ASSUME UNCHANGED <<worker, inst, faults>> PROVE CapInv'
  <2>1. \A w \in Workers : (Spawning(w)' <=> Spawning(w)) /\ Left(w)' = Left(w)
    BY <1>3 DEF Spawning, Left, LiveInstances
  <2>2. LiveInstances' = LiveInstances
    BY <1>3 DEF LiveInstances
  <2> QED
    BY <1>1, <1>3, <2>1, <2>2, CapStays
<1>4. ASSUME NEW w \in Workers, NEW v \in WorkerType, UNCHANGED <<inst, faults>>,
             worker' = [worker EXCEPT ![w] = v],
             Spawning(w) \/ v.at \in {"idle", "list"},
             v.victims = worker[w].victims \/ v.at \in {"idle", "list", "release", "ack"}
      PROVE  CapInv'
  <2>1. LiveInstances' = LiveInstances
    BY <1>4 DEF LiveInstances
  <2>2. ASSUME NEW x \in Workers, Spawning(x)'
        PROVE  Spawning(x) /\ Left(x)' \subseteq Left(x)
    <3>1. CASE x # w
      BY <1>0, <1>4, <2>1, <2>2, <3>1 DEF Spawning, Left
    <3>2. CASE x = w
      BY <1>0, <1>4, <2>1, <2>2, <3>2 DEF Spawning, Left
    <3> QED
      BY <3>1, <3>2
  <2> QED
    BY <1>1, <1>4, <2>1, <2>2, CapStays
<1>5. ASSUME NEW w \in Workers, NEW at \in {"claim", "stamp", "launch", "release", "ack"},
             MoveWorker(w, at), Spawning(w), UNCHANGED <<inst, faults>>
      PROVE  CapInv'
  <2> DEFINE v == [worker[w] EXCEPT !.at = at]
  <2>1. v \in WorkerType /\ v.victims = worker[w].victims
    BY <1>0 DEF WorkerType
  <2>2. worker' = [worker EXCEPT ![w] = v]
    BY <1>0, <1>5 DEF MoveWorker
  <2> HIDE DEF v
  <2> QED
    BY <1>4, <1>5, <2>1, <2>2
<1>6. ASSUME NEW w \in Workers, Return(w), UNCHANGED <<inst, faults>> PROVE CapInv'
  <2>1. IdleWorker \in WorkerType /\ IdleWorker.at = "idle"
    BY DEF IdleWorker, WorkerType
  <2> QED
    BY <1>4, <1>6, <2>1 DEF Return
<1>7. ASSUME NEW w \in Workers, NEW s \in Sessions, Receive(w, s) PROVE CapInv'
  <2> DEFINE v == [IdleWorker EXCEPT !.at = "list", !.sid = s]
  <2>1. v \in WorkerType /\ v.at = "list"
    BY DEF IdleWorker, WorkerType
  <2>2. worker' = [worker EXCEPT ![w] = v] /\ UNCHANGED <<inst, faults>>
    BY <1>7 DEF Receive
  <2> HIDE DEF v
  <2> QED
    BY <1>4, <2>1, <2>2
<1>8. ASSUME NEW w \in Workers, EvictOne(w) PROVE CapInv'
  <2>1. PICK i \in worker[w].victims :
          /\ inst' = [inst EXCEPT ![i].phase = "terminated"]
          /\ worker' = [worker EXCEPT ![w].victims = @ \ {i}]
    BY <1>8 DEF EvictOne
  <2>2. i \in Instances
    BY <1>0, <2>1 DEF WorkerType
  <2>3. /\ inst'[i].phase = "terminated"
        /\ \A j \in Instances : j # i => inst'[j] = inst[j]
    BY <1>0, <2>1, <2>2 DEF HostType
  <2>4. LiveInstances' \subseteq LiveInstances \ {i}
    BY <2>3 DEF LiveInstances, Live
  <2>5. /\ worker'[w].at = worker[w].at /\ worker'[w].victims = worker[w].victims \ {i}
        /\ \A v \in Workers : v # w => worker'[v] = worker[v]
    BY <1>0, <2>1 DEF WorkerType
  <2>6. \A v \in Workers : (Spawning(v)' => Spawning(v)) /\ Left(v)' \subseteq Left(v)
    BY <2>4, <2>5 DEF Spawning, Left
  <2>7. UNCHANGED faults
    BY <1>8 DEF EvictOne
  <2> QED
    BY <1>1, <2>4, <2>6, <2>7, CapStays
<1>9. ASSUME NEW w \in Workers, NEW p \in Pools, Claim(w, p) PROVE CapInv'
  BY <1>5, <1>9 DEF Claim, Spawning
<1>10. ASSUME NEW w \in Workers,
              \/ ListFails(w) \/ EvictFails(w) \/ EvictDone(w) \/ StampRow(w)
              \/ StampFails(w) \/ LaunchFails(w) \/ LaunchUnacknowledged(w)
       PROVE  CapInv'
  BY <1>2, <1>5, <1>10 DEF ListFails, EvictFails, EvictDone, StampRow, StampFails,
                           LaunchFails, LaunchUnacknowledged, Spawning
<1>11. ASSUME NEW w \in Workers, SpawnerNext(w) PROVE CapInv'
  BY <1>1, <1>2, <1>6, <1>7, <1>8, <1>9, <1>10, <1>11, ListingKeepsCap, LaunchKeepsCap
     DEF SpawnerNext, CallbackStep, PoolExhausted, ReleaseSlot, DeleteMessage, WorkerDies
<1>12. ASSUME NEW s \in Sessions, RouterNext(s) \/ ClientNext(s) \/ Reappear(s)
       PROVE  CapInv'
  BY <1>2, <1>3, <1>12
     DEF RouterNext, ClientNext, ConnectPutRow, ConnectPutEvent, ConnectEventFails,
         ConnectDies, Disconnect, DisconnectLost, AudioFrame, ExpireRow, Close, Reappear
<1>13. ASSUME NEW i \in Instances, ContainerNext(i) PROVE CapInv'
  <2>1. Fault \/ UNCHANGED faults
    BY <1>13 DEF ContainerNext, ContainerStep, StartContainer, Ping, ModelLoaded,
                 TranscribeFrame, StreamStops, WriteFinal, WriteFinalFails, SelfTerminate,
                 SelfTerminateFails, BootFails, PassFails, Watch, SpotNotice,
                 ContainerFails, HostLost
  <2>2. inst[i].phase \in Live
    BY <1>13 DEF Live, Phases, ContainerNext, ContainerStep, StartContainer, Ping,
                 ModelLoaded, TranscribeFrame, StreamStops, WriteFinal, WriteFinalFails,
                 SelfTerminate, SelfTerminateFails, BootFails, PassFails, Watch,
                 SpotNotice, ContainerFails, HostLost
  <2>0. HostsTyped /\ RowsTyped
    BY <1>0 DEF TypeOK
  <2>3. PICK v : HostMoves(i, v)
    BY <1>13, <2>0, ContainerKeepsHosts
  <2>4. UNCHANGED worker
    BY <1>13, <2>0, ContainerKeepsHosts
  <2>5. LiveInstances' \subseteq LiveInstances
    BY <1>0, <2>2, <2>3 DEF HostMoves, LiveInstances
  <2>6. \A w \in Workers : (Spawning(w)' => Spawning(w)) /\ Left(w)' \subseteq Left(w)
    BY <2>4, <2>5 DEF Spawning, Left
  <2> QED
    BY <1>1, <1>2, <2>1, <2>4, <2>5, <2>6, CapStays
<1>14. CASE UNCHANGED vars
  BY <1>3, <1>14 DEF vars
<1> QED
  BY <1>11, <1>12, <1>13, <1>14 DEF Next

\* At first nobody spawns and no host runs.
LEMMA InitEstablishesCap == Init => CapInv
<1> SUFFICES ASSUME Init PROVE CapInv
  OBVIOUS
<1>1. TypeOK
  BY InitEstablishesIInv DEF IInv
<1>2. VictimsDone /\ \A w \in Workers : ~Spawning(w)
  BY DEF Init, VictimsDone, Spawning, IdleWorker
<1>3. LiveInstances = {}
  BY DEF Init, LiveInstances, Live, NoInstance
<1>4. CapHolds
  <2>1. Cardinality(Workers) \in Nat /\ Cardinality(LiveInstances) = 0
    BY <1>3, FS_CardinalityType, FS_EmptySet, StreamingAssumption
  <2>2. Cap \in Nat
    BY StreamingAssumption
  <2> QED
    BY <2>1, <2>2 DEF CapHolds
<1>5. Overlap([w \in Workers |-> {}])
  BY <1>2 DEF Overlap
<1> QED
  BY <1>1, <1>2, <1>4, <1>5 DEF CapInv

\* While no call fails, the hosts running exceed max_concurrent_sessions by less
\* than the number of executions of the callback, however these interleave.
THEOREM CapIsHeld == Spec => []CapHolds
<1>1. CapInv /\ TypeOK' /\ [Next]_vars => CapInv'
  BY NextKeepsCap
<1>2. CapInv => CapHolds
  BY DEF CapInv
<1> QED
  BY <1>1, <1>2, InitEstablishesCap, TypeCorrectness, PTL DEF Spec
=============================================================================
