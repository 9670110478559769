---------------------------- MODULE StreamingState ----------------------------
(***************************************************************************)
(* What the parts of the streaming path share: the WebSocket connections,  *)
(* the streaming-sessions table, the spawn queue, the frame-queue pool and *)
(* the GPU instances.  A session is one WebSocket connection; its id is    *)
(* the connection id.  StreamingRouter, GpuSpawner and StreamContainer     *)
(* each define the steps of one service over this state, and               *)
(* StreamingSession puts them together.                                    *)
(***************************************************************************)
EXTENDS Naturals, FiniteSets

CONSTANTS
    Sessions,
    Pools,        \* pool rows, one per frame queue
    Workers,      \* concurrent executions of the spawn callback
    MaxInstances, \* bound on the EC2 instances ever launched
    Cap,          \* max_concurrent_sessions
    MaxReceives,  \* maxReceiveCount of the spawn queue
    MaxFaults,    \* bound on the calls that fail and the hosts that are lost
    NoSession,
    NoPool

ASSUME StreamingAssumption ==
    /\ MaxInstances \in Nat /\ Cap \in Nat /\ MaxReceives \in Nat
    /\ MaxFaults \in Nat
    /\ NoSession \notin Sessions
    /\ NoPool \notin Pools
    /\ IsFiniteSet(Workers)

Instances == 1 .. MaxInstances

VARIABLES
    client,      \* each WebSocket: "new", "handshake", "open" or "closed"
    disconnects, \* sessions whose $disconnect event is not handled yet
    row,         \* streaming-sessions: status and frame_queue_url
    intent,      \* the session's message on the spawn queue
    receives,    \* how often that message was received
    claimed_by,  \* the pool table
    worker,      \* executions of the spawn callback
    slot,        \* the pool row each worker has claimed
    inst,        \* the GPU instances, in the order of their launch
    frames,      \* per frame queue, the sessions with audio in it
    orphaned,    \* history: sessions whose row names a queue let go of
    faults       \* how many faults have happened

wsVars == <<client, disconnects>>
tableVars == <<row, orphaned>>
spawnVars == <<intent, receives>>
poolVars == <<claimed_by, slot>>
vars == <<wsVars, tableVars, spawnVars, poolVars, worker, inst, frames, faults>>

\* The three statuses with which a container ends a session are one here;
\* "unset" is a row that was created by an update of another attribute.
Statuses ==
    {"absent", "connecting", "spawning-gpu", "disconnected", "ended", "unset"}

Phases ==
    {"none", "booting", "loading", "streaming", "draining", "finalized",
     "stopped", "terminated"}

\* States in which EC2 lists the instance as pending or running.
Live == Phases \ {"none", "terminated"}

NoInstance ==
    [phase |-> "none", sid |-> NoSession, pool |-> NoPool, event |-> FALSE,
     gone |-> FALSE, restarted |-> FALSE, known |-> TRUE, heard |-> {}]

IdleWorker == [at |-> "idle", sid |-> NoSession, victims |-> {}]

ClientsTyped ==
    /\ client \in [Sessions -> {"new", "handshake", "open", "closed"}]
    /\ disconnects \subseteq Sessions
    /\ intent \in [Sessions -> {"none", "queued", "inflight", "deleted", "dlq"}]
    /\ receives \in [Sessions -> 0 .. MaxReceives]

RowsTyped ==
    /\ row \in [Sessions -> [status : Statuses, url : Pools \cup {NoPool}]]
    /\ \A s \in Sessions : row[s].status = "absent" => row[s].url = NoPool
    /\ orphaned \subseteq Sessions
    /\ frames \in [Pools -> SUBSET Sessions]

WorkerType ==
    [at : {"idle", "list", "evict", "claim", "stamp", "launch", "release", "ack"},
     sid : Sessions \cup {NoSession}, victims : SUBSET Instances]

\* A worker holds a slot from the claim to the launch or the release.
WorkersTyped ==
    /\ claimed_by \in [Pools -> Sessions \cup {NoSession}]
    /\ worker \in [Workers -> WorkerType]
    /\ slot \in [Workers -> Pools \cup {NoPool}]
    /\ \A w \in Workers :
         /\ slot[w] # NoPool <=> worker[w].at \in {"stamp", "launch", "release"}
         /\ worker[w].at # "idle" => worker[w].sid \in Sessions

HostType ==
    [phase : Phases, sid : Sessions \cup {NoSession}, pool : Pools \cup {NoPool},
     event : BOOLEAN, gone : BOOLEAN, restarted : BOOLEAN, known : BOOLEAN,
     heard : SUBSET Sessions]

\* A host that was launched has a session and a queue, and only such are victims.
HostsTyped ==
    /\ inst \in [Instances -> HostType]
    /\ \A i \in Instances :
         inst[i].phase # "none" => inst[i].sid \in Sessions /\ inst[i].pool \in Pools
    /\ \A w \in Workers, i \in Instances :
         i \in worker[w].victims => inst[i].phase # "none"

TypeOK ==
    /\ ClientsTyped /\ RowsTyped /\ WorkersTyped /\ HostsTyped
    /\ faults \in 0 .. MaxFaults

Init ==
    /\ client = [s \in Sessions |-> "new"]
    /\ disconnects = {}
    /\ row = [s \in Sessions |-> [status |-> "absent", url |-> NoPool]]
    /\ intent = [s \in Sessions |-> "none"]
    /\ receives = [s \in Sessions |-> 0]
    /\ claimed_by = [p \in Pools |-> NoSession]
    /\ worker = [w \in Workers |-> IdleWorker]
    /\ slot = [w \in Workers |-> NoPool]
    /\ inst = [i \in Instances |-> NoInstance]
    /\ frames = [p \in Pools |-> {}]
    /\ orphaned = {}
    /\ faults = 0

RowExists(s) == row[s].status # "absent"

SetStatus(s, status) == row' = [row EXCEPT ![s].status = status]

\* A call fails, a task is stopped, a host is lost.
Fault == faults < MaxFaults /\ faults' = faults + 1
=============================================================================
