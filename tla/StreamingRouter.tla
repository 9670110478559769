---------------------------- MODULE StreamingRouter ----------------------------
(***************************************************************************)
(* The WebSocket Lambda, streaming-router, and the clients and the table's *)
(* TTL it works for.  A Lambda invocation builds its Router anew, so the   *)
(* queue-url cache never outlives the frame it was filled for and is left  *)
(* out.  ping and transcript-request change no state and are left out too. *)
(***************************************************************************)
EXTENDS StreamingState

\* $connect: the row is put first.
ConnectPutRow(s) ==
    /\ client[s] = "new"
    /\ client' = [client EXCEPT ![s] = "handshake"]
    /\ SetStatus(s, "connecting")
    /\ UNCHANGED <<disconnects, orphaned, spawnVars, poolVars, worker, inst,
                   frames, faults>>

\* ... then the streaming.session.connecting event, which reaches the spawn
\* queue; the handshake completes.
ConnectPutEvent(s) ==
    /\ client[s] = "handshake"
    /\ client' = [client EXCEPT ![s] = "open"]
    /\ intent' = [intent EXCEPT ![s] = "queued"]
    /\ UNCHANGED <<disconnects, tableVars, receives, poolVars, worker, inst,
                   frames, faults>>

\* ... or put_events fails: logged, and the handshake completes all the same.
ConnectEventFails(s) ==
    /\ client[s] = "handshake"
    /\ Fault
    /\ client' = [client EXCEPT ![s] = "open"]
    /\ UNCHANGED <<disconnects, tableVars, spawnVars, poolVars, worker, inst,
                   frames>>

\* ... or the invocation ends between the two writes: the handshake is refused,
\* and a refused connection has no $disconnect.
ConnectDies(s) ==
    /\ client[s] = "handshake"
    /\ Fault
    /\ client' = [client EXCEPT ![s] = "closed"]
    /\ UNCHANGED <<disconnects, tableVars, spawnVars, poolVars, worker, inst,
                   frames>>

\* The client goes away, or the API Gateway cuts the connection.
Close(s) ==
    /\ client[s] = "open"
    /\ client' = [client EXCEPT ![s] = "closed"]
    /\ disconnects' = disconnects \cup {s}
    /\ UNCHANGED <<tableVars, spawnVars, poolVars, worker, inst, frames, faults>>

\* ConditionExpression of the disconnect: attribute_exists(session_id).
DisconnectCondition(s) == RowExists(s)

\* $disconnect: stamp the row if it exists.
Disconnect(s) ==
    /\ s \in disconnects
    /\ disconnects' = disconnects \ {s}
    /\ IF DisconnectCondition(s) THEN SetStatus(s, "disconnected") ELSE UNCHANGED row
    /\ UNCHANGED <<client, orphaned, spawnVars, poolVars, worker, inst, frames,
                   faults>>

\* The event is not delivered, or its update fails: swallowed.
DisconnectLost(s) ==
    /\ s \in disconnects
    /\ Fault
    /\ disconnects' = disconnects \ {s}
    /\ UNCHANGED <<client, tableVars, spawnVars, poolVars, worker, inst, frames>>

\* audio-frame: sent to the queue the row names.  Without one the frame is
\* dropped, and without a row it goes to the legacy shared queue, which no
\* container reads.
AudioFrame(s) ==
    /\ client[s] = "open"
    /\ row[s].url # NoPool
    /\ frames' = [frames EXCEPT ![row[s].url] = @ \cup {s}]
    /\ UNCHANGED <<wsVars, tableVars, spawnVars, poolVars, worker, inst, faults>>

\* ttl_epoch_seconds, two hours after $connect: by then the API Gateway has
\* closed the connection, and DynamoDB deletes the row some time later.
ExpireRow(s) ==
    /\ client[s] = "closed"
    /\ RowExists(s)
    /\ row' = [row EXCEPT ![s] = [status |-> "absent", url |-> NoPool]]
    /\ UNCHANGED <<wsVars, orphaned, spawnVars, poolVars, worker, inst, frames,
                   faults>>

RouterNext(s) ==
    \/ ConnectPutRow(s) \/ ConnectPutEvent(s)
    \/ ConnectEventFails(s) \/ ConnectDies(s)
    \/ Disconnect(s) \/ DisconnectLost(s) \/ AudioFrame(s)

ClientNext(s) == Close(s) \/ ExpireRow(s)
=============================================================================
