---------------------------- MODULE StreamContainer ----------------------------
(***************************************************************************)
(* transcriber-stream: one container per GPU instance, from the boot of    *)
(* the host to its termination.  `event` stands for the lifecycle and the  *)
(* Spot watchers' events, which the code treats alike except for the final *)
(* status; `gone` for the 410 a post to a closed connection meets.  What   *)
(* the container hears is abstracted to whose audio it is; FrameConsumer   *)
(* models the order of the frames.                                         *)
(***************************************************************************)
EXTENDS StreamingState

Move(i, phase) == inst' = [inst EXCEPT ![i].phase = phase]

\* Steps of the container change nothing else.
Alone == UNCHANGED <<wsVars, spawnVars, poolVars, worker, orphaned>>

\* Cloud-init starts the container; the watchers run before the model loads.
StartContainer(i) ==
    /\ inst[i].phase = "booting"
    /\ Move(i, "loading")
    /\ UNCHANGED <<row, frames, faults>> /\ Alone

\* Cloud-init runs once, under `set -e`: when the login at ECR or the pull of
\* the image fails, the host stays without a container.
BootFails(i) ==
    /\ inst[i].phase = "booting" /\ ~inst[i].restarted
    /\ Fault
    /\ Move(i, "stopped")
    /\ UNCHANGED <<row, frames>> /\ Alone

\* A faulty variant: only a missing row counts.
RowIsGone(s) == ~RowExists(s)

\* What LifecycleWatcher takes for the end of the session.
SessionOver(s) == row[s].status \in {"absent", "disconnected"}

\* A poll of the row by LifecycleWatcher.
Watch(i) ==
    /\ inst[i].phase \in {"loading", "streaming"}
    /\ ~inst[i].event
    /\ SessionOver(inst[i].sid)
    /\ inst' = [inst EXCEPT ![i].event = TRUE]
    /\ UNCHANGED <<row, frames, faults>> /\ Alone

\* The instance metadata announce a Spot interruption.
SpotNotice(i) ==
    /\ inst[i].phase \in {"loading", "streaming"}
    /\ ~inst[i].event
    /\ Fault
    /\ inst' = [inst EXCEPT ![i].event = TRUE]
    /\ UNCHANGED <<row, frames>> /\ Alone

\* A keepalive ping, or any other post, to a closed connection.
Ping(i) ==
    /\ inst[i].phase = "streaming"
    /\ client[inst[i].sid] = "closed"
    /\ ~inst[i].gone
    /\ inst' = [inst EXCEPT ![i].gone = TRUE]
    /\ UNCHANGED <<row, frames, faults>> /\ Alone

\* The model is loaded.  An event during the load makes run() return 0, which
\* leaves the host running; otherwise the frame loop starts.
ModelLoaded(i) ==
    /\ inst[i].phase = "loading"
    /\ Move(i, IF inst[i].event THEN "stopped" ELSE "streaming")
    /\ UNCHANGED <<row, frames, faults>> /\ Alone

\* update_last_transcript_tokens, after any pass that has committed tokens: an
\* unconditional update, which creates the row if it is gone.
UpdateTranscript(s) ==
    \/ UNCHANGED row
    \/ ~RowExists(s) /\ SetStatus(s, "unset")

\* A frame is transcribed; only now the loop looks at `event` and `gone`.
TranscribeFrame(i) ==
    /\ inst[i].phase = "streaming"
    /\ \E s \in frames[inst[i].pool] :
         /\ frames' = [frames EXCEPT ![inst[i].pool] = @ \ {s}]
         /\ inst' = [inst EXCEPT
              ![i].heard = @ \cup {s},
              ![i].phase = IF inst[i].event \/ inst[i].gone
                           THEN "draining" ELSE "streaming"]
    /\ UpdateTranscript(inst[i].sid)
    /\ UNCHANGED faults /\ Alone

\* The pass raises: the frame is in the recogniser's buffer, and the loop goes
\* on with the next one without having looked at `event` or `gone`.
PassFails(i) ==
    /\ inst[i].phase = "streaming"
    /\ Fault
    /\ \E s \in frames[inst[i].pool] :
         /\ frames' = [frames EXCEPT ![inst[i].pool] = @ \ {s}]
         /\ inst' = [inst EXCEPT ![i].heard = @ \cup {s}]
    /\ UNCHANGED row /\ Alone

\* The bridge task has stopped the consumer, which ends the loop.
StreamStops(i) ==
    /\ inst[i].phase = "streaming"
    /\ inst[i].event
    /\ Move(i, "draining")
    /\ UNCHANGED <<row, frames, faults>> /\ Alone

\* write_final_tokens: S3, then an unconditional update of the row.
WriteFinal(i) ==
    /\ inst[i].phase = "draining"
    /\ Move(i, "finalized")
    /\ SetStatus(inst[i].sid, "ended")
    /\ UNCHANGED <<frames, faults>> /\ Alone

\* S3 or the update failed: logged, the row is not flipped.
WriteFinalFails(i) ==
    /\ inst[i].phase = "draining"
    /\ Fault
    /\ Move(i, "finalized")
    /\ UNCHANGED <<row, frames>> /\ Alone

\* _self_terminate_ec2.
SelfTerminate(i) ==
    /\ inst[i].phase = "finalized"
    /\ Move(i, "terminated")
    /\ UNCHANGED <<row, frames, faults>> /\ Alone

\* ... best effort: the container exits, the host stays.
SelfTerminateFails(i) ==
    /\ inst[i].phase = "finalized"
    /\ Fault
    /\ Move(i, "stopped")
    /\ UNCHANGED <<row, frames>> /\ Alone

\* run() raises (AMI assets, model load, a post that fails for another reason
\* than a closed connection): docker restarts the container once.
ContainerFails(i) ==
    /\ inst[i].phase \in {"loading", "streaming", "draining", "finalized"}
    /\ Fault
    /\ inst' = [inst EXCEPT ![i] =
         IF inst[i].restarted THEN [@ EXCEPT !.phase = "stopped"]
         ELSE [@ EXCEPT !.phase = "booting", !.restarted = TRUE,
                        !.event = FALSE, !.gone = FALSE]]
    /\ UNCHANGED <<row, frames>> /\ Alone

\* Spot takes the host back, or an operator deletes it (DELETE /spawn).
HostLost(i) ==
    /\ inst[i].phase \in Live
    /\ Fault
    /\ Move(i, "terminated")
    /\ UNCHANGED <<row, frames>> /\ Alone

\* A step the container takes by itself.
ContainerStep(i) ==
    \/ StartContainer(i) \/ Ping(i) \/ ModelLoaded(i) \/ TranscribeFrame(i)
    \/ StreamStops(i) \/ WriteFinal(i) \/ WriteFinalFails(i)
    \/ SelfTerminate(i) \/ SelfTerminateFails(i)

ContainerNext(i) ==
    \/ ContainerStep(i) \/ BootFails(i) \/ PassFails(i) \/ Watch(i) \/ SpotNotice(i)
    \/ ContainerFails(i) \/ HostLost(i)
=============================================================================
