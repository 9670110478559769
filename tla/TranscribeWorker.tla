--------------------------- MODULE TranscribeWorker ---------------------------
(***************************************************************************)
(* The transcribe-worker Lambda, its trigger queue, and the transcriber-   *)
(* batch container its Batch jobs run.  Messages that are not about an     *)
(* object of the uploads bucket are dropped before anything happens and    *)
(* are left out, as is the rate-limit branch of _dispatch: every error of  *)
(* the backend is turned into a failed transcription before it gets there. *)
(***************************************************************************)
EXTENDS Transcription

\* The event source mapping invokes the Lambda with one message.
ReceiveTrigger(r, m) ==
    /\ run[r].at = "idle"
    /\ msg[m].state = "queued"
    /\ msg[m].receives < MaxReceives
    /\ msg' = [msg EXCEPT ![m].state = "inflight", ![m].receives = @ + 1]
    /\ run' = [run EXCEPT ![r] = [at |-> "read", ing |-> msg[m].ing, msg |-> m]]
    /\ UNCHANGED <<row, uploadVars, job, raced, faults>>

\* A faulty variant: a finished transcription counts as startable.
ReadRecordAgain(r) ==
    /\ run[r].at = "read"
    /\ MoveRun(r, "mark")
    /\ NoteRace(run[r].ing)
    /\ UNCHANGED <<row, uploadVars, msg, job, faults>>

\* store.get: skip what is done or under way, as far as the record says.
ReadRecord(r) ==
    /\ run[r].at = "read"
    /\ IF Startable(run[r].ing)
       THEN MoveRun(r, "mark") /\ NoteRace(run[r].ing) /\ UNCHANGED msg
       ELSE EndRun(r) /\ UNCHANGED raced
    /\ UNCHANGED <<row, uploadVars, job, faults>>

\* SubmitJob takes effect.
NewJob(i) ==
    \E j \in Jobs :
        /\ job[j].at = "none"
        /\ job' = [job EXCEPT ![j] = [at |-> "submitted", ing |-> i]]

SubmitBatchJob(r) ==
    /\ run[r].at = "dispatch" /\ "batch" \in Backends
    /\ NewJob(run[r].ing)
    /\ EndRun(r)
    /\ UNCHANGED <<row, uploadVars, raced, faults>>

\* submit_job raises, having submitted the job or not: the message is
\* reported as failed, to be delivered again.
SubmitFails(r) ==
    /\ run[r].at = "dispatch" /\ "batch" \in Backends
    /\ Fault("submit")
    /\ \/ NewJob(run[r].ing)
       \/ UNCHANGED job
    /\ run' = [run EXCEPT ![r] = IdleRun]
    /\ UNCHANGED <<row, uploadVars, msg, raced>>

\* A backend that runs in the Lambda.
DispatchInline(r) ==
    /\ run[r].at = "dispatch" /\ "inline" \in Backends
    /\ MoveRun(r, "fetch")
    /\ UNCHANGED <<row, uploadVars, msg, job, raced, faults>>

\* get_transcriber raises, for want of an API key: swallowed, and the message
\* is deleted.
NoTranscriber(r) ==
    /\ run[r].at = "dispatch" /\ "inline" \in Backends
    /\ Fault("submit")
    /\ EndRun(r)
    /\ UNCHANGED <<row, uploadVars, job, raced>>

\* The visibility timeout ends without a deletion.
TriggerReappears(m) ==
    /\ msg[m].state = "inflight"
    /\ msg' = [msg EXCEPT ![m].state =
                 IF msg[m].receives < MaxReceives THEN "queued" ELSE "dlq"]
    /\ UNCHANGED <<row, uploadVars, run, job, raced, faults>>

EndJob(j) == job' = [job EXCEPT ![j] = NoJob]

\* mark_uploaded: both statuses are overwritten, whatever they are.
JobStarts(j) ==
    /\ job[j].at = "submitted"
    /\ row' = [row EXCEPT ![job[j].ing] =
                 [status |-> "uploaded", transcript |-> "pending"]]
    /\ job' = [job EXCEPT ![j].at = "running"]
    /\ UNCHANGED <<uploadVars, msg, run, raced, faults>>

\* mark_succeeded, or mark_failed after any exception.
JobEnds(j) ==
    /\ job[j].at = "running"
    /\ \E verdict \in {"succeeded", "failed"} : SetTranscript(job[j].ing, verdict)
    /\ EndJob(j)
    /\ UNCHANGED <<uploadVars, msg, run, raced, faults>>

\* The host is reclaimed, or the write of the verdict fails: swallowed.  Jobs
\* are submitted without a retry strategy.
JobDies(j) ==
    /\ job[j].at # "none"
    /\ Fault("job")
    /\ EndJob(j)
    /\ UNCHANGED <<row, uploadVars, msg, run, raced>>

WorkerStep(r) ==
    \/ ReadRecord(r) \/ SubmitBatchJob(r) \/ SubmitFails(r)
    \/ DispatchInline(r) \/ NoTranscriber(r)

JobStep(j) == JobStarts(j) \/ JobEnds(j)
=============================================================================
