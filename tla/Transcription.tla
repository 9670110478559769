---------------------------- MODULE Transcription ----------------------------
(***************************************************************************)
(* ingestion-api's upload and transcription endpoints, and the function    *)
(* transcribe_ingestion they share with transcribe-worker.                 *)
(***************************************************************************)
EXTENDS IngestionState

\* POST /ingestion/audio: the record, then the pre-signed upload URL.
CreateIngestion(i) ==
    /\ row[i].status = "absent"
    /\ row' = [row EXCEPT ![i].status = "pending"]
    /\ UNCHANGED <<uploadVars, msg, run, job, raced, faults>>

\* The client puts the object, once or again while the URL is valid.  S3 tells
\* event-router, at least once, and the trigger queue.
Upload(i) ==
    /\ row[i].status # "absent"
    /\ \E m \in Messages :
         /\ msg[m].state = "none"
         /\ msg' = [msg EXCEPT ![m].state = "queued", ![m].ing = i]
    /\ stored' = stored \cup {i}
    /\ \E n \in 1 .. 2 : notices' = [notices EXCEPT ![i] = @ + n]
    /\ UNCHANGED <<row, publishing, published, run, job, raced, faults>>

\* A transcript_status that lets a route or a worker start a transcription.
Startable(i) == row[i].transcript \notin {"succeeded", "pending"}

\* An execution that goes past the check while another is at work on i.
NoteRace(i) == raced' = IF InFlight(i) THEN raced \cup {i} ELSE raced

\* POST /transcribe/{id}: the record read allows to start.
RequestTranscription(r, i) ==
    /\ run[r].at = "idle"
    /\ row[i].status # "absent"
    /\ Startable(i)
    /\ run' = [run EXCEPT ![r] = [at |-> "mark", ing |-> i, msg |-> NoMessage]]
    /\ NoteRace(i)
    /\ UNCHANGED <<row, uploadVars, msg, job, faults>>

\* set_transcript_pending, unconditional: from here the route schedules the
\* background task, and the worker dispatches to its backend.
MarkPending(r) ==
    /\ run[r].at = "mark"
    /\ SetTranscript(run[r].ing, "pending")
    /\ MoveRun(r, IF run[r].msg = NoMessage THEN "fetch" ELSE "dispatch")
    /\ UNCHANGED <<uploadVars, msg, job, raced, faults>>

\* A message nobody else has received since is deleted; the deletion of one
\* on the dead-letter queue comes too late.
DeleteMessage(r) ==
    LET m == run[r].msg
        again == \E q \in Runs \ {r} : run[q].msg = m
    IN  \/ msg[m].state # "dlq" /\ msg' = [msg EXCEPT ![m].state = "deleted"]
        \/ (msg[m].state = "dlq" \/ again) /\ UNCHANGED msg

\* The execution ends normally; a worker's message is then deleted.
EndRun(r) ==
    /\ run' = [run EXCEPT ![r] = IdleRun]
    /\ IF run[r].msg = NoMessage THEN UNCHANGED msg ELSE DeleteMessage(r)

\* A faulty variant: a missing object ends the task without a verdict.
FetchAudioSilently(r) ==
    /\ run[r].at = "fetch"
    /\ \/ /\ run[r].ing \in stored
          /\ MoveRun(r, "backend")
          /\ UNCHANGED msg
       \/ /\ run[r].ing \notin stored
          /\ EndRun(r)
    /\ UNCHANGED <<row, uploadVars, job, raced, faults>>

\* The object is read from S3; without one the transcription has failed.
FetchAudio(r) ==
    /\ run[r].at = "fetch"
    /\ \/ /\ run[r].ing \in stored
          /\ MoveRun(r, "backend")
          /\ UNCHANGED <<row, msg>>
       \/ /\ run[r].ing \notin stored
          /\ SetTranscript(run[r].ing, "failed")
          /\ EndRun(r)
    /\ UNCHANGED <<uploadVars, job, raced, faults>>

\* The backend answers, and the answer is written, unconditionally.  Any error
\* of the backend is a failed transcription; so is an S3 error before it.
BackendAnswers(r) ==
    /\ run[r].at = "backend"
    /\ \E verdict \in {"succeeded", "failed"} : SetTranscript(run[r].ing, verdict)
    /\ EndRun(r)
    /\ UNCHANGED <<uploadVars, job, raced, faults>>

\* The process is killed, or a DynamoDB call raises: the background task is
\* lost, and a worker's message is left to be delivered again.
RunDies(r) ==
    /\ run[r].at # "idle"
    /\ Fault("run")
    /\ run' = [run EXCEPT ![r] = IdleRun]
    /\ UNCHANGED <<row, uploadVars, msg, job, raced>>

TranscriptionStep(r) == MarkPending(r) \/ FetchAudio(r) \/ BackendAnswers(r)
=============================================================================
