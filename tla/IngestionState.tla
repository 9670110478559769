---------------------------- MODULE IngestionState ----------------------------
(***************************************************************************)
(* What the parts of the file-upload path share: the ingestion table, the  *)
(* uploads bucket and its two notifications (one for event-router, one on  *)
(* the trigger queue of transcribe-worker), the executions of the          *)
(* transcription code and the AWS Batch jobs.                              *)
(*                                                                         *)
(* A run is one execution that may transcribe: a POST /transcribe with its *)
(* background task (msg = NoMessage), or an invocation of the              *)
(* transcribe-worker Lambda for one message of the trigger queue.          *)
(***************************************************************************)
EXTENDS Naturals, FiniteSets

CONSTANTS
    Ingestions,
    Messages,    \* bound: trigger-queue messages, one per upload of an object
    Runs,        \* bound: executions at once
    Jobs,        \* bound: Batch jobs at once
    Backends,    \* what TRANSCRIBER_BACKEND may be: "batch", "inline"
    MaxReceives, \* maxReceiveCount of the trigger queue
    Faults,      \* what may go wrong: "publish", "submit", "run", "job"
    MaxFaults,   \* bound on how often
    NoIngestion,
    NoMessage

ASSUME IngestionAssumption ==
    /\ Backends \subseteq {"batch", "inline"}
    /\ Faults \subseteq {"publish", "submit", "run", "job"}
    /\ MaxReceives \in Nat /\ MaxFaults \in Nat
    /\ IsFiniteSet(Messages)
    /\ NoIngestion \notin Ingestions
    /\ NoMessage \notin Messages

VARIABLES
    row,        \* the table: status and transcript_status
    stored,     \* ingestions whose object is in the bucket
    notices,    \* S3 events event-router has not handled yet
    publishing, \* ingestions whose AudioUploaded event is about to be put
    published,  \* history: how often it was put
    msg,        \* the trigger queue
    run,
    job,
    raced,      \* history: ingestions two executions worked on at once
    faults

uploadVars == <<stored, notices, publishing, published>>
vars == <<row, uploadVars, msg, run, job, raced, faults>>

IdleRun == [at |-> "idle", ing |-> NoIngestion, msg |-> NoMessage]
NoJob == [at |-> "none", ing |-> NoIngestion]

TypeOK ==
    /\ row \in [Ingestions ->
         [status : {"absent", "pending", "uploaded"},
          transcript : {"none", "pending", "succeeded", "failed"}]]
    /\ stored \subseteq {i \in Ingestions : row[i].status # "absent"}
    /\ notices \in [Ingestions -> Nat]
    /\ publishing \subseteq {i \in Ingestions : row[i].status = "uploaded"}
    /\ published \in [Ingestions -> Nat]
    /\ msg \in [Messages ->
         [state : {"none", "queued", "inflight", "deleted", "dlq"},
          ing : Ingestions \cup {NoIngestion}, receives : 0 .. MaxReceives]]
    /\ run \in [Runs ->
         [at : {"idle", "read", "mark", "dispatch", "fetch", "backend"},
          ing : Ingestions \cup {NoIngestion}, msg : Messages \cup {NoMessage}]]
    /\ job \in [Jobs ->
         [at : {"none", "submitted", "running"}, ing : Ingestions \cup {NoIngestion}]]
    /\ raced \subseteq Ingestions
    /\ faults \in 0 .. MaxFaults
    /\ \A m \in Messages : msg[m].state # "none" => msg[m].ing \in Ingestions
    /\ \A r \in Runs : run[r].msg # NoMessage => msg[run[r].msg].ing \in Ingestions
    /\ \A r \in Runs : run[r].at # "idle" => run[r].ing \in Ingestions
    /\ \A j \in Jobs : job[j].at # "none" <=> job[j].ing \in Ingestions

Init ==
    /\ row = [i \in Ingestions |-> [status |-> "absent", transcript |-> "none"]]
    /\ stored = {}
    /\ notices = [i \in Ingestions |-> 0]
    /\ publishing = {}
    /\ published = [i \in Ingestions |-> 0]
    /\ msg = [m \in Messages |->
                [state |-> "none", ing |-> NoIngestion, receives |-> 0]]
    /\ run = [r \in Runs |-> IdleRun]
    /\ job = [j \in Jobs |-> NoJob]
    /\ raced = {}
    /\ faults = 0

\* An execution has decided to transcribe i and has not ended, or a job has.
InFlight(i) ==
    \/ \E r \in Runs : run[r].ing = i /\ run[r].at \notin {"idle", "read"}
    \/ \E j \in Jobs : job[j].ing = i

SetTranscript(i, status) == row' = [row EXCEPT ![i].transcript = status]

MoveRun(r, at) == run' = [run EXCEPT ![r].at = at]

Fault(kind) == kind \in Faults /\ faults < MaxFaults /\ faults' = faults + 1
=============================================================================
