-------------------------- MODULE IngestionPipeline --------------------------
(***************************************************************************)
(* The file-upload path of Panakoes: ingestion-api, event-router,          *)
(* transcribe-worker and transcriber-batch over one ingestion table.       *)
(***************************************************************************)
EXTENDS TranscribeWorker, EventRouter

Next ==
    \/ \E i \in Ingestions :
         CreateIngestion(i) \/ Upload(i) \/ RouterStep(i) \/ PublishFails(i)
    \/ \E r \in Runs, i \in Ingestions : RequestTranscription(r, i)
    \/ \E r \in Runs, m \in Messages : ReceiveTrigger(r, m)
    \/ \E r \in Runs : TranscriptionStep(r) \/ WorkerStep(r) \/ RunDies(r)
    \/ \E m \in Messages : TriggerReappears(m)
    \/ \E j \in Jobs : JobStep(j) \/ JobDies(j)

Spec == Init /\ [][Next]_vars

\* Started executions and jobs run on, messages reappear, and the event source
\* mapping finds a free execution for each of them now and then.
Fairness ==
    /\ \A r \in Runs : WF_vars(TranscriptionStep(r) \/ WorkerStep(r))
    /\ \A j \in Jobs : WF_vars(JobStep(j))
    /\ \A m \in Messages :
         /\ WF_vars(TriggerReappears(m))
         /\ SF_vars(\E r \in Runs : ReceiveTrigger(r, m))

FairSpec == Spec /\ Fairness

-----------------------------------------------------------------------------
(* Properties.                                                             *)

\* However often S3 delivers its events, an upload is announced at most once.
AnnouncedOnce == \A i \in Ingestions : published[i] <= 1

\* Without faults, a transcription that counts as pending is being worked on:
\* no order of requests, deliveries and jobs leaves it pending with nobody.
PendingIsWorkedOn ==
    faults = 0 =>
        \A i \in Ingestions : row[i].transcript = "pending" => InFlight(i)

\* A transcript, once there, is given up only if two executions were at work
\* on the ingestion at once.
SucceededStaysUnlessRaced ==
    [][\A i \in Ingestions :
         row[i].transcript = "succeeded" /\ i \notin raced =>
             row'[i].transcript = "succeeded"]_vars

\* Without faults, what is uploaded gets a verdict, and what is pending too.
UploadGetsVerdict ==
    \A i \in Ingestions :
        (i \in stored \/ row[i].transcript = "pending")
          ~> (row[i].transcript \in {"succeeded", "failed"} \/ faults > 0)

-----------------------------------------------------------------------------
(* What docs and comments say, and the code does not do.                   *)

\* "The row is in `pending` state which is fine for re-delivery since the next
\* attempt either succeeds in submit or surfaces the failure on the next
\* retry": a pending row gets a verdict, also after a failed submit.
RetrySubmits ==
    \A i \in Ingestions :
        row[i].transcript = "pending" ~> row[i].transcript \in {"succeeded", "failed"}

\* "Mark pending now so a concurrent request short-circuits at the branch above".
OneRunAtATime ==
    \A i \in Ingestions, q, r \in Runs :
        q # r /\ run[q].ing = i /\ run[r].ing = i =>
            ~(run[q].at \in {"fetch", "backend"} /\ run[r].at \in {"fetch", "backend"})

\* "the Lambda's own retry policy (on transient AWS errors) is safe": once the
\* events of an upload are handled, it has been announced.
RetryAnnounces ==
    \A i \in stored : notices[i] = 0 /\ i \notin publishing => published[i] > 0

\* "Records whose row exists but is not in `pending` are skipped silently
\* (idempotent re-delivery)": what is skipped was announced, or will be.
SkipsAreRedeliveries ==
    [][\A i \in Ingestions :
         notices'[i] < notices[i] /\ publishing' = publishing =>
             published[i] > 0 \/ i \in publishing]_vars
=============================================================================
