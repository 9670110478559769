----------------------------- MODULE EventRouter -----------------------------
(***************************************************************************)
(* The event-router Lambda: S3 ObjectCreated events, delivered at least    *)
(* once, to AudioUploaded events.  Keys that do not parse and missing      *)
(* records are only counted by a metric; a client gets its upload URL when *)
(* the record is there.                                                    *)
(***************************************************************************)
EXTENDS IngestionState

\* A faulty variant: the record has to exist only.
MarkIfExists(i) == row[i].status # "absent"

\* ConditionExpression of _mark_uploaded.
MarkCondition(i) == row[i].status = "pending"

\* _mark_uploaded; a record that is not pending is skipped.
HandleNotice(i) ==
    /\ notices[i] > 0
    /\ notices' = [notices EXCEPT ![i] = @ - 1]
    /\ IF MarkCondition(i)
       THEN /\ row' = [row EXCEPT ![i].status = "uploaded"]
            /\ publishing' = publishing \cup {i}
       ELSE UNCHANGED <<row, publishing>>
    /\ UNCHANGED <<stored, published, msg, run, job, raced, faults>>

\* put_events.
Publish(i) ==
    /\ i \in publishing
    /\ publishing' = publishing \ {i}
    /\ published' = [published EXCEPT ![i] = @ + 1]
    /\ UNCHANGED <<row, stored, notices, msg, run, job, raced, faults>>

\* put_events raises, or the invocation ends before it: Lambda retries.
PublishFails(i) ==
    /\ i \in publishing
    /\ Fault("publish")
    /\ publishing' = publishing \ {i}
    /\ notices' = [notices EXCEPT ![i] = @ + 1]
    /\ UNCHANGED <<row, stored, published, msg, run, job, raced>>

RouterStep(i) == HandleNotice(i) \/ Publish(i)
=============================================================================
