-------------------------------- MODULE Summaries --------------------------------
(***************************************************************************)
(* summarization: POST /summarize for one transcript of one user, in       *)
(* several processes, and the two readers of what it stores: its own GET   *)
(* routes, which join the DynamoDB row with the S3 object it names, and    *)
(* query-api, which reads the row.  A summary is known by the request that *)
(* made it; every request writes to the same key and the same object.      *)
(***************************************************************************)
CONSTANTS
    Requests,  \* bound: POST /summarize
    Readers,   \* bound: GET routes of summarization and query-api
    None

VARIABLES
    transcript,  \* the transcript is in S3
    body,        \* the S3 object: the request that wrote it
    row,         \* the DynamoDB item: the request that wrote it
    req,         \* the POST requests
    get,         \* the GET requests
    audited,     \* requests that recorded "completed" or "failed"
    contended    \* history: a write was overtaken by another, cut short by a
                 \* crash, or came between the two reads of a GET

vars == <<transcript, body, row, req, get, audited, contended>>

Init ==
    /\ transcript \in BOOLEAN
    /\ body = None /\ row = None
    /\ req = [q \in Requests |-> "idle"]
    /\ get = [r \in Readers |-> [pc |-> "idle", row |-> None, body |-> None]]
    /\ audited = {}
    /\ contended = FALSE

\* Between the two writes, between the two reads.
HalfWritten == \E q \in Requests : req[q] = "half"
HalfRead == \E r \in Readers : get[r].pc = "half"

Step(q, to) == req' = [req EXCEPT ![q] = to]

\* Another service stores the transcript.
StoreTranscript ==
    /\ ~transcript
    /\ transcript' = TRUE
    /\ UNCHANGED <<body, row, req, get, audited, contended>>

\* read_transcript; a missing one is audited and answered 404.
ReadTranscript(q) ==
    /\ req[q] = "idle"
    /\ IF transcript THEN Step(q, "asking") /\ UNCHANGED audited
                     ELSE Step(q, "failed") /\ audited' = audited \cup {q}
    /\ UNCHANGED <<transcript, body, row, get, contended>>

\* Summarizer.summarize; any exception is audited and raised again.
CallModel(q) ==
    /\ req[q] = "asking"
    /\ \/ Step(q, "writing") /\ UNCHANGED audited
       \/ Step(q, "failed") /\ audited' = audited \cup {q}
    /\ UNCHANGED <<transcript, body, row, get, contended>>

\* A faulty variant: the row before the object.
RowFirst(q) ==
    \/ /\ req[q] = "writing"
       /\ row' = q
       /\ contended' = (contended \/ HalfWritten \/ HalfRead)
       /\ Step(q, "half")
       /\ UNCHANGED body
    \/ /\ req[q] = "half"
       /\ body' = q
       /\ contended' = (contended \/ HalfRead)
       /\ Step(q, "written")
       /\ UNCHANGED row

\* write_summary: put_object, then put_item, both unconditional.
WriteSummary(q) ==
    \/ /\ req[q] = "writing"
       /\ body' = q
       /\ contended' = (contended \/ HalfWritten \/ HalfRead)
       /\ Step(q, "half")
       /\ UNCHANGED row
    \/ /\ req[q] = "half"
       /\ row' = q
       /\ contended' = (contended \/ HalfRead)
       /\ Step(q, "written")
       /\ UNCHANGED body

Write(q) ==
    /\ WriteSummary(q)
    /\ UNCHANGED <<transcript, get, audited>>

\* record_event, and the answer.
Complete(q) ==
    /\ req[q] = "written"
    /\ Step(q, "done")
    /\ audited' = audited \cup {q}
    /\ UNCHANGED <<transcript, body, row, get, contended>>

\* The process ends, or a call to S3 or DynamoDB raises: no audit row.
Die(q) ==
    /\ req[q] \in {"asking", "writing", "half", "written"}
    /\ contended' = (contended \/ req[q] = "half")
    /\ Step(q, "dead")
    /\ UNCHANGED <<transcript, body, row, get, audited>>

\* GET /summary/{id} or GET /summaries: the row, if there is one ...
GetRow(r) ==
    /\ get[r].pc = "idle"
    /\ get' = [get EXCEPT ![r] = [pc |-> IF row = None THEN "none" ELSE "half",
                                  row |-> row, body |-> None]]
    /\ contended' = (contended \/ (row # None /\ HalfWritten))
    /\ UNCHANGED <<transcript, body, row, req, audited>>

\* ... then the object.
GetBody(r) ==
    /\ get[r].pc = "half"
    /\ get' = [get EXCEPT ![r] = [@ EXCEPT !.pc = "done", !.body = body]]
    /\ UNCHANGED <<transcript, body, row, req, audited, contended>>

\* What the row holds, and what query-api's SummaryRecord asks of it.
Attributes == {"transcript_id", "user_id", "tier", "model", "s3_key", "created_at",
               "input_tokens", "output_tokens"}
Required == {"transcript_id", "user_id", "summary_text", "tier", "model",
             "created_at", "updated_at"}

\* query-api's GET /summaries/{id}: 404, or the item validated.
QueryRow(r) ==
    /\ get[r].pc = "idle"
    /\ get' = [get EXCEPT ![r].pc = IF row = None THEN "none"
                                    ELSE IF Required \subseteq Attributes THEN "served"
                                    ELSE "error"]
    /\ UNCHANGED <<transcript, body, row, req, audited, contended>>

Next ==
    \/ StoreTranscript
    \/ \E q \in Requests :
         \/ ReadTranscript(q) \/ CallModel(q) \/ Write(q) \/ Complete(q) \/ Die(q)
    \/ \E r \in Readers : GetRow(r) \/ GetBody(r) \/ QueryRow(r)

Spec == Init /\ [][Next]_vars

-----------------------------------------------------------------------------
(* Properties.                                                             *)

\* A summary is served whole: a row never lacks its text, and the text is the
\* one the row's model wrote unless writers overlapped, one died between its
\* two writes, or a reader came in between.
SummariesAreWhole ==
    \A r \in Readers :
        get[r].pc = "done" =>
            /\ get[r].body # None
            /\ ~contended => get[r].body = get[r].row

-----------------------------------------------------------------------------
(* What docs and comments say, and the code does not do.                   *)

\* "Summary record produced by the Summarization service": the row has neither
\* summary_text nor updated_at, so query-api answers each with an error.
QueryApiServesSummaries == \A r \in Readers : get[r].pc # "error"
=============================================================================
