------------------------------ MODULE Notification ------------------------------
(***************************************************************************)
(* notification: POST /notify/email and POST /notify/webhook.  A message   *)
(* goes out first and is recorded afterwards; the client retries a webhook *)
(* within one request.  SES and the receiver of a webhook are external:    *)
(* they may take a message whose answer is lost.                           *)
(***************************************************************************)
EXTENDS Naturals

CONSTANTS
    Requests,
    MaxAttempts,  \* webhook_max_attempts
    None

VARIABLES
    req,       \* the requests: channel, position, attempts made, last outcome
    received,  \* how often the target has taken the message of a request
    record,    \* NotificationStore: status and attempts, or None
    audit      \* the action recorded of a request, or None

vars == <<req, received, record, audit>>

Init ==
    /\ req = [q \in Requests |->
                [pc |-> "idle", channel |-> None, attempts |-> 0, success |-> FALSE]]
    /\ received = [q \in Requests |-> 0]
    /\ record = [q \in Requests |-> None]
    /\ audit = [q \in Requests |-> None]

At(q, pc) == req[q].pc = pc
Step(q, changes) == req' = [req EXCEPT ![q] = changes]
Take(q) == received' = [received EXCEPT ![q] = @ + 1]

\* The template is rendered or not found; a webhook URL is https or refused.
Accept(q, channel) ==
    /\ At(q, "idle")
    /\ \E pc \in {"send", "rejected"} :
         Step(q, [req[q] EXCEPT !.pc = pc, !.channel = channel])
    /\ UNCHANGED <<received, record, audit>>

\* A faulty variant: the record is put before SES has taken the message.
RecordsThenSends(q) ==
    /\ At(q, "send") /\ req[q].channel = "email"
    /\ record' = [record EXCEPT ![q] = [status |-> "sent", attempts |-> 1]]
    /\ Step(q, [req[q] EXCEPT !.pc = "store", !.attempts = 1, !.success = TRUE])
    /\ UNCHANGED <<received, audit>>

\* SES takes the message, or the call raises (and SES may have it nonetheless).
SendEmail(q) ==
    /\ At(q, "send") /\ req[q].channel = "email"
    /\ \/ /\ Take(q)
          /\ Step(q, [req[q] EXCEPT !.pc = "store", !.attempts = 1, !.success = TRUE])
       \/ /\ Take(q) \/ UNCHANGED received
          /\ Step(q, [req[q] EXCEPT !.pc = "error"])
    /\ UNCHANGED <<record, audit>>

\* A 4xx is not tried again.
Final(outcome) == outcome = "4xx"

\* One attempt of WebhookClient.post: an answer, or none in time.  A receiver
\* that answers 5xx, or whose answer is lost, may have taken the message.
Attempt(q) ==
    /\ At(q, "send") /\ req[q].channel = "webhook"
    /\ \E outcome \in {"2xx", "4xx", "5xx", "lost"} :
         LET made == req[q].attempts + 1
             over == outcome = "2xx" \/ Final(outcome) \/ made = MaxAttempts
         IN  /\ CASE outcome = "2xx" -> Take(q)
                  [] outcome = "4xx" -> UNCHANGED received
                  [] OTHER -> Take(q) \/ UNCHANGED received
             /\ Step(q, [req[q] EXCEPT !.attempts = made,
                                       !.success = outcome = "2xx",
                                       !.pc = IF over THEN "store" ELSE "send"])
    /\ UNCHANGED <<record, audit>>

\* NotificationStore.put, an upsert under a new id, which may raise.
Store(q) ==
    /\ At(q, "store")
    /\ \/ /\ record' = [record EXCEPT ![q] =
                          [status |-> IF req[q].success THEN "sent" ELSE "failed",
                           attempts |-> req[q].attempts]]
          /\ Step(q, [req[q] EXCEPT !.pc = "audit"])
       \/ /\ Step(q, [req[q] EXCEPT !.pc = "error"])
          /\ UNCHANGED record
    /\ UNCHANGED <<received, audit>>

\* record_event, then the answer.
Record(q) ==
    /\ At(q, "audit")
    /\ audit' = [audit EXCEPT ![q] =
                   IF req[q].channel = "email" THEN "email_sent"
                   ELSE IF req[q].success THEN "webhook_sent" ELSE "webhook_failed"]
    /\ Step(q, [req[q] EXCEPT !.pc = "answered"])
    /\ UNCHANGED <<received, record>>

\* The process ends.
Die(q) ==
    /\ req[q].pc \in {"send", "store", "audit"}
    /\ Step(q, [req[q] EXCEPT !.pc = "error"])
    /\ UNCHANGED <<received, record, audit>>

Next ==
    \E q \in Requests :
        \/ \E channel \in {"email", "webhook"} : Accept(q, channel)
        \/ SendEmail(q) \/ Attempt(q) \/ Store(q) \/ Record(q) \/ Die(q)

Spec == Init /\ [][Next]_vars

-----------------------------------------------------------------------------
(* Properties.                                                             *)

\* The record of a notification is never better than what happened, and the
\* message was not taken more often than the record says it was tried.
RecordsAreTrue ==
    \A q \in Requests :
        record[q] # None =>
            /\ record[q].status = "sent" => received[q] > 0
            /\ received[q] <= record[q].attempts

-----------------------------------------------------------------------------
(* What the record does not say.                                           *)

\* A "failed" webhook may have been taken, each attempt once, and a message
\* that went out may leave no record at all.
FailedWasNotTaken ==
    \A q \in Requests :
        record[q] # None /\ record[q].status = "failed" => received[q] = 0
=============================================================================
