----------------------------- MODULE AdminOperations -----------------------------
(***************************************************************************)
(* The handlers of admin-api's lifecycle operations, which Lifecycle calls *)
(* "the handler", at work on records that other services change: session   *)
(* records under the requests of SessionManager, found by user through an  *)
(* index that lags, and one other record (an API key, a tenant or an       *)
(* ingestion) that an operation flags: revoked, blocked, failed.           *)
(*                                                                         *)
(* All sessions belong to the user who is blocked.  An operator runs one   *)
(* operation; several operators may be at work.                            *)
(***************************************************************************)
EXTENDS SessionManager, Naturals, FiniteSets

CONSTANTS
    Operators,
    RecordKinds,  \* what the other record may be
    MaxFaults     \* bound: calls to AWS that fail

VARIABLES
    index,     \* UserSessionsIndex: the status it shows of a session
    kind,      \* what the other record is
    record,    \* its state
    op,        \* the operations; found: the sessions a block has to end
    raced,     \* history: sessions that had a request between its read and its
               \* write when an operation ended them
    faults

adminVars == <<index, kind, record, op, raced, faults>>
adminAll == <<vars, adminVars>>

Live == {"active", "starting", "paused"}
NoOp == [pc |-> "idle", todo |-> {}, found |-> {}, seen |-> "none"]

AdminInit ==
    /\ Init
    /\ index = [s \in Sessions |-> "none"]
    /\ kind \in RecordKinds
    /\ record \in {"active", "none"}
    /\ op = [a \in Operators |-> NoOp]
    /\ raced = {}
    /\ faults = 0

Fault == faults < MaxFaults /\ faults' = faults + 1

Proceed(a, changes) == op' = [op EXCEPT ![a] = changes]
End(a, verdict) == Proceed(a, [op[a] EXCEPT !.pc = verdict, !.todo = {}])

\* The index follows the table.
Propagate(s) ==
    /\ index' = [index EXCEPT ![s] = status[s]]
    /\ UNCHANGED <<vars, kind, record, op, raced, faults>>

-----------------------------------------------------------------------------
(* Sessions.                                                               *)

\* UpdateItem to "errored" with no condition but that the record exists.
EndSession(s) ==
    /\ status' = [status EXCEPT ![s] = "errored"]
    /\ raced' = IF \E q \in Requests : req[q].at = "write" /\ req[q].session = s
                THEN raced \cup {s} ELSE raced
    /\ UNCHANGED <<expired, req, index, kind, record>>

\* block-user-sessions asks the index for the user's sessions, one page.
BlockQuery(a) ==
    /\ op[a].pc = "idle"
    /\ LET found == {s \in Sessions : index[s] \in Live}
       IN  Proceed(a, [NoOp EXCEPT !.pc = IF found = {} THEN "succeeded" ELSE "block",
                                   !.todo = found, !.found = found])
    /\ UNCHANGED <<vars, index, kind, record, raced, faults>>

\* The next of them; a record that has gone fails the condition.
BlockNext(a) ==
    /\ op[a].pc = "block"
    /\ \E s \in op[a].todo :
         IF status[s] = "none"
         THEN End(a, "failed") /\ UNCHANGED <<vars, index, kind, record, raced>>
         ELSE /\ EndSession(s)
              /\ Proceed(a, [op[a] EXCEPT !.todo = @ \ {s},
                             !.pc = IF op[a].todo = {s} THEN "succeeded" ELSE "block"])
    /\ UNCHANGED faults

\* A faulty variant: a failing update is logged and passed over.
BlockPassesOver(a) ==
    /\ op[a].pc = "block"
    /\ Fault
    /\ \E s \in op[a].todo :
         Proceed(a, [op[a] EXCEPT !.todo = @ \ {s},
                     !.pc = IF op[a].todo = {s} THEN "succeeded" ELSE "block"])
    /\ UNCHANGED <<vars, index, kind, record, raced>>

\* An update fails: the rest is left alone and the operation fails.
BlockFails(a) ==
    /\ op[a].pc = "block"
    /\ Fault
    /\ End(a, "failed")
    /\ UNCHANGED <<vars, index, kind, record, raced>>

\* terminate-session, in one call.
Terminate(a, s) ==
    /\ op[a].pc = "idle"
    /\ Proceed(a, [NoOp EXCEPT !.pc = IF status[s] = "none" THEN "failed" ELSE "succeeded"])
    /\ IF status[s] = "none" THEN UNCHANGED <<vars, index, kind, record, raced>>
                             ELSE EndSession(s)
    /\ UNCHANGED faults

\* kill-streaming-session reads the record, ends the session, publishes an event.
KillRead(a, s) ==
    /\ op[a].pc = "idle"
    /\ Proceed(a, [NoOp EXCEPT !.pc = IF status[s] = "none" THEN "failed" ELSE "kill",
                               !.todo = IF status[s] = "none" THEN {} ELSE {s}])
    /\ UNCHANGED <<vars, index, kind, record, raced, faults>>

KillWrite(a) ==
    /\ op[a].pc = "kill"
    /\ \E s \in op[a].todo :
         IF status[s] = "none"
         THEN End(a, "failed") /\ UNCHANGED <<vars, index, kind, record, raced>>
         ELSE EndSession(s) /\ Proceed(a, [op[a] EXCEPT !.pc = "publish"])
    /\ UNCHANGED faults

\* The event reaches the bus or put_events rejects it; what was written stays.
Publish(a) ==
    /\ op[a].pc = "publish"
    /\ \/ End(a, "succeeded") /\ UNCHANGED faults
       \/ Fault /\ End(a, "failed")
    /\ UNCHANGED <<vars, index, kind, record, raced>>

-----------------------------------------------------------------------------
(* The other operations.                                                   *)

\* An operation of one call, to Batch or to the event bus, which may raise.
Call(a) ==
    /\ op[a].pc = "idle"
    /\ \/ End(a, "succeeded") /\ UNCHANGED faults
       \/ Fault /\ End(a, "failed")
    /\ UNCHANGED <<vars, index, kind, record, raced>>

\* terminate_job; queueing the event is all that a recompute is.
KillBatchJob(a) == Call(a)
ForceBillingRecompute(a) == Call(a)

\* The record is read; there is none, or the update is next.
Look(a, state, seen) ==
    /\ op[a].pc = "idle"
    /\ Proceed(a, [NoOp EXCEPT !.seen = seen,
                               !.pc = IF state = "none" THEN "failed" ELSE "flag"])
    /\ UNCHANGED <<vars, index, kind, record, raced, faults>>

\* The answer says what the record was: was_active, previously_blocked.
RevokeApiKey(a) == kind = "api_key" /\ Look(a, record, record)
BlockTenant(a) == kind = "tenant" /\ Look(a, record, record)

\* An index gives the key of the ingestion, if it has it yet.
ForceFailIngestion(a) ==
    /\ kind = "ingestion"
    /\ \E state \in {record, "none"} : Look(a, state, "none")

\* The update asks only that the record exists, as Look did; none is deleted.
FlagWrite(a) ==
    /\ op[a].pc = "flag"
    /\ record' = "flagged"
    /\ End(a, "succeeded")
    /\ UNCHANGED <<vars, index, kind, raced, faults>>

AdminStep(a) ==
    \/ BlockQuery(a) \/ BlockNext(a) \/ BlockFails(a)
    \/ \E s \in Sessions : Terminate(a, s) \/ KillRead(a, s)
    \/ KillWrite(a) \/ Publish(a)
    \/ KillBatchJob(a) \/ ForceBillingRecompute(a)
    \/ RevokeApiKey(a) \/ BlockTenant(a) \/ ForceFailIngestion(a) \/ FlagWrite(a)

AdminNext ==
    \/ Next /\ UNCHANGED adminVars
    \/ \E s \in Sessions : Propagate(s)
    \/ \E a \in Operators : AdminStep(a)

AdminSpec == AdminInit /\ [][AdminNext]_adminAll

-----------------------------------------------------------------------------
(* Properties.                                                             *)

\* When block-user-sessions has succeeded, no session that the index showed it
\* goes on, except one with a request of its owner already past its check.
BlockTakesHold ==
    \A a \in Operators :
        op[a].pc = "succeeded" => \A s \in op[a].found : status[s] \in Live => s \in raced

\* Of the operations that revoked an API key, or blocked a tenant, one at least
\* reports that it found the record active, however they overlap.
FirstFlagSaysActive ==
    record = "flagged" /\ kind # "ingestion" =>
        \E a \in Operators : op[a].pc = "succeeded" /\ op[a].seen = "active"

-----------------------------------------------------------------------------
(* What docs and comments say, and the code does not do.                   *)

\* "Already-terminated sessions are skipped."
EndedSessionsAreSkipped ==
    [][\A s \in Sessions :
         status[s] = "completed" /\ status'[s] = "errored" =>
             \E q \in Requests : req[q].at = "write" /\ req'[q].at = "idle"]_adminAll
=============================================================================
