---------------------------- MODULE SessionManager ----------------------------
(***************************************************************************)
(* session-manager: session records, changed by concurrent PATCH and       *)
(* DELETE requests that each read the record, then write to it, and        *)
(* deleted by the table's TTL.                                             *)
(*                                                                         *)
(* Requests are the owner's: those of other users end with a 404 at their  *)
(* read.  The table's conditional writes serialize the rest.               *)
(***************************************************************************)
CONSTANTS
    Sessions,  \* session ids, drawn afresh by each POST
    Requests   \* bound: PATCH and DELETE requests at once

VARIABLES
    status,    \* status of a session's record, "none" without one
    expired,   \* history: sessions the TTL has deleted
    req

vars == <<status, expired, req>>

Statuses == {"starting", "active", "paused", "completed", "errored"}

Terminal == {"completed", "errored"}

\* ALLOWED_TRANSITIONS.
AllowedFrom(st) ==
    CASE st = "starting" -> {"active", "errored"}
      [] st = "active"   -> {"paused", "completed", "errored"}
      [] st = "paused"   -> {"active", "completed", "errored"}
      [] OTHER           -> {}

\* What a request asks for: a status, or none (only a GPU instance id).
Wishes == Statuses \cup {"keep"}

Idle == [at : {"idle"}]

\* A request whose read has succeeded, and what it read.
Writing ==
    [at : {"write"}, kind : {"patch", "delete"}, session : Sessions,
     seen : Statuses, wish : Wishes]

TypeOK ==
    /\ status \in [Sessions -> Statuses \cup {"none"}]
    /\ expired \subseteq Sessions
    /\ req \in [Requests -> Idle \cup Writing]

Init ==
    /\ status = [s \in Sessions |-> "none"]
    /\ expired = {}
    /\ req = [q \in Requests |-> [at |-> "idle"]]

\* POST /sessions.
CreateSession(s) ==
    /\ status[s] = "none" /\ s \notin expired
    /\ status' = [status EXCEPT ![s] = "starting"]
    /\ UNCHANGED <<expired, req>>

StartWriting(q, kind, s, wish) ==
    req' = [req EXCEPT ![q] = [at |-> "write", kind |-> kind, session |-> s,
                               seen |-> status[s], wish |-> wish]]

\* A faulty variant: any status may be asked for.
AnyWish(st, wish) == TRUE

\* The check of update_session; a request that fails it is answered 409.
WishIsAllowed(st, wish) == wish = "keep" \/ wish \in AllowedFrom(st)

\* PATCH /sessions/{id} up to its write.
ReadForPatch(q, s, wish) ==
    /\ req[q].at = "idle"
    /\ status[s] # "none"
    /\ WishIsAllowed(status[s], wish)
    /\ StartWriting(q, "patch", s, wish)
    /\ UNCHANGED <<status, expired>>

\* DELETE /sessions/{id} up to its write; from a terminal status too.
ReadForDelete(q, s) ==
    /\ req[q].at = "idle"
    /\ status[s] # "none"
    /\ StartWriting(q, "delete", s, "errored")
    /\ UNCHANGED <<status, expired>>

\* A faulty variant: an update without a condition.
UpdateAlways(s) == TRUE

\* SessionStore.update asks for the record once more, and for its owner in
\* the ConditionExpression of the write; never for its status.
UpdateCondition(s) == status[s] # "none"

\* The write, or a 404; the request ends.
Write(q) ==
    /\ req[q].at = "write"
    /\ LET r == req[q]
       IN  status' = IF UpdateCondition(r.session) /\ r.wish # "keep"
                     THEN [status EXCEPT ![r.session] = r.wish]
                     ELSE status
    /\ req' = [req EXCEPT ![q] = [at |-> "idle"]]
    /\ UNCHANGED expired

\* The request is lost between its read and its write.
RequestDies(q) ==
    /\ req[q].at = "write"
    /\ req' = [req EXCEPT ![q] = [at |-> "idle"]]
    /\ UNCHANGED <<status, expired>>

\* DynamoDB deletes the record, eight hours after its creation or once it is
\* soft-deleted: in any status.
Expire(s) ==
    /\ status[s] # "none"
    /\ status' = [status EXCEPT ![s] = "none"]
    /\ expired' = expired \cup {s}
    /\ UNCHANGED req

Next ==
    \/ \E s \in Sessions : CreateSession(s) \/ Expire(s)
    \/ \E q \in Requests, s \in Sessions :
         \/ ReadForDelete(q, s)
         \/ \E wish \in Wishes : ReadForPatch(q, s, wish)
    \/ \E q \in Requests : Write(q) \/ RequestDies(q)

Spec == Init /\ [][Next]_vars

-----------------------------------------------------------------------------
(* Properties.                                                             *)

\* An update that comes late never brings an expired session back.
NoResurrection == \A s \in expired : status[s] = "none"

\* A status moves against ALLOWED_TRANSITIONS only by a DELETE, or by a PATCH
\* that was overtaken by another write after its read.
IllegalMovesAreRaces ==
    [][\A s \in Sessions :
         /\ status[s] # "none" /\ status'[s] # "none"
         /\ status'[s] \notin AllowedFrom(status[s]) \cup {status[s]}
         => \E q \in Requests :
              /\ req[q].at = "write" /\ req'[q].at = "idle"
              /\ req[q].session = s
              /\ req[q].kind = "delete" \/ req[q].seen # status[s]]_vars

-----------------------------------------------------------------------------
(* What the documentation says, and the code does not do.                  *)

\* "`completed` and `errored` are terminal": no PATCH takes a session out of
\* them; a DELETE may still set "errored", as its docstring says.
TerminalIsFinal ==
    [][\A s \in Sessions :
         status[s] \in Terminal => status'[s] \in {status[s], "errored", "none"}]_vars
=============================================================================
