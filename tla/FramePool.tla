------------------------------ MODULE FramePool ------------------------------
(***************************************************************************)
(* The drain-then-claim protocol of gpu-spawner's pool_claim.py: a table   *)
(* with one row per pre-allocated frame queue, claimed by conditional      *)
(* DynamoDB writes from concurrent executions of the spawn callback.       *)
(*                                                                         *)
(* A claimer is one execution of spawn_callback.  There may be several at  *)
(* once: two tasks of the service during a deployment, or a spawn message  *)
(* whose visibility timeout ended while its first execution still runs     *)
(* (then both work for the same session).                                  *)
(*                                                                         *)
(* Abstracted: the age of residual frames and the batches of the drain;    *)
(* the shuffle of the candidates is the free choice of the next one.       *)
(***************************************************************************)
CONSTANTS
    Pools,      \* pool rows, one per queue (32 in the deployment)
    Sessions,   \* session ids the callback is run for
    Claimers,   \* concurrent executions of the callback
    NoUrl,      \* rows whose queue_url attribute is missing or empty
    NoSession,
    NoPool

ASSUME FramePoolAssumption ==
    /\ NoUrl \subseteq Pools
    /\ NoSession \notin Sessions
    /\ NoPool \notin Pools

VARIABLES
    claimed_by, \* the table: [Pools -> Sessions \cup {NoSession}]
    lagging,    \* rows whose last write an eventually consistent scan may miss
    pc,         \* where each claimer is
    sid,        \* the session each claimer works for
    candidates, \* rows left to try, from the claimer's scan
    slot,       \* the row each claimer has claimed and not let go of
    handed      \* history: the session whose instance was launched on a row

vars == <<claimed_by, lagging, pc, sid, candidates, slot, handed>>

Pcs == {"idle", "scan", "try", "fetch", "undo", "drain", "held", "release"}

\* Points of claim() and of the callback at which the claimer has a row.
WithSlot == {"fetch", "undo", "drain", "held", "release"}

\* Each variable has its type, and the code's locals are bound where it
\* uses them: a row exactly at the points after a claim, a session id from
\* the call on.
TypeOK ==
    /\ claimed_by \in [Pools -> Sessions \cup {NoSession}]
    /\ lagging \subseteq Pools
    /\ pc \in [Claimers -> Pcs]
    /\ sid \in [Claimers -> Sessions \cup {NoSession}]
    /\ candidates \in [Claimers -> SUBSET Pools]
    /\ slot \in [Claimers -> Pools \cup {NoPool}]
    /\ handed \in [Pools -> Sessions \cup {NoSession}]
    /\ \A c \in Claimers :
         /\ slot[c] # NoPool <=> pc[c] \in WithSlot
         /\ pc[c] # "idle" => sid[c] \in Sessions

Init ==
    /\ claimed_by = [p \in Pools |-> NoSession]
    /\ lagging = {}
    /\ pc = [c \in Claimers |-> "idle"]
    /\ sid = [c \in Claimers |-> NoSession]
    /\ candidates = [c \in Claimers |-> {}]
    /\ slot = [c \in Claimers |-> NoPool]
    /\ handed = [p \in Pools |-> NoSession]

-----------------------------------------------------------------------------
(* Conditions of the two conditional writes, and faulty variants of them.  *)

ClaimAlways(p) == TRUE

\* ConditionExpression of the claim: attribute_not_exists(claimed_by).
ClaimCondition(p) == claimed_by[p] = NoSession

\* ConditionExpression of the release: claimed_by = :sid.
ReleaseCondition(p, s) == claimed_by[p] = s

\* Rows a scan that misses the last write of `missed` reports as unclaimed.
\* Claims and releases alternate on a row, so missing one flips the answer.
ScanUnclaimed(missed) == {p \in Pools : ClaimCondition(p) # (p \in missed)}

-----------------------------------------------------------------------------

\* What is left of a claimer once its execution is over, however it ended.
Finish(c) ==
    /\ pc' = [pc EXCEPT ![c] = "idle"]
    /\ sid' = [sid EXCEPT ![c] = NoSession]
    /\ candidates' = [candidates EXCEPT ![c] = {}]
    /\ slot' = [slot EXCEPT ![c] = NoPool]

\* The spawn callback calls claim(session_id).
BeginClaim(c, s) ==
    /\ pc[c] = "idle"
    /\ pc' = [pc EXCEPT ![c] = "scan"]
    /\ sid' = [sid EXCEPT ![c] = s]
    /\ UNCHANGED <<claimed_by, lagging, candidates, slot, handed>>

\* The scan; without a candidate claim() raises PoolExhaustedError.
Scan(c) ==
    /\ pc[c] = "scan"
    /\ \E missed \in SUBSET lagging :
         IF ScanUnclaimed(missed) = {}
         THEN Finish(c)
         ELSE /\ candidates' = [candidates EXCEPT ![c] = ScanUnclaimed(missed)]
              /\ pc' = [pc EXCEPT ![c] = "try"]
              /\ UNCHANGED <<sid, slot>>
    /\ UNCHANGED <<claimed_by, lagging, handed>>

\* The for loop moves past the candidate it has tried.
Remaining(c, p) == candidates[c] \ {p}

\* The conditional write on the next candidate: won, or lost to another claim.
TryCandidate(c, p) ==
    /\ pc[c] = "try"
    /\ p \in candidates[c]
    /\ candidates' = [candidates EXCEPT ![c] = Remaining(c, p)]
    /\ IF ClaimCondition(p)
       THEN /\ claimed_by' = [claimed_by EXCEPT ![p] = sid[c]]
            /\ lagging' = lagging \cup {p}
            /\ slot' = [slot EXCEPT ![c] = p]
            /\ pc' = [pc EXCEPT ![c] = "fetch"]
       ELSE UNCHANGED <<claimed_by, lagging, slot, pc>>
    /\ UNCHANGED <<sid, handed>>

\* The write took effect but the client saw an error that is not the
\* condition's (a timeout, say): claim() raises and nobody knows of the claim.
ClaimUnacknowledged(c, p) ==
    /\ pc[c] = "try"
    /\ p \in candidates[c]
    /\ ClaimCondition(p)
    /\ claimed_by' = [claimed_by EXCEPT ![p] = sid[c]]
    /\ lagging' = lagging \cup {p}
    /\ Finish(c)
    /\ UNCHANGED handed

\* Every candidate was lost: PoolExhaustedError.
Exhausted(c) ==
    /\ pc[c] = "try"
    /\ candidates[c] = {}
    /\ Finish(c)
    /\ UNCHANGED <<claimed_by, lagging, handed>>

\* Read the claimed row's queue_url; a row without one is let go of.
FetchQueueUrl(c) ==
    /\ pc[c] = "fetch"
    /\ pc' = [pc EXCEPT ![c] = IF slot[c] \in NoUrl THEN "undo" ELSE "drain"]
    /\ UNCHANGED <<claimed_by, lagging, sid, candidates, slot, handed>>

\* The bounded drain ends and claim() returns the slot.
Drain(c) ==
    /\ pc[c] = "drain"
    /\ pc' = [pc EXCEPT ![c] = "held"]
    /\ UNCHANGED <<claimed_by, lagging, sid, candidates, slot, handed>>

HandOverThenRelease(c) ==
    /\ pc[c] = "held"
    /\ handed' = [handed EXCEPT ![slot[c]] = sid[c]]
    /\ claimed_by' = [claimed_by EXCEPT ![slot[c]] = NoSession]
    /\ Finish(c)
    /\ UNCHANGED lagging

\* RunInstances succeeded: the callback returns and the instance has the slot.
HandOver(c) ==
    /\ pc[c] = "held"
    /\ handed' = [handed EXCEPT ![slot[c]] = sid[c]]
    /\ Finish(c)
    /\ UNCHANGED <<claimed_by, lagging>>

\* Stamping the session row or RunInstances failed: the callback releases.
BeginRelease(c) ==
    /\ pc[c] = "held"
    /\ pc' = [pc EXCEPT ![c] = "release"]
    /\ UNCHANGED <<claimed_by, lagging, sid, candidates, slot, handed>>

\* The conditional write of release(); losing the condition is a no-op.
ReleaseWrite(c) ==
    IF ReleaseCondition(slot[c], sid[c])
    THEN /\ claimed_by' = [claimed_by EXCEPT ![slot[c]] = NoSession]
         /\ lagging' = lagging \cup {slot[c]}
    ELSE UNCHANGED <<claimed_by, lagging>>

\* release() of a row without a queue_url: claim() goes on to the next one.
UndoClaim(c) ==
    /\ pc[c] = "undo"
    /\ ReleaseWrite(c)
    /\ slot' = [slot EXCEPT ![c] = NoPool]
    /\ pc' = [pc EXCEPT ![c] = "try"]
    /\ UNCHANGED <<sid, candidates, handed>>

\* release() from the callback, which then raises; so does an UndoClaim
\* whose write took effect but was not acknowledged.
Release(c) ==
    /\ pc[c] \in {"undo", "release"}
    /\ ReleaseWrite(c)
    /\ Finish(c)
    /\ UNCHANGED handed

\* Any AWS call raises before taking effect, or the task is stopped: the
\* execution ends where it is.  The claimed row, if any, stays claimed.
Abort(c) ==
    /\ pc[c] # "idle"
    /\ Finish(c)
    /\ UNCHANGED <<claimed_by, lagging, handed>>

\* The replicas a scan reads have caught up with the last write of p.
CatchUp(p) ==
    /\ p \in lagging
    /\ lagging' = lagging \ {p}
    /\ UNCHANGED <<claimed_by, pc, sid, candidates, slot, handed>>

\* One step of the code of claimer c, the choice of a candidate included.
Step(c) ==
    \/ Scan(c)
    \/ \E p \in Pools : TryCandidate(c, p)
    \/ Exhausted(c)
    \/ FetchQueueUrl(c)
    \/ Drain(c)
    \/ HandOver(c)
    \/ BeginRelease(c)
    \/ UndoClaim(c)
    \/ Release(c)

Next ==
    \/ \E c \in Claimers, s \in Sessions : BeginClaim(c, s)
    \/ \E c \in Claimers : Step(c)
    \/ \E c \in Claimers, p \in Pools : ClaimUnacknowledged(c, p)
    \/ \E c \in Claimers : Abort(c)
    \/ \E p \in Pools : CatchUp(p)

Spec == Init /\ [][Next]_vars

-----------------------------------------------------------------------------
(* Properties.                                                             *)

\* Between the conditional write and the end of the callback, the row a
\* claimer works on is claimed by its session: no other execution, not even
\* a duplicate for the same session, releases it underneath.
SlotIsMine ==
    \A c \in Claimers :
        pc[c] \in WithSlot => claimed_by[slot[c]] = sid[c]

\* Two executions never work on the same queue at once, so none drains the
\* frames of another, even when both run for the same session.
ExclusiveSlot ==
    \A c, d \in Claimers :
        c # d /\ slot[c] # NoPool => slot[c] # slot[d]

\* The queue of a launched instance stays claimed for the session it was
\* launched for, and no execution has it in hand any more: a late failure
\* of a duplicate or stale execution of the callback does not free it.
HandedOverStaysClaimed ==
    \A p \in Pools :
        handed[p] # NoSession =>
            /\ claimed_by[p] = handed[p]
            /\ \A c \in Claimers : slot[c] # p

\* What a session got is its own, from the conditional write on: in the hands
\* of the one execution that works on it, and of its instance afterwards.
SlotsStayClaimed == SlotIsMine /\ ExclusiveSlot /\ HandedOverStaysClaimed

\* The fine-grained protocol implements one-step grants of exclusive slots:
\* the conditional write is where the grant happens.
Ownership == INSTANCE SlotOwnership WITH owner <- claimed_by, grant <- slot
GrantsAreAtomic == Ownership!Spec
=============================================================================
