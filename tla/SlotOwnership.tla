---------------------------- MODULE SlotOwnership ----------------------------
(***************************************************************************)
(* What the frame-queue pool promises to the spawn path, whatever the      *)
(* interleaving: a slot is granted in one step, to one claimer, for one    *)
(* session, and only while nobody owns it; only the claimer holding the    *)
(* grant can make the slot free again.  A grant that is given up without   *)
(* freeing the slot leaves it owned: nothing in the service frees it later.*)
(* FramePool, the protocol of pool_claim.py, implements this.              *)
(***************************************************************************)
CONSTANTS
    Pools,      \* pool rows, one per pre-allocated SQS queue
    Sessions,   \* streaming sessions (WebSocket connection ids)
    Claimers,   \* concurrent executions of the spawn callback
    NoSession,
    NoPool

VARIABLES
    owner,      \* [Pools -> Sessions \cup {NoSession}]
    grant       \* [Claimers -> Pools \cup {NoPool}]

vars == <<owner, grant>>

Init ==
    /\ owner = [p \in Pools |-> NoSession]
    /\ grant = [c \in Claimers |-> NoPool]

\* A free slot becomes owned by s and granted to c.
Acquire(c, p, s) ==
    /\ grant[c] = NoPool
    /\ owner[p] = NoSession
    /\ owner' = [owner EXCEPT ![p] = s]
    /\ grant' = [grant EXCEPT ![c] = p]

\* A free slot becomes owned by s, but the claimer never learns of it.
AcquireUnnoticed(p, s) ==
    /\ owner[p] = NoSession
    /\ owner' = [owner EXCEPT ![p] = s]
    /\ UNCHANGED grant

\* The claimer holding a slot frees it.
GiveBack(c) ==
    /\ grant[c] # NoPool
    /\ owner' = [owner EXCEPT ![grant[c]] = NoSession]
    /\ grant' = [grant EXCEPT ![c] = NoPool]

\* The claimer holding a slot stops caring for it; the slot stays owned.
LeaveOwned(c) ==
    /\ grant[c] # NoPool
    /\ grant' = [grant EXCEPT ![c] = NoPool]
    /\ UNCHANGED owner

Next ==
    \/ \E c \in Claimers, p \in Pools, s \in Sessions : Acquire(c, p, s)
    \/ \E p \in Pools, s \in Sessions : AcquireUnnoticed(p, s)
    \/ \E c \in Claimers : GiveBack(c) \/ LeaveOwned(c)

Spec == Init /\ [][Next]_vars
=============================================================================
