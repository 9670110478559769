-------------------------- MODULE FramePool_proofs --------------------------
(***************************************************************************)
(* Proofs about the claim protocol, for any number of pool rows, sessions  *)
(* and concurrent executions of the spawn callback.                        *)
(***************************************************************************)
EXTENDS FramePool, TLAPS

\* The inductive invariant: the claims TLC checks hold together, and none of
\* the last three is inductive without the others.
IInv == TypeOK /\ SlotIsMine /\ ExclusiveSlot /\ HandedOverStaysClaimed

\* The protocol starts with an empty table and no claimer in the code.
LEMMA InitEstablishesIInv == Init => IInv
BY FramePoolAssumption
   DEF Init, IInv, TypeOK, SlotIsMine, ExclusiveSlot, HandedOverStaysClaimed,
       Pcs, WithSlot

\* Every step of every claimer keeps the inductive invariant.
LEMMA StepKeepsIInv == IInv /\ [Next]_vars => IInv'
<1> SUFFICES ASSUME IInv, [Next]_vars PROVE IInv'
  OBVIOUS
<1> USE FramePoolAssumption
        DEF IInv, TypeOK, SlotIsMine, ExclusiveSlot, HandedOverStaysClaimed,
            Pcs, WithSlot
<1>1. ASSUME NEW c \in Claimers, NEW s \in Sessions, BeginClaim(c, s)
      PROVE  IInv'
  BY <1>1 DEF BeginClaim
<1>2. ASSUME NEW c \in Claimers, Scan(c) PROVE IInv'
  BY <1>2 DEF Scan, Finish, ScanUnclaimed
<1>3. ASSUME NEW c \in Claimers, NEW p \in Pools, TryCandidate(c, p)
      PROVE  IInv'
  BY <1>3 DEF TryCandidate, Remaining, ClaimCondition
<1>4. ASSUME NEW c \in Claimers, NEW p \in Pools, ClaimUnacknowledged(c, p)
      PROVE  IInv'
  BY <1>4 DEF ClaimUnacknowledged, Finish, ClaimCondition
<1>5. ASSUME NEW c \in Claimers, Exhausted(c) \/ Abort(c) PROVE IInv'
  BY <1>5 DEF Exhausted, Abort, Finish
<1>6. ASSUME NEW c \in Claimers, FetchQueueUrl(c) PROVE IInv'
  BY <1>6 DEF FetchQueueUrl
<1>7. ASSUME NEW c \in Claimers, Drain(c) \/ BeginRelease(c) PROVE IInv'
  BY <1>7 DEF Drain, BeginRelease
<1>8. ASSUME NEW c \in Claimers, HandOver(c) PROVE IInv'
  BY <1>8 DEF HandOver, Finish
<1>9. ASSUME NEW c \in Claimers, UndoClaim(c) PROVE IInv'
  BY <1>9 DEF UndoClaim, ReleaseWrite, ReleaseCondition
<1>10. ASSUME NEW c \in Claimers, Release(c) PROVE IInv'
  BY <1>10 DEF Release, ReleaseWrite, ReleaseCondition, Finish
<1>11. ASSUME NEW p \in Pools, CatchUp(p) PROVE IInv'
  BY <1>11 DEF CatchUp
<1>12. CASE UNCHANGED vars
  BY <1>12 DEF vars
<1> QED
  BY <1>1, <1>2, <1>3, <1>4, <1>5, <1>6, <1>7, <1>8, <1>9, <1>10, <1>11,
     <1>12 DEF Next, Step

\* IInv holds in every reachable state of the protocol.
THEOREM Invariance == Spec => []IInv
<1>1. Init => IInv
  BY InitEstablishesIInv
<1>2. IInv /\ [Next]_vars => IInv'
  BY StepKeepsIInv
<1> QED
  BY <1>1, <1>2, PTL DEF Spec

\* Every local of every execution of the callback is bound where it is used.
THEOREM TypeCorrectness == Spec => []TypeOK
BY Invariance, PTL DEF IInv

\* The row a claimer works on is its session's until it lets go of it, no two
\* executions work on the same row, and the queue of a launched instance is
\* never freed by another execution.
THEOREM SlotSafety == Spec => []SlotsStayClaimed
<1>1. IInv => SlotsStayClaimed
  BY DEF IInv, SlotsStayClaimed
<1> QED
  BY <1>1, Invariance, PTL

-----------------------------------------------------------------------------
(* The protocol implements one-step grants of exclusive slots.             *)

\* A step of the claim protocol is a step of SlotOwnership or changes neither
\* the table's owners nor what the claimers hold.
LEMMA StepRefines == IInv /\ [Next]_vars => [Ownership!Next]_Ownership!vars
<1> SUFFICES ASSUME IInv, [Next]_vars
             PROVE  Ownership!Next \/ UNCHANGED Ownership!vars
  OBVIOUS
<1> USE FramePoolAssumption DEF IInv, TypeOK, Pcs, WithSlot, Ownership!vars
<1>1. ASSUME NEW c \in Claimers,
             \/ \E s \in Sessions : BeginClaim(c, s)
             \/ Scan(c) \/ Exhausted(c)
             \/ FetchQueueUrl(c) \/ Drain(c) \/ BeginRelease(c)
      PROVE  UNCHANGED Ownership!vars
  BY <1>1 DEF BeginClaim, Scan, Exhausted, FetchQueueUrl, Drain, BeginRelease,
              Finish
<1>2. ASSUME NEW c \in Claimers, NEW p \in Pools, TryCandidate(c, p)
      PROVE  Ownership!Next \/ UNCHANGED Ownership!vars
  <2>1. CASE ClaimCondition(p)
    <3>1. Ownership!Acquire(c, p, sid[c])
      BY <1>2, <2>1 DEF TryCandidate, ClaimCondition, Ownership!Acquire
    <3>2. sid[c] \in Sessions
      BY <1>2 DEF TryCandidate
    <3> QED
      BY <3>1, <3>2 DEF Ownership!Next
  <2>2. CASE ~ClaimCondition(p)
    BY <1>2, <2>2 DEF TryCandidate
  <2> QED
    BY <2>1, <2>2
<1>3. ASSUME NEW c \in Claimers, NEW p \in Pools, ClaimUnacknowledged(c, p)
      PROVE  Ownership!Next
  <2>1. Ownership!AcquireUnnoticed(p, sid[c])
    BY <1>3 DEF ClaimUnacknowledged, Finish, ClaimCondition,
                Ownership!AcquireUnnoticed
  <2>2. sid[c] \in Sessions
    BY <1>3 DEF ClaimUnacknowledged
  <2> QED
    BY <2>1, <2>2 DEF Ownership!Next
<1>4. ASSUME NEW c \in Claimers, HandOver(c) \/ Abort(c)
      PROVE  Ownership!LeaveOwned(c) \/ UNCHANGED Ownership!vars
  BY <1>4 DEF HandOver, Abort, Finish, Ownership!LeaveOwned
<1>5. ASSUME NEW c \in Claimers, UndoClaim(c) \/ Release(c)
      PROVE  Ownership!GiveBack(c) \/ Ownership!LeaveOwned(c)
  BY <1>5 DEF UndoClaim, Release, ReleaseWrite, Finish,
              Ownership!GiveBack, Ownership!LeaveOwned
<1>6. ASSUME NEW p \in Pools, CatchUp(p) PROVE UNCHANGED Ownership!vars
  BY <1>6 DEF CatchUp
<1>7. CASE UNCHANGED vars
  BY <1>7 DEF vars
<1> QED
  BY <1>1, <1>2, <1>3, <1>4, <1>5, <1>6, <1>7 DEF Next, Step, Ownership!Next

\* pool_claim.py's protocol implements SlotOwnership: a caller may reason as
\* if a claim were one atomic grant made at the conditional write.
THEOREM Refinement == Spec => GrantsAreAtomic
<1>1. Init => Ownership!Init
  BY DEF Init, Ownership!Init
<1>2. IInv /\ [Next]_vars => [Ownership!Next]_Ownership!vars
  BY StepRefines
<1> QED
  BY <1>1, <1>2, Invariance, PTL DEF Spec, GrantsAreAtomic, Ownership!Spec
=============================================================================
