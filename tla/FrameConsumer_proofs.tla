------------------------ MODULE FrameConsumer_proofs ------------------------
(***************************************************************************)
(* Proofs about the reorder buffer, for any number of frames, any set of   *)
(* duplicates and any interleaving with the queue, the clock and stop().   *)
(***************************************************************************)
EXTENDS FrameConsumer, TLAPS

InLoop == pc \notin {"drain", "done"}

\* While the main loop runs, and until a busy skip moves next_seq alone,
\* next_seq follows the seq yielded last, except just before a frame that
\* starts the stream or follows a skipped gap.
NextIsInStep ==
    ~busySkip /\ InLoop /\ next_seq # None =>
        \/ next_seq = yielded_up_to + 1
        \/ pc \in {"flush", "skip_flush"} /\ next_seq \in pending

\* Without a busy skip, nothing buffered is behind next_seq or behind a
\* frame that has been yielded, and yielded_up_to is the greatest of these.
BufferInOrder ==
    ~busySkip =>
        /\ InLoop /\ next_seq # None => \A m \in pending : next_seq <= m
        /\ \A m \in pending, i \in 1 .. Len(out) : out[i] < m
        /\ \A m \in pending : yielded_up_to < m
        /\ InLoop => \A i \in 1 .. Len(out) : out[i] <= yielded_up_to

\* The inductive invariant behind the order of the stream.
IInv == TypeOK /\ NextIsInStep /\ BufferInOrder /\ AscendingUnlessBusySkip

\* Yielding a frame beyond all those yielded keeps the stream ascending.
LEMMA AppendAscending ==
    ASSUME NEW s \in Seq(Int), NEW m \in Int,
           \A i, j \in 1 .. Len(s) : i < j => s[i] < s[j],
           \A i \in 1 .. Len(s) : s[i] < m
    PROVE  \A i, j \in 1 .. Len(Append(s, m)) :
             i < j => Append(s, m)[i] < Append(s, m)[j]
OBVIOUS

\* The generator starts with an empty buffer and an empty stream.
LEMMA InitEstablishesIInv == Init => IInv
<1> SUFFICES ASSUME Init PROVE IInv
  OBVIOUS
<1>1. Len(out) = 0
  BY DEF Init
<1>2. out \in Seq(sent \cap Seqs)
  BY DEF Init
<1>3. TypeOK
  BY FrameConsumerAssumption, <1>2 DEF Init, TypeOK, Pcs, None
<1>4. NextIsInStep /\ BufferInOrder /\ AscendingUnlessBusySkip
  BY <1>1 DEF Init, NextIsInStep, BufferInOrder, AscendingUnlessBusySkip,
              Ascending
<1> QED
  BY <1>3, <1>4 DEF IInv

\* A skip moves next_seq to the oldest frame in the buffer.
LEMMA SkipGapReachesOldest ==
    ASSUME TypeOK, SkipGap
    PROVE  /\ next_seq' \in pending
           /\ \A k \in pending : next_seq' <= k
           /\ gap' = "none"
           /\ jumped' \subseteq Seqs
BY DEF TypeOK, SkipGap, IsOldest

\* Steps outside the generator leave the buffer and the stream alone.
LEMMA EnvironmentKeepsIInv ==
    IInv /\ (\/ \E m \in Messages : Send(m) \/ Reappear(m)
             \/ GapElapses \/ Stop \/ ReceiveFails) => IInv'
<1> USE FrameConsumerAssumption
        DEF IInv, TypeOK, NextIsInStep, BufferInOrder, InLoop, Pcs, None,
            AscendingUnlessBusySkip, Ascending, Messages,
            envVars, bufVars, histVars
<1>1. ASSUME IInv, NEW m \in Messages, Send(m) PROVE IInv'
  BY <1>1 DEF Send
<1>2. ASSUME IInv, NEW m \in Messages, Reappear(m) PROVE IInv'
  BY <1>2 DEF Reappear
<1>3. ASSUME IInv, GapElapses \/ Stop \/ ReceiveFails PROVE IInv'
  BY <1>3 DEF GapElapses, Stop, ReceiveFails
<1> QED
  BY <1>1, <1>2, <1>3

\* Every step of the generator keeps the inductive invariant.
LEMMA RunKeepsIInv == IInv /\ Run => IInv'
<1> SUFFICES ASSUME IInv, Run PROVE IInv'
  OBVIOUS
<1> USE FrameConsumerAssumption
        DEF IInv, TypeOK, NextIsInStep, BufferInOrder, InLoop, Pcs, None, Seqs,
            AscendingUnlessBusySkip, Ascending, envVars, bufVars, histVars
<1>1. ASSUME Poll \/ EndSkipFlush \/ ReturnAfterYield \/ LeaveLoop \/ Finish
      PROVE  IInv'
  BY <1>1 DEF Poll, EndSkipFlush, ReturnAfterYield, LeaveLoop, Finish
<1>2. CASE ReceiveNothing
  <2>1. CASE SkipGap /\ pc' = "skip_flush"
    BY <1>2, <2>1, SkipGapReachesOldest DEF ReceiveNothing
  <2>2. CASE UNCHANGED <<next_seq, jumped>> /\ pc' = "loop"
    BY <1>2, <2>2 DEF ReceiveNothing, StartOrKeepWaiting
  <2> QED
    BY <1>2, <2>1, <2>2 DEF ReceiveNothing
<1>3. ASSUME NEW batch \in SUBSET queue, ReceiveBatch(batch) PROVE IInv'
  BY <1>3 DEF ReceiveBatch, Fresh, Yielded
<1>4. ASSUME NEW m \in payloads, YieldPayload(m) PROVE IInv'
  BY <1>4 DEF YieldPayload
<1>5. CASE BeginFlush
  BY <1>5 DEF BeginFlush, IsOldest
<1>6. CASE YieldNext
  <2>1. next_seq \in sent \cap Seqs
    BY <1>6 DEF YieldNext
  <2>2. out' = Append(out, next_seq) /\ out \in Seq(sent \cap Seqs)
    BY <1>6 DEF YieldNext
  <2>3. out' \in Seq(sent' \cap Seqs)
    BY <1>6, <2>1, <2>2 DEF YieldNext
  <2>4. TypeOK'
    BY <1>6, <2>1, <2>3 DEF YieldNext
  <2>5. NextIsInStep'
    BY <1>6, <2>1 DEF YieldNext
  <2>6. ASSUME ~busySkip PROVE BufferInOrder' /\ Ascending'
    <3>1. InLoop /\ next_seq # None /\ out \in Seq(Int) /\ next_seq \in Int
      BY <1>6, <2>1 DEF YieldNext
    <3>2. \A i \in 1 .. Len(out) : out[i] < next_seq
      BY <1>6, <2>6 DEF YieldNext
    <3>3. Ascending'
      BY <2>2, <2>6, <3>1, <3>2, AppendAscending
    <3>4. \A m \in pending' : next_seq < m /\ next_seq' <= m
      BY <1>6, <2>1, <2>6, <3>1 DEF YieldNext
    <3>5. \A i \in 1 .. Len(out') : out'[i] <= next_seq
      BY <2>1, <2>2, <3>1, <3>2
    <3>6. \A m \in pending', i \in 1 .. Len(out') : out'[i] < m
      <4>1. SUFFICES ASSUME NEW m \in pending', NEW i \in 1 .. Len(out')
                     PROVE  out'[i] < m
        OBVIOUS
      <4>2. next_seq < m /\ out'[i] <= next_seq
        BY <3>4, <3>5
      <4>3. m \in Int /\ out'[i] \in Int /\ next_seq \in Int
        BY <1>6, <2>1, <2>3 DEF YieldNext
      <4> QED
        BY <4>2, <4>3
    <3>7. yielded_up_to' = next_seq
      BY <1>6 DEF YieldNext
    <3> QED
      BY <3>3, <3>4, <3>5, <3>6, <3>7
  <2>7. busySkip' = busySkip
    BY <1>6 DEF YieldNext
  <2> QED
    BY <2>4, <2>5, <2>6, <2>7
<1>7. CASE EndFlush
  <2>1. CASE pending # {} /\ gap = "elapsed"
    <3>1. SkipGap /\ busySkip' = TRUE
      BY <1>7, <2>1 DEF EndFlush
    <3>2. /\ next_seq' \in Seqs
          /\ gap' = "none"
          /\ jumped' \subseteq Seqs
      BY <3>1, SkipGapReachesOldest
    <3>3. UNCHANGED <<sent, queue, hidden, flaky, stopped, payloads, pending,
                      yielded_up_to, out, shed>>
      BY <1>7 DEF EndFlush
    <3>4. pc' = "loop" /\ suspended' = FALSE
      BY <1>7 DEF EndFlush
    <3>5. suspended' \in BOOLEAN /\ stopped' \in BOOLEAN /\ busySkip' \in BOOLEAN
      BY <3>1, <3>3, <3>4
    <3>6. next_seq' # None
      BY <3>2
    <3>7. TypeOK'
      BY <3>2, <3>3, <3>4, <3>5, <3>6
    <3> QED
      BY <3>1, <3>7
  <2>2. CASE pending = {} \/ gap # "elapsed"
    <3>1. UNCHANGED <<next_seq, jumped, busySkip, pending, out, yielded_up_to>>
      BY <1>7, <2>2 DEF EndFlush
    <3>2. gap' \in {"none", "waiting", "elapsed"}
      BY <1>7, <2>2 DEF EndFlush, StartOrKeepWaiting
    <3>3. TypeOK'
      BY <1>7, <3>1, <3>2 DEF EndFlush
    <3>4. pc = "flush" /\ pc' = "loop" /\ next_seq \notin pending
      BY <1>7 DEF EndFlush
    <3>5. NextIsInStep' /\ BufferInOrder' /\ AscendingUnlessBusySkip'
      BY <3>1, <3>4
    <3> QED
      BY <3>3, <3>5
  <2> QED
    BY <2>1, <2>2
<1>8. CASE YieldRemaining
  BY <1>8, AppendAscending DEF YieldRemaining, IsOldest
<1> QED
  BY <1>1, <1>2, <1>3, <1>4, <1>5, <1>6, <1>7, <1>8 DEF Run

\* IInv holds in every reachable state of the consumer.
THEOREM Invariance == Spec => []IInv
<1>1. Init => IInv
  BY InitEstablishesIInv
<1>2. IInv /\ [Next]_vars => IInv'
  <2>1. CASE UNCHANGED vars
    BY <2>1 DEF vars, envVars, bufVars, histVars, IInv, TypeOK, NextIsInStep,
                BufferInOrder, InLoop, AscendingUnlessBusySkip, Ascending
  <2> QED
    BY <2>1, EnvironmentKeepsIInv, RunKeepsIInv DEF Next
<1> QED
  BY <1>1, <1>2, PTL DEF Spec

\* The locals of frames() keep their types; in particular next_seq stays
\* known once a frame has been yielded.
THEOREM TypeCorrectness == Spec => []TypeOK
BY Invariance, PTL DEF IInv

\* Frames reach the recogniser in seq order, once each, until a gap is
\* skipped after a non-empty batch.
THEOREM StreamOrder == Spec => []AscendingUnlessBusySkip
BY Invariance, PTL DEF IInv

\* Until then, no frame in the buffer is behind the stream or already in it.
THEOREM BufferOrder == Spec => []BufferIsAhead
<1>1. IInv => BufferIsAhead
  <2> SUFFICES ASSUME IInv, ~busySkip, NEW m \in pending
               PROVE  m > yielded_up_to /\ m \notin Yielded
    BY DEF BufferIsAhead
  <2>1. m \in Int /\ yielded_up_to \in Int /\ out \in Seq(Int)
    BY FrameConsumerAssumption DEF IInv, TypeOK, Seqs, None
  <2>2. yielded_up_to < m /\ \A i \in 1 .. Len(out) : out[i] < m
    BY DEF IInv, BufferInOrder
  <2> QED
    BY <2>1, <2>2 DEF Yielded
<1> QED
  BY <1>1, Invariance, PTL

-----------------------------------------------------------------------------
(* What happens to frames that are received and not yielded.               *)

\* A frame is with the recogniser, or given up on, or older than the stream.
Accounted(k) == k \in Yielded \/ k \in jumped \/ (out # <<>> /\ k < out[1])

\* Everything up to the frame yielded last is accounted for, and, once the
\* stream has begun, everything before the frame the main loop wants next.
PastIsAccounted ==
    /\ \A k \in Seqs : k <= yielded_up_to => Accounted(k)
    /\ InLoop /\ out # <<>> =>
         next_seq # None /\ \A k \in Seqs : k < next_seq => Accounted(k)

\* The inductive invariant behind the account of lost frames.
LossInv == TypeOK /\ PastIsAccounted /\ LossIsAccounted

\* Yielding a frame begins the stream or leaves its beginning alone.
LEMMA AppendToStream ==
    ASSUME TypeOK, NEW m \in Seqs, out' = Append(out, m), jumped' = jumped
    PROVE  /\ out' # <<>>
           /\ out = <<>> => out'[1] = m
           /\ m \in Yielded'
           /\ Yielded \subseteq Yielded'
           /\ \A k \in Seqs : Accounted(k) => Accounted(k)'
<1>1. out \in Seq(Seqs)
  BY DEF TypeOK
<1>2. Len(out') = Len(out) + 1 /\ out'[Len(out')] = m /\ out' \in Seq(Seqs)
  BY <1>1
<1>3. \A i \in 1 .. Len(out) : out'[i] = out[i]
  BY <1>1
<1>4. out' # <<>> /\ (out = <<>> => out'[1] = m) /\ (out # <<>> => out'[1] = out[1])
  BY <1>1, <1>2, <1>3
<1>5. m \in Yielded' /\ Yielded \subseteq Yielded'
  BY <1>1, <1>2, <1>3 DEF Yielded
<1> QED
  BY <1>4, <1>5 DEF Accounted

\* A skipped gap accounts for what lies between next_seq and its new value.
LEMMA SkipGapAccounts ==
    ASSUME LossInv, SkipGap, InLoop, UNCHANGED out, NEW k \in Seqs,
           out # <<>>, k < next_seq'
    PROVE  Accounted(k)'
<1>1. Accounted(k) => Accounted(k)'
  BY DEF SkipGap, Accounted, Yielded
<1>2. CASE k < next_seq
  BY <1>1, <1>2 DEF LossInv, PastIsAccounted
<1>3. CASE ~(k < next_seq)
  <2>1. k \in Int /\ next_seq \in Int
    BY FrameConsumerAssumption DEF LossInv, TypeOK, Seqs, None
  <2> QED
    BY <1>3, <2>1 DEF SkipGap, Accounted
<1> QED
  BY <1>2, <1>3

\* What is given up on is never taken back.
LEMMA SkipGapKeepsAccounts ==
    ASSUME SkipGap, UNCHANGED out, NEW k
    PROVE  Accounted(k) => Accounted(k)'
BY DEF SkipGap, Accounted, Yielded

\* Steps that touch neither the stream nor its bookkeeping keep the accounts.
LEMMA QuietStepKeepsLossInv ==
    ASSUME LossInv, TypeOK', UNCHANGED <<out, jumped, shed, yielded_up_to, next_seq>>,
           InLoop' => InLoop
    PROVE  LossInv'
<1>1. \A k \in Seqs : Accounted(k)' = Accounted(k)
  BY DEF Accounted, Yielded
<1>2. PastIsAccounted'
  BY <1>1 DEF LossInv, PastIsAccounted
<1>3. LossIsAccounted'
  BY DEF LossInv, LossIsAccounted, Yielded
<1> QED
  BY <1>2, <1>3 DEF LossInv

\* Every step keeps the account of lost frames.
LEMMA NextKeepsLossInv == LossInv /\ IInv /\ IInv' /\ [Next]_vars => LossInv'
<1> SUFFICES ASSUME LossInv, IInv, IInv', [Next]_vars PROVE LossInv'
  OBVIOUS
<1>t. TypeOK /\ TypeOK'
  BY DEF IInv
<1>1. ASSUME NEW m \in Messages, Send(m) \/ Reappear(m) PROVE LossInv'
  BY <1>1, <1>t, QuietStepKeepsLossInv DEF Send, Reappear, bufVars, histVars, InLoop
<1>2. CASE GapElapses \/ Stop \/ ReceiveFails \/ UNCHANGED vars
  BY <1>2, <1>t, QuietStepKeepsLossInv
     DEF GapElapses, Stop, ReceiveFails, vars, bufVars, histVars, InLoop
<1>3. CASE Poll \/ EndSkipFlush \/ ReturnAfterYield \/ LeaveLoop \/ Finish
  BY <1>3, <1>t, QuietStepKeepsLossInv
     DEF Poll, EndSkipFlush, ReturnAfterYield, LeaveLoop, Finish, bufVars,
         histVars, InLoop
<1>4. ASSUME NEW m \in payloads, YieldPayload(m) PROVE LossInv'
  BY <1>4, <1>t, QuietStepKeepsLossInv DEF YieldPayload, bufVars, histVars, InLoop
<1>5. ASSUME SkipGap, InLoop, UNCHANGED <<out, shed, yielded_up_to>> PROVE LossInv'
  <2>1. \A k : Accounted(k) => Accounted(k)'
    BY <1>5, SkipGapKeepsAccounts
  <2>2. next_seq' \in Seqs
    BY <1>5, <1>t, SkipGapReachesOldest DEF TypeOK
  <2>3. \A k \in Seqs : out # <<>> /\ k < next_seq' => Accounted(k)'
    BY <1>5, SkipGapAccounts
  <2>4. PastIsAccounted'
    BY <1>5, <2>1, <2>2, <2>3 DEF LossInv, PastIsAccounted, Seqs, None
  <2>5. LossIsAccounted'
    BY <1>5 DEF LossInv, LossIsAccounted, SkipGap, Yielded
  <2> QED
    BY <1>t, <2>4, <2>5 DEF LossInv
<1>6. CASE ReceiveNothing
  <2>1. CASE SkipGap
    BY <1>5, <1>6, <2>1 DEF ReceiveNothing, InLoop
  <2>2. CASE UNCHANGED <<next_seq, jumped>>
    BY <1>6, <1>t, <2>2, QuietStepKeepsLossInv DEF ReceiveNothing, InLoop
  <2> QED
    BY <1>6, <2>1, <2>2 DEF ReceiveNothing
<1>7. ASSUME NEW batch \in SUBSET queue, ReceiveBatch(batch) PROVE LossInv'
  <2>1. UNCHANGED <<out, jumped, yielded_up_to, next_seq>> /\ InLoop
    BY <1>7 DEF ReceiveBatch, InLoop
  <2>2. \A k \in Seqs : Accounted(k)' = Accounted(k)
    BY <2>1 DEF Accounted, Yielded
  <2>3. PastIsAccounted'
    BY <2>1, <2>2 DEF LossInv, PastIsAccounted
  <2>4. ASSUME NEW m \in shed' \ Yielded', m \notin shed PROVE Accounted(m)
    <3>1. m \in Seqs /\ ~(m > yielded_up_to)
      BY <1>7, <2>1, <2>4 DEF ReceiveBatch, Fresh, Yielded
    <3>2. m <= yielded_up_to
      BY <1>t, <3>1 DEF TypeOK, Seqs, None
    <3> QED
      BY <3>1, <3>2 DEF LossInv, PastIsAccounted
  <2>5. LossIsAccounted'
    BY <2>1, <2>4 DEF LossInv, LossIsAccounted, Accounted, Yielded
  <2> QED
    BY <1>t, <2>3, <2>5 DEF LossInv
<1>8. CASE BeginFlush
  <2>1. UNCHANGED <<out, jumped, shed, yielded_up_to>> /\ InLoop
    BY <1>8 DEF BeginFlush, histVars, InLoop
  <2>2. \A k \in Seqs : Accounted(k)' = Accounted(k)
    BY <2>1 DEF Accounted, Yielded
  <2>3. out # <<>> => next_seq' = next_seq
    BY <1>8, <2>1 DEF BeginFlush, LossInv, PastIsAccounted
  <2>4. PastIsAccounted'
    BY <2>1, <2>2, <2>3 DEF LossInv, PastIsAccounted
  <2> QED
    BY <1>t, <2>1, <2>4 DEF LossInv, LossIsAccounted, Yielded
<1>9. CASE YieldNext
  <2>1. next_seq \in Seqs /\ out' = Append(out, next_seq) /\ jumped' = jumped
        /\ shed' = shed /\ yielded_up_to' = next_seq /\ next_seq' = next_seq + 1
        /\ InLoop
    BY <1>9, <1>t DEF YieldNext, TypeOK, InLoop
  <2>2. /\ out' # <<>>
        /\ out = <<>> => out'[1] = next_seq
        /\ next_seq \in Yielded'
        /\ Yielded \subseteq Yielded'
        /\ \A k \in Seqs : Accounted(k) => Accounted(k)'
    BY <1>t, <2>1, AppendToStream
  <2>3. ASSUME NEW k \in Seqs, k <= next_seq PROVE Accounted(k)'
    <3>1. CASE k = next_seq
      BY <2>2, <3>1 DEF Accounted
    <3>2. CASE k < next_seq /\ out = <<>>
      BY <2>2, <3>2 DEF Accounted
    <3>3. CASE k < next_seq /\ out # <<>>
      BY <2>1, <2>2, <3>3 DEF LossInv, PastIsAccounted
    <3> QED
      BY <2>1, <2>3, <3>1, <3>2, <3>3 DEF Seqs
  <2>4. \A k \in Seqs : k < next_seq' => k <= next_seq
    BY <2>1 DEF Seqs
  <2>5. PastIsAccounted'
    BY <2>1, <2>2, <2>3, <2>4 DEF PastIsAccounted, Seqs, None
  <2>6. LossIsAccounted'
    BY <1>t, <2>1, <2>2 DEF LossInv, LossIsAccounted, TypeOK, Accounted
  <2> QED
    BY <1>t, <2>5, <2>6 DEF LossInv
<1>10. CASE EndFlush
  <2>1. CASE SkipGap
    BY <1>5, <1>10, <2>1 DEF EndFlush, InLoop
  <2>2. CASE UNCHANGED <<next_seq, jumped>>
    BY <1>10, <1>t, <2>2, QuietStepKeepsLossInv DEF EndFlush, InLoop
  <2> QED
    BY <1>10, <2>1, <2>2 DEF EndFlush
<1>11. CASE YieldRemaining
  <2>1. PICK m \in pending : out' = Append(out, m)
    BY <1>11 DEF YieldRemaining
  <2>2. m \in Seqs /\ ~InLoop' /\ UNCHANGED <<jumped, shed, yielded_up_to>>
    BY <1>11, <1>t DEF YieldRemaining, TypeOK, InLoop
  <2>3. /\ Yielded \subseteq Yielded'
        /\ \A k \in Seqs : Accounted(k) => Accounted(k)'
    BY <1>t, <2>1, <2>2, AppendToStream
  <2>4. PastIsAccounted'
    BY <2>2, <2>3 DEF LossInv, PastIsAccounted
  <2>5. LossIsAccounted'
    BY <1>t, <2>2, <2>3 DEF LossInv, LossIsAccounted, TypeOK, Accounted
  <2> QED
    BY <1>t, <2>4, <2>5 DEF LossInv
<1> QED
  BY <1>1, <1>2, <1>3, <1>4, <1>6, <1>7, <1>8, <1>9, <1>10, <1>11 DEF Next, Run

\* A received frame that is never yielded was given up on by a gap skip, or is
\* older than the frame the stream started with, busy skips included.
THEOREM LossAccounting == Spec => []LossIsAccounted
<1>1. Init => LossInv
  <2> SUFFICES ASSUME Init PROVE LossInv
    OBVIOUS
  <2>1. TypeOK
    BY InitEstablishesIInv DEF IInv
  <2> QED
    BY <2>1 DEF Init, LossInv, PastIsAccounted, LossIsAccounted, Seqs, None
<1>2. LossInv => LossIsAccounted
  BY DEF LossInv
<1> QED
  BY <1>1, <1>2, Invariance, NextKeepsLossInv, PTL DEF Spec
=============================================================================
