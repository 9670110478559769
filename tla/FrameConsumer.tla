---------------------------- MODULE FrameConsumer ----------------------------
(***************************************************************************)
(* transcriber-stream's SQSConsumer: a reorder buffer between a standard   *)
(* SQS queue (unordered, at least once) and the speech recogniser.         *)
(*                                                                         *)
(* A numbered message is its seq.  Messages without a usable seq are       *)
(* model values: Unusable ones are malformed or stale and get dropped,     *)
(* Seqless ones are yielded as they come.  The wait on a gap is three      *)
(* valued: not waiting, waiting, waited for MAX_GAP_WAIT_SECONDS.          *)
(* frames() is a generator: `suspended` says that it has yielded a frame   *)
(* and is waiting for the main loop to come back for the next one.         *)
(***************************************************************************)
EXTENDS Integers, Sequences

CONSTANTS
    MaxSeq,          \* bound: the client stamps seqs 0..MaxSeq
    Unusable,        \* stale and malformed messages
    Seqless,         \* messages of a legacy producer
    Flaky            \* bound: the messages that may be delivered twice

ASSUME FrameConsumerAssumption ==
    /\ MaxSeq \in Nat
    /\ Unusable \cap Seqless = {}
    /\ \A m \in Unusable \cup Seqless : m \notin 0 .. MaxSeq

Seqs == 0 .. MaxSeq
Messages == Seqs \cup Unusable \cup Seqless
None == -1

VARIABLES
    sent,          \* messages the client has sent, lost or not
    queue,         \* messages the queue can deliver
    hidden,        \* received, not deleted, not yet visible again
    flaky,         \* messages whose deletion may still fail, once each
    pc,            \* where the generator is
    suspended,     \* it has just yielded a frame
    stopped,       \* stop() has been called
    pending,       \* seqs buffered out of order
    payloads,      \* Seqless messages of the batch in hand
    next_seq,      \* the seq to yield next, or None
    yielded_up_to, \* the seq yielded last, or None
    gap,           \* gap_since: "none", "waiting" or "elapsed"
    out,           \* history: the seqs yielded, in order
    jumped,        \* history: the seqs some gap skip has given up on
    shed,          \* history: seqs dropped as duplicates but never yielded
    busySkip       \* history: a gap was skipped after a non-empty batch

envVars == <<sent, queue, hidden, flaky>>
bufVars == <<pending, next_seq, yielded_up_to, gap>>
histVars == <<out, jumped, shed, busySkip>>
vars == <<envVars, pc, suspended, stopped, payloads, bufVars, histVars>>

Pcs == {"loop", "receiving", "payloads", "flush", "skip_flush", "drain", "done"}

Yielded == {out[i] : i \in 1 .. Len(out)}

TypeOK ==
    /\ sent \subseteq Messages
    /\ queue \subseteq sent
    /\ hidden \subseteq sent
    /\ flaky \subseteq Flaky
    /\ pc \in Pcs
    /\ suspended \in BOOLEAN /\ stopped \in BOOLEAN /\ busySkip \in BOOLEAN
    /\ pending \subseteq sent \cap Seqs
    /\ payloads \subseteq Seqless
    /\ next_seq \in Seqs \cup {None, MaxSeq + 1}
    /\ yielded_up_to \in Seqs \cup {None}
    /\ next_seq = None => yielded_up_to = None
    /\ gap \in {"none", "waiting", "elapsed"}
    /\ out \in Seq(sent \cap Seqs)
    /\ jumped \subseteq Seqs
    /\ shed \subseteq sent \cap Seqs

Init ==
    /\ sent = {} /\ queue = {} /\ hidden = {} /\ flaky = Flaky
    /\ pc = "loop"
    /\ suspended = FALSE /\ stopped = FALSE
    /\ pending = {} /\ payloads = {}
    /\ next_seq = None /\ yielded_up_to = None
    /\ gap = "none"
    /\ out = <<>> /\ jumped = {} /\ shed = {} /\ busySkip = FALSE

-----------------------------------------------------------------------------
(* The queue, the client and the clock.                                    *)

\* The client sends its frames in seq order; the router enqueues a frame or
\* loses it.
Send(m) ==
    /\ m \in Messages \ sent
    /\ m \in Seqs => \A k \in Seqs : k < m => k \in sent
    /\ sent' = sent \cup {m}
    /\ queue' \in {queue, queue \cup {m}}
    /\ UNCHANGED <<hidden, flaky, pc, suspended, stopped, payloads,
                   bufVars, histVars>>

\* The visibility timeout of a message that was not deleted ends.
Reappear(m) ==
    /\ m \in hidden
    /\ hidden' = hidden \ {m}
    /\ queue' = queue \cup {m}
    /\ UNCHANGED <<sent, flaky, pc, suspended, stopped, payloads,
                   bufVars, histVars>>

\* MAX_GAP_WAIT_SECONDS have passed since gap_since.
GapElapses ==
    /\ gap = "waiting"
    /\ gap' = "elapsed"
    /\ UNCHANGED <<envVars, pc, suspended, stopped, payloads, pending,
                   next_seq, yielded_up_to, histVars>>

\* Another task (disconnect, Spot notice) calls stop().
Stop ==
    /\ ~stopped
    /\ stopped' = TRUE
    /\ UNCHANGED <<envVars, pc, suspended, payloads, bufVars, histVars>>

-----------------------------------------------------------------------------
(* The generator.                                                          *)

IsOldest(m) == m \in pending /\ \A k \in pending : m <= k

\* The code following a yield looks at the stop event before it goes on.
Resumable == ~(suspended /\ stopped)

PollUnconditionally ==
    /\ pc = "loop"
    /\ pc' = "receiving"
    /\ UNCHANGED <<envVars, suspended, stopped, payloads, bufVars, histVars>>

\* The while condition, and the long poll it leads to.
Poll ==
    /\ pc = "loop"
    /\ ~stopped
    /\ pc' = "receiving"
    /\ UNCHANGED <<envVars, suspended, stopped, payloads, bufVars, histVars>>

\* receive_message raised: sleep, then the next iteration.
ReceiveFails ==
    /\ pc = "receiving"
    /\ pc' = "loop"
    /\ UNCHANGED <<envVars, suspended, stopped, payloads, bufVars, histVars>>

\* Give up on the missing seqs and go on with the oldest buffered one.
SkipGap ==
    \E m \in pending :
        /\ IsOldest(m)
        /\ next_seq' = m
        /\ jumped' = jumped \cup {k \in Seqs : next_seq <= k /\ k < m}
        /\ gap' = "none"

KeepWaiting == UNCHANGED gap

\* What either branch does about a gap that does not have to be skipped yet.
StartOrKeepWaiting == gap' = IF gap = "none" THEN "waiting" ELSE gap

\* The poll found nothing: a gap that has lasted is skipped, and flushed.
ReceiveNothing ==
    /\ pc = "receiving"
    /\ queue = {}
    /\ IF pending # {} /\ next_seq \notin pending
       THEN \/ /\ gap = "elapsed"
               /\ SkipGap
               /\ pc' = "skip_flush"
            \/ /\ gap # "elapsed"
               /\ StartOrKeepWaiting
               /\ pc' = "loop"
               /\ UNCHANGED <<next_seq, jumped>>
       ELSE pc' = "loop" /\ UNCHANGED <<next_seq, jumped, gap>>
    /\ UNCHANGED <<envVars, suspended, stopped, payloads, pending,
                   yielded_up_to, out, shed, busySkip>>

FreshUnchecked(batch) == batch \cap Seqs
FreshOffByOne(batch) == {m \in batch \cap Seqs : m > yielded_up_to + 1}

\* Seqs of a batch that are buffered; the others count as duplicates.
Fresh(batch) == {m \in batch \cap Seqs : m > yielded_up_to}

\* A batch arrives, is sorted into the buffer and the payloads, and deleted;
\* the messages whose deletion fails come back later.
ReceiveBatch(batch) ==
    /\ pc = "receiving"
    /\ \E kept \in SUBSET (batch \cap flaky) :
         /\ hidden' = hidden \cup kept
         /\ flaky' = flaky \ kept
    /\ queue' = queue \ batch
    /\ pending' = pending \cup Fresh(batch)
    /\ payloads' = batch \cap Seqless
    /\ shed' = shed \cup ((batch \cap Seqs) \ (Fresh(batch) \cup Yielded))
    /\ pc' = "payloads"
    /\ UNCHANGED <<sent, suspended, stopped, next_seq, yielded_up_to, gap,
                   out, jumped, busySkip>>

\* Payloads without a seq are yielded first.
YieldPayload(m) ==
    /\ pc = "payloads" /\ m \in payloads /\ Resumable
    /\ payloads' = payloads \ {m}
    /\ suspended' = TRUE
    /\ UNCHANGED <<envVars, pc, stopped, bufVars, histVars>>

\* Enter the ordered flush; the first seq ever buffered starts the stream.
BeginFlush ==
    /\ pc = "payloads" /\ payloads = {} /\ Resumable
    /\ suspended' = FALSE
    /\ IF pending = {}
       THEN pc' = "loop" /\ UNCHANGED next_seq
       ELSE /\ pc' = "flush"
            /\ IF next_seq = None
               THEN \E m \in pending : IsOldest(m) /\ next_seq' = m
               ELSE UNCHANGED next_seq
    /\ UNCHANGED <<envVars, stopped, payloads, pending, yielded_up_to, gap,
                   histVars>>

\* Both flush loops: pop and yield the next contiguous seq.
YieldNext ==
    /\ pc \in {"flush", "skip_flush"} /\ next_seq \in pending /\ Resumable
    /\ pending' = pending \ {next_seq}
    /\ yielded_up_to' = next_seq
    /\ next_seq' = next_seq + 1
    /\ gap' = "none"
    /\ out' = Append(out, next_seq)
    /\ suspended' = TRUE
    /\ UNCHANGED <<envVars, pc, stopped, payloads, jumped, shed, busySkip>>

\* The flush after a batch ends.  A gap that has lasted is skipped, but what
\* is buffered behind it is left for the flush of a later batch.
EndFlush ==
    /\ pc = "flush" /\ next_seq \notin pending /\ Resumable
    /\ pc' = "loop"
    /\ suspended' = FALSE
    /\ \/ /\ pending = {}
          /\ UNCHANGED <<next_seq, jumped, gap, busySkip>>
       \/ /\ pending # {} /\ gap # "elapsed"
          /\ StartOrKeepWaiting
          /\ UNCHANGED <<next_seq, jumped, busySkip>>
       \/ /\ pending # {} /\ gap = "elapsed"
          /\ SkipGap
          /\ busySkip' = TRUE
    /\ UNCHANGED <<envVars, stopped, payloads, pending, yielded_up_to, out, shed>>

\* The flush after a gap skipped on an empty poll ends.
EndSkipFlush ==
    /\ pc = "skip_flush" /\ next_seq \notin pending /\ Resumable
    /\ pc' = "loop"
    /\ suspended' = FALSE
    /\ UNCHANGED <<envVars, stopped, payloads, bufVars, histVars>>

\* The check after a yield finds the stop event set: return at once.
ReturnAfterYield ==
    /\ ~Resumable
    /\ pc \in {"payloads", "flush", "skip_flush"}
    /\ pc' = "done"
    /\ suspended' = FALSE
    /\ UNCHANGED <<envVars, stopped, payloads, bufVars, histVars>>

\* The while condition finds the stop event set: yield what is buffered.
LeaveLoop ==
    /\ pc = "loop" /\ stopped
    /\ pc' = "drain"
    /\ UNCHANGED <<envVars, suspended, stopped, payloads, bufVars, histVars>>

\* One turn of the loop over sorted(pending); the local variables of the
\* main loop are no longer used.
YieldRemaining ==
    /\ pc = "drain"
    /\ \E m \in pending :
         /\ IsOldest(m)
         /\ pending' = pending \ {m}
         /\ out' = Append(out, m)
    /\ UNCHANGED <<envVars, pc, suspended, stopped, payloads, next_seq,
                   yielded_up_to, gap, jumped, shed, busySkip>>

Finish ==
    /\ pc = "drain" /\ pending = {}
    /\ pc' = "done"
    /\ UNCHANGED <<envVars, suspended, stopped, payloads, bufVars, histVars>>

\* A step of the generator other than waiting for a message to arrive.
Run ==
    \/ Poll \/ ReceiveNothing
    \/ \E batch \in SUBSET queue \ {{}} : ReceiveBatch(batch)
    \/ \E m \in payloads : YieldPayload(m)
    \/ BeginFlush \/ YieldNext \/ EndFlush \/ EndSkipFlush
    \/ ReturnAfterYield \/ LeaveLoop \/ YieldRemaining \/ Finish

Next ==
    \/ \E m \in Messages : Send(m) \/ Reappear(m)
    \/ GapElapses
    \/ Stop
    \/ ReceiveFails
    \/ Run

Spec == Init /\ [][Next]_vars

\* The event loop keeps running the generator and the main loop that reads
\* it, clocks advance, and hidden messages become visible again.  A poll may
\* fail now and then but not for ever.
Fairness ==
    /\ SF_vars(Run /\ pc = "receiving")
    /\ WF_vars(Run)
    /\ WF_vars(GapElapses)
    /\ \A m \in Messages : WF_vars(Reappear(m))

FairSpec == Spec /\ Fairness

-----------------------------------------------------------------------------
(* Properties.                                                             *)

Ascending == \A i, j \in 1 .. Len(out) : i < j => out[i] < out[j]

\* Frames reach the recogniser in seq order and once each, whatever order,
\* losses and duplicates the queue makes of them, as long as every gap that
\* was skipped was skipped on an empty poll.
AscendingUnlessBusySkip == ~busySkip => Ascending

\* A frame that was received but never yielded was either given up on by a
\* gap skip or is older than the frame the stream started with.
LossIsAccounted ==
    \A m \in shed \ Yielded : m \in jumped \/ (out # <<>> /\ m < out[1])

\* What is buffered is still to come, so no frame is in the buffer and with
\* the recogniser at once, unless a gap was skipped after a busy batch.
BufferIsAhead ==
    ~busySkip => \A m \in pending : m > yielded_up_to /\ m \notin Yielded

\* stop() ends the stream, wherever the generator is when it is called.
StopEndsStream == stopped ~> pc = "done"

\* A frame lost for good does not hold up those behind it, unless a gap was
\* skipped after a busy batch.
GapPassesUnlessBusySkip ==
    pending # {} ~> (pending = {} \/ pc = "done" \/ busySkip)

-----------------------------------------------------------------------------
(* What the docstring and the comments of frames() say, and the code does  *)
(* not do.                                                                 *)

\* "Yield PCM byte payloads in `seq` order."
YieldsInSeqOrder == Ascending

\* "a persistent gap must still time out, otherwise an empty queue freezes
\* the skip logic with buffered frames stuck behind a lost seq."
BufferedFramesGetOut == pending # {} ~> (pending = {} \/ pc = "done")

\* "we buffer out-of-order arrivals and yield contiguously, dropping
\* duplicates": what is dropped as a duplicate has been yielded, or its gap
\* was skipped.
OnlyDuplicatesAreShed == shed \subseteq jumped \cup Yielded

\* "drain whatever remains in seq order so trailing audio is not lost".
NothingLeftAtTheEnd == pc = "done" => pending = {}
=============================================================================
