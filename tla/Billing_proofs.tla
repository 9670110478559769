---------------------------- MODULE Billing_proofs ----------------------------
(***************************************************************************)
(* Proofs about the webhook, for any number of events, calls at once,      *)
(* repeated deliveries and failures.                                       *)
(***************************************************************************)
EXTENDS Billing, FiniteSetTheorems, TLAPS

\* last_event_id is the id of the event that was applied last.
RowRemembersLast ==
    /\ applied = <<>> => row.last = 0
    /\ applied # <<>> => row.last = applied[Len(applied)]

\* The inductive invariant.
IInv == TypeOK /\ RowRemembersLast /\ NoImmediateReplay

\* At first nothing has been applied.
LEMMA InitEstablishesIInv == Init => IInv
<1> SUFFICES ASSUME Init PROVE IInv
  OBVIOUS
<1>1. Len(events) = 0 /\ Len(applied) = 0
  BY DEF Init
<1>2. TypeOK
  BY <1>1, BillingAssumption
     DEF Init, TypeOK, IdleHook, NoRow, Plans, Statuses
<1>3. RowRemembersLast /\ NoImmediateReplay
  BY <1>1 DEF Init, RowRemembersLast, NoImmediateReplay, NoRow
<1> QED
  BY <1>2, <1>3 DEF IInv

\* An event that the condition lets through is not the one applied last.
LEMMA AppendKeepsApart ==
    ASSUME NEW s \in Seq(Nat), NEW e \in Nat,
           s # <<>> => e # s[Len(s)],
           \A i \in 1 .. Len(s) - 1 : s[i] # s[i + 1]
    PROVE  \A i \in 1 .. Len(Append(s, e)) - 1 :
             Append(s, e)[i] # Append(s, e)[i + 1]
<1> SUFFICES ASSUME NEW i \in 1 .. Len(Append(s, e)) - 1
             PROVE  Append(s, e)[i] # Append(s, e)[i + 1]
  OBVIOUS
<1>1. Len(Append(s, e)) = Len(s) + 1 /\ i \in 1 .. Len(s)
  OBVIOUS
<1>2. CASE i = Len(s)
  BY <1>1, <1>2
<1>3. CASE i < Len(s)
  BY <1>1, <1>3
<1> QED
  BY <1>1, <1>2, <1>3

\* What a sequence holds is in the set it is over.
LEMMA SeqElement ==
    ASSUME NEW S, NEW s \in Seq(S), NEW i \in 1 .. Len(s)
    PROVE  s[i] \in S
OBVIOUS

\* The plans and statuses of an event are among those of a row.
LEMMA ProjectionType ==
    ASSUME TypeOK, NEW e \in 1 .. Len(events)
    PROVE  /\ Projection(e) \in [plan : Plans, status : Statuses, last : 0 .. Len(events)]
           /\ Projection(e).last = e
<1>1. events[e] \in [kind : Kinds, plan : Plans, status : Statuses]
  <2>1. events \in Seq([kind : Kinds, plan : Plans, status : Statuses])
    BY DEF TypeOK
  <2> QED
    BY <2>1, SeqElement
<1>2. events[e].plan \in Plans /\ events[e].status \in Statuses
  BY <1>1
<1>3. "free" \in Plans /\ e \in 0 .. Len(events)
  BY DEF TypeOK, Plans
<1> QED
  BY <1>2, <1>3 DEF Projection

\* A call writes the row only with an event other than the last.
LEMMA UpsertKeepsIInv ==
    ASSUME IInv, NEW h \in Handlers, Upsert(h)
    PROVE  IInv'
<1> DEFINE e == hook[h].event
<1>1. e \in 1 .. Len(events) /\ hook[h].at = "upsert"
  BY DEF IInv, TypeOK, Upsert
<1>2. UNCHANGED <<events, inbox, repeats, log, faults>>
  BY DEF Upsert, stripeVars
<1>3. CASE UpsertCondition(e)
  <2>1. /\ row' = Projection(e)
        /\ applied' = Append(applied, e)
        /\ hook' = [hook EXCEPT ![h].at = "append"]
    BY <1>3 DEF Upsert
  <2>2. /\ row' \in [plan : Plans, status : Statuses, last : 0 .. Len(events)]
        /\ row'.last = e
    BY <1>1, <2>1, ProjectionType DEF IInv
  <2>3. applied' \in Seq(1 .. Len(events)) /\ applied \in Seq(1 .. Len(events))
    BY <1>1, <2>1 DEF IInv, TypeOK
  <2>4. TypeOK'
    BY <1>1, <1>2, <2>1, <2>2, <2>3 DEF IInv, TypeOK
  <2>5. Len(applied') = Len(applied) + 1 /\ applied'[Len(applied')] = e
    BY <1>1, <2>1, <2>3
  <2>6. RowRemembersLast'
    BY <2>2, <2>3, <2>5 DEF RowRemembersLast
  <2>7. applied # <<>> => e # applied[Len(applied)]
    BY <1>3 DEF IInv, RowRemembersLast, UpsertCondition
  <2>8. applied \in Seq(Nat) /\ e \in Nat
    BY <1>1, <2>3 DEF IInv, TypeOK
  <2>9. NoImmediateReplay'
    BY <2>1, <2>7, <2>8, AppendKeepsApart DEF IInv, NoImmediateReplay
  <2> QED
    BY <2>4, <2>6, <2>9 DEF IInv
<1>4. CASE ~UpsertCondition(e)
  <2>1. hook' = [hook EXCEPT ![h] = IdleHook] /\ UNCHANGED <<row, applied>>
    BY <1>4 DEF Upsert
  <2>2. 0 \in 0 .. Len(events)
    BY DEF IInv, TypeOK
  <2>3. TypeOK'
    BY <1>2, <2>1, <2>2 DEF IInv, TypeOK, IdleHook
  <2> QED
    BY <1>2, <2>1, <2>3 DEF IInv, RowRemembersLast, NoImmediateReplay
<1> QED
  BY <1>3, <1>4

\* A sequence over a set is one over a larger set.
LEMMA SeqIsMonotonic ==
    ASSUME NEW S, NEW T, S \subseteq T, NEW s \in Seq(S)
    PROVE  s \in Seq(T)
<1>1. s \in [1 .. Len(s) -> T] /\ Len(s) \in Nat
  OBVIOUS
<1> QED
  BY <1>1

\* A new event widens the ids that calls, row and log may name.
LEMMA EmitKeepsIInv ==
    ASSUME IInv, NEW kind \in Kinds, Emit(kind)
    PROVE  IInv'
<1>1. PICK plan \in PlansOf(kind), status \in StatusesOf(kind) :
        events' = Append(events, [kind |-> kind, plan |-> plan, status |-> status])
  BY DEF Emit
<1>2. plan \in Plans /\ status \in Statuses
  BY <1>1 DEF PlansOf, StatusesOf, Plans, Statuses
<1>3. /\ events' \in Seq([kind : Kinds, plan : Plans, status : Statuses])
      /\ Len(events') = Len(events) + 1
      /\ Len(events) \in Nat
  BY <1>1, <1>2 DEF IInv, TypeOK
<1>4. 1 .. Len(events) \subseteq 1 .. Len(events') /\ 0 .. Len(events) \subseteq 0 .. Len(events')
  BY <1>3
<1>5. UNCHANGED <<repeats, hook, row, log, applied, faults>>
  BY DEF Emit
<1>6. log' \in Seq(1 .. Len(events')) /\ applied' \in Seq(1 .. Len(events'))
  <2>1. log \in Seq(1 .. Len(events)) /\ applied \in Seq(1 .. Len(events))
    BY DEF IInv, TypeOK
  <2>2. log \in Seq(1 .. Len(events')) /\ applied \in Seq(1 .. Len(events'))
    BY <1>4, <2>1, SeqIsMonotonic
  <2> QED
    BY <1>5, <2>2
<1>7. inbox' \subseteq 1 .. Len(events') /\ Len(events') <= MaxEvents
  <2>1. inbox' = inbox \cup {Len(events')} /\ Len(events) < MaxEvents
    BY DEF Emit
  <2>2. inbox \subseteq 1 .. Len(events') /\ Len(events') \in 1 .. Len(events')
    BY <1>3, <1>4 DEF IInv, TypeOK
  <2>3. inbox' \subseteq 1 .. Len(events')
    BY <2>1, <2>2
  <2>4. Len(events') <= MaxEvents
    BY <1>3, <2>1, BillingAssumption
  <2> QED
    BY <2>3, <2>4
<1>8. TypeOK'
  BY <1>3, <1>4, <1>5, <1>6, <1>7 DEF IInv, TypeOK
<1> QED
  BY <1>5, <1>8 DEF IInv, RowRemembersLast, NoImmediateReplay

\* Every other step leaves the row and what was applied alone.
LEMMA NextKeepsIInv == IInv /\ [Next]_vars => IInv'
<1> SUFFICES ASSUME IInv, [Next]_vars PROVE IInv'
  OBVIOUS
<1> USE BillingAssumption
        DEF IInv, TypeOK, RowRemembersLast, NoImmediateReplay, stripeVars
<1>1. ASSUME NEW kind \in Kinds, Emit(kind) PROVE IInv'
  BY <1>1, EmitKeepsIInv
<1>2. ASSUME NEW e \in DOMAIN events, Repeat(e) PROVE IInv'
  <2>1. e \in 1 .. Len(events)
    <3>1. DOMAIN events = 1 .. Len(events)
      OBVIOUS
    <3> QED
      BY <3>1
  <2>2. /\ repeats' \in 0 .. MaxRepeats
        /\ inbox' = inbox \cup {e}
        /\ UNCHANGED <<events, hook, row, log, applied, faults>>
    BY <1>2 DEF Repeat
  <2>3. inbox' \subseteq 1 .. Len(events)
    BY <2>1, <2>2
  <2> QED
    BY <2>2, <2>3
<1>3. ASSUME NEW e \in DOMAIN events, NEW h \in Handlers, Deliver(h, e) PROVE IInv'
  BY <1>3 DEF Deliver
<1>4. ASSUME NEW h \in Handlers, Upsert(h) PROVE IInv'
  BY <1>4, UpsertKeepsIInv
<1>5. ASSUME NEW h \in Handlers, AppendEvent(h) PROVE IInv'
  BY <1>5 DEF AppendEvent, IdleHook
<1>6. ASSUME NEW h \in Handlers, HookFails(h) PROVE IInv'
  <2>1. hook[h].event \in 1 .. Len(events) /\ 0 \in 0 .. Len(events)
    BY <1>6 DEF HookFails
  <2>2. /\ inbox' = inbox \cup {hook[h].event}
        /\ hook' = [hook EXCEPT ![h] = IdleHook]
        /\ faults' \in 0 .. MaxFaults
        /\ UNCHANGED <<events, repeats, row, log, applied>>
    BY <1>6 DEF HookFails
  <2> QED
    BY <2>1, <2>2 DEF IdleHook
<1>7. CASE UNCHANGED vars
  BY <1>7 DEF vars
<1> QED
  BY <1>1, <1>2, <1>3, <1>4, <1>5, <1>6, <1>7 DEF Next, HookStep

\* IInv holds in every reachable state.
LEMMA IInvHolds == Spec => []IInv
BY InitEstablishesIInv, NextKeepsIInv, PTL DEF Spec

\* Events, calls, row and log have their types.
THEOREM TypeCorrectness == Spec => []TypeOK
BY IInvHolds, PTL DEF IInv

\* No event is applied twice in a row, however many calls for it run at once.
THEOREM ReplaysAreCaught == Spec => []NoImmediateReplay
BY IInvHolds, PTL DEF IInv

-----------------------------------------------------------------------------
(* What is in the log.                                                     *)

\* The calls that are about to append event e.
Appending(e) == {h \in Handlers : hook[h].event = e /\ hook[h].at = "append"}

\* The inductive invariant behind the log: at most as many entries, made or
\* about to be made, as writes to the row.
LogInv == TypeOK /\ LoggedAtMostAsApplied

\* Appending an element adds one to its own count and nothing to the others.
LEMMA CountAppend ==
    ASSUME NEW S, NEW s \in Seq(S), NEW x \in S, NEW e
    PROVE  /\ CountIn(s, e) \in Nat
           /\ CountIn(Append(s, x), e) = CountIn(s, e) + (IF x = e THEN 1 ELSE 0)
<1> DEFINE D == {i \in DOMAIN s : s[i] = e}
           N == {i \in DOMAIN Append(s, x) : Append(s, x)[i] = e}
<1>1. DOMAIN s = 1 .. Len(s) /\ DOMAIN Append(s, x) = 1 .. Len(s) + 1 /\ Len(s) \in Nat
  OBVIOUS
<1>2. IsFiniteSet(D) /\ Cardinality(D) \in Nat
  <2>1. IsFiniteSet(1 .. Len(s))
    BY <1>1, FS_Interval
  <2>2. IsFiniteSet(D)
    BY <1>1, <2>1, FS_Subset
  <2> QED
    BY <2>2, FS_CardinalityType
<1>3. N = IF x = e THEN D \cup {Len(s) + 1} ELSE D
  BY <1>1
<1>4. Len(s) + 1 \notin D
  BY <1>1
<1>5. Cardinality(N) = Cardinality(D) + (IF x = e THEN 1 ELSE 0)
  <2>1. CASE x = e
    <3>1. Cardinality(D \cup {Len(s) + 1}) = Cardinality(D) + 1
      BY <1>2, <1>4, FS_AddElement
    <3> QED
      BY <1>3, <2>1, <3>1
  <2>2. CASE x # e
    <3>1. N = D
      BY <1>3, <2>2
    <3>2. Cardinality(N) = Cardinality(D)
      BY <3>1
    <3>3. Cardinality(D) = Cardinality(D) + 0
      <4> HIDE DEF D
      <4> QED
        BY <1>2
    <3> QED
      BY <2>2, <3>2, <3>3
  <2> QED
    BY <2>1, <2>2
<1> QED
  BY <1>2, <1>5 DEF CountIn

\* No sequence has a negative or infinite count.
LEMMA CountType ==
    ASSUME NEW S, NEW s \in Seq(S), NEW e
    PROVE  CountIn(s, e) \in Nat
<1>1. DOMAIN s = 1 .. Len(s) /\ Len(s) \in Nat
  OBVIOUS
<1>2. IsFiniteSet(1 .. Len(s))
  BY <1>1, FS_Interval
<1>3. IsFiniteSet({i \in DOMAIN s : s[i] = e})
  BY <1>1, <1>2, FS_Subset
<1> QED
  BY <1>3, FS_CardinalityType DEF CountIn

\* Finitely many calls are at work.
LEMMA AppendingType ==
    ASSUME NEW e
    PROVE  IsFiniteSet(Appending(e)) /\ Cardinality(Appending(e)) \in Nat
<1>1. IsFiniteSet(Appending(e))
  BY BillingAssumption, FS_Subset DEF Appending
<1> QED
  BY <1>1, FS_CardinalityType

\* The bound holds as long as neither log nor row is written, no call takes up
\* a state event for appending, and the events stay.
LEMMA FewerAppending ==
    ASSUME LogInv, UNCHANGED <<events, log, applied>>,
           \A e \in IdsOf(StateKinds) : Appending(e)' \subseteq Appending(e)
    PROVE  LoggedAtMostAsApplied'
<1> SUFFICES ASSUME NEW e \in IdsOf(StateKinds)
             PROVE  CountIn(log, e) + Cardinality(Appending(e)') <= CountIn(applied, e)
  BY DEF LoggedAtMostAsApplied, IdsOf, KindAt, Appending
<1>1. /\ IsFiniteSet(Appending(e))
      /\ Cardinality(Appending(e)) \in Nat
  BY AppendingType
<1>2. /\ Cardinality(Appending(e)') \in Nat
      /\ Cardinality(Appending(e)') <= Cardinality(Appending(e))
  BY <1>1, FS_Subset, FS_CardinalityType
<1>3. CountIn(log, e) \in Nat /\ CountIn(applied, e) \in Nat
  BY CountType DEF LogInv, TypeOK
<1>4. CountIn(log, e) + Cardinality(Appending(e)) <= CountIn(applied, e)
  BY DEF LogInv, LoggedAtMostAsApplied, Appending
<1> QED
  BY <1>1, <1>2, <1>3, <1>4

\* A write to the row goes with one entry that is about to be made.
LEMMA UpsertKeepsBound ==
    ASSUME LogInv, NEW h \in Handlers, Upsert(h)
    PROVE  LoggedAtMostAsApplied'
<1> DEFINE x == hook[h].event
<1>1. UNCHANGED <<events, log>> /\ x \in 1 .. Len(events) /\ hook[h].at = "upsert"
  BY DEF Upsert, stripeVars, LogInv, TypeOK
<1>2. hook \in [Handlers -> [at : {"idle", "upsert", "append"}, event : 0 .. Len(events)]]
  BY DEF LogInv, TypeOK
<1>3. CASE UpsertCondition(x)
  <2>1. hook' = [hook EXCEPT ![h].at = "append"] /\ applied' = Append(applied, x)
    BY <1>3 DEF Upsert
  <2> SUFFICES ASSUME NEW e \in IdsOf(StateKinds)
               PROVE  CountIn(log, e) + Cardinality(Appending(e)') <= CountIn(applied', e)
    BY <1>1 DEF LoggedAtMostAsApplied, IdsOf, KindAt, Appending
  <2>2. CountIn(log, e) \in Nat /\ CountIn(applied, e) \in Nat
    BY CountType DEF LogInv, TypeOK
  <2>3. CountIn(applied', e) = CountIn(applied, e) + (IF x = e THEN 1 ELSE 0)
    <3>1. applied \in Seq(1 .. Len(events))
      BY DEF LogInv, TypeOK
    <3>2. CountIn(Append(applied, x), e) = CountIn(applied, e) + (IF x = e THEN 1 ELSE 0)
      BY <1>1, <3>1, CountAppend
    <3> QED
      BY <2>1, <3>2
  <2>4. Appending(e)' = IF x = e THEN Appending(e) \cup {h} ELSE Appending(e)
    BY <1>1, <1>2, <2>1 DEF Appending
  <2>5. h \notin Appending(e)
    BY <1>1 DEF Appending
  <2>6. IsFiniteSet(Appending(e)) /\ Cardinality(Appending(e)) \in Nat
    BY AppendingType
  <2>7. Cardinality(Appending(e)') = Cardinality(Appending(e)) + (IF x = e THEN 1 ELSE 0)
    <3>1. Cardinality(Appending(e) \cup {h}) = Cardinality(Appending(e)) + 1
      BY <2>5, <2>6, FS_AddElement
    <3>2. CASE x = e
      BY <2>4, <3>1, <3>2
    <3>3. CASE x # e
      BY <2>4, <2>6, <3>3
    <3> QED
      BY <3>2, <3>3
  <2>8. CountIn(log, e) + Cardinality(Appending(e)) <= CountIn(applied, e)
    BY DEF LogInv, LoggedAtMostAsApplied, Appending
  <2> QED
    BY <2>2, <2>3, <2>6, <2>7, <2>8
<1>4. CASE ~UpsertCondition(x)
  <2>1. hook' = [hook EXCEPT ![h] = IdleHook] /\ UNCHANGED applied
    BY <1>4 DEF Upsert
  <2>2. \A e \in IdsOf(StateKinds) : Appending(e)' \subseteq Appending(e)
    BY <1>2, <2>1 DEF Appending, IdleHook
  <2> QED
    BY <1>1, <2>1, <2>2, FewerAppending
<1> QED
  BY <1>3, <1>4

\* An entry that is made is no longer about to be made.
LEMMA AppendKeepsBound ==
    ASSUME LogInv, NEW h \in Handlers, AppendEvent(h)
    PROVE  LoggedAtMostAsApplied'
<1> DEFINE x == hook[h].event
<1>1. /\ UNCHANGED <<events, applied>>
      /\ x \in 1 .. Len(events) /\ hook[h].at = "append"
      /\ hook' = [hook EXCEPT ![h] = IdleHook]
      /\ log' = Append(log, x)
  BY DEF AppendEvent, stripeVars, LogInv, TypeOK
<1>2. hook \in [Handlers -> [at : {"idle", "upsert", "append"}, event : 0 .. Len(events)]]
  BY DEF LogInv, TypeOK
<1> SUFFICES ASSUME NEW e \in IdsOf(StateKinds)
             PROVE  CountIn(log', e) + Cardinality(Appending(e)') <= CountIn(applied, e)
  BY <1>1 DEF LoggedAtMostAsApplied, IdsOf, KindAt, Appending
<1>3. CountIn(log, e) \in Nat /\ CountIn(applied, e) \in Nat
  BY CountType DEF LogInv, TypeOK
<1>4. CountIn(log', e) = CountIn(log, e) + (IF x = e THEN 1 ELSE 0)
  <2>1. log \in Seq(1 .. Len(events))
    BY DEF LogInv, TypeOK
  <2>2. CountIn(Append(log, x), e) = CountIn(log, e) + (IF x = e THEN 1 ELSE 0)
    <3>1. x \in 1 .. Len(events)
      BY <1>1
    <3> HIDE DEF x
    <3> QED
      BY <2>1, <3>1, CountAppend
  <2> QED
    BY <1>1, <2>2
<1>5. Appending(e)' = Appending(e) \ {h} /\ (x = e => h \in Appending(e))
  BY <1>1, <1>2 DEF Appending, IdleHook
<1>6. IsFiniteSet(Appending(e)) /\ Cardinality(Appending(e)) \in Nat
  BY AppendingType
<1>7. /\ Cardinality(Appending(e)') \in Nat
      /\ Cardinality(Appending(e)') + (IF x = e THEN 1 ELSE 0) <= Cardinality(Appending(e))
  <2>1. CASE h \in Appending(e)
    <3>1. /\ IsFiniteSet(Appending(e) \ {h})
          /\ Cardinality(Appending(e) \ {h}) = Cardinality(Appending(e)) - 1
      BY <1>6, <2>1, FS_RemoveElement
    <3>2. Cardinality(Appending(e) \ {h}) \in Nat
      BY <3>1, FS_CardinalityType
    <3>3. Cardinality(Appending(e)') = Cardinality(Appending(e)) - 1
      BY <1>5, <3>1
    <3> QED
      BY <1>5, <1>6, <3>2, <3>3
  <2>2. CASE h \notin Appending(e)
    <3>1. Appending(e)' = Appending(e) /\ x # e
      BY <1>5, <2>2
    <3>2. Cardinality(Appending(e)') = Cardinality(Appending(e))
      BY <3>1
    <3> QED
      BY <1>6, <3>1, <3>2
  <2> QED
    BY <2>1, <2>2
<1>8. CountIn(log, e) + Cardinality(Appending(e)) <= CountIn(applied, e)
  BY DEF LogInv, LoggedAtMostAsApplied, Appending
<1> QED
  BY <1>3, <1>4, <1>6, <1>7, <1>8

\* An event that has just been emitted is nowhere yet.
LEMMA EmitKeepsBound ==
    ASSUME LogInv, NEW kind \in Kinds, Emit(kind)
    PROVE  LoggedAtMostAsApplied'
<1>1. PICK v : events' = Append(events, v)
  BY DEF Emit
<1>2. UNCHANGED <<hook, log, applied>>
  BY DEF Emit
<1>3. /\ events \in Seq([kind : Kinds, plan : Plans, status : Statuses])
      /\ log \in Seq(1 .. Len(events)) /\ applied \in Seq(1 .. Len(events))
      /\ hook \in [Handlers -> [at : {"idle", "upsert", "append"}, event : 0 .. Len(events)]]
  BY DEF LogInv, TypeOK
<1>4. events' \in Seq({v} \cup [kind : Kinds, plan : Plans, status : Statuses])
  <2>1. events \in Seq({v} \cup [kind : Kinds, plan : Plans, status : Statuses])
    BY <1>3, SeqIsMonotonic
  <2> QED
    BY <1>1, <2>1
<1>5. /\ Len(events') = Len(events) + 1
      /\ DOMAIN events = 1 .. Len(events) /\ DOMAIN events' = 1 .. Len(events) + 1
      /\ \A e \in DOMAIN events : events'[e] = events[e]
  BY <1>1, <1>3
<1> SUFFICES ASSUME NEW e \in IdsOf(StateKinds)'
             PROVE  CountIn(log, e) + Cardinality(Appending(e)) <= CountIn(applied, e)
  BY <1>2 DEF LoggedAtMostAsApplied, Appending
<1>6. CASE e \in DOMAIN events
  BY <1>5, <1>6 DEF LogInv, LoggedAtMostAsApplied, Appending, IdsOf, KindAt
<1>7. CASE e \notin DOMAIN events
  <2>1. e = Len(events) + 1 /\ Len(events) \in Nat
    BY <1>3, <1>5, <1>7 DEF IdsOf
  <2>2. {i \in DOMAIN log : log[i] = e} = {}
    <3>1. \A i \in 1 .. Len(log) : log[i] \in 1 .. Len(events)
      BY <1>3, SeqElement
    <3> QED
      BY <1>3, <2>1, <3>1
  <2>3. Appending(e) = {}
    BY <1>3, <2>1 DEF Appending
  <2>4. CountIn(log, e) = 0 /\ Cardinality(Appending(e)) = 0
    BY <2>2, <2>3, FS_EmptySet DEF CountIn
  <2>5. CountIn(applied, e) \in Nat
    BY <1>3, CountType
  <2> QED
    BY <2>4, <2>5
<1> QED
  BY <1>6, <1>7

\* Every step keeps the bound.
LEMMA NextKeepsLogInv == LogInv /\ TypeOK' /\ [Next]_vars => LogInv'
<1> SUFFICES ASSUME LogInv, [Next]_vars PROVE LoggedAtMostAsApplied'
  BY DEF LogInv
<1>0. hook \in [Handlers -> [at : {"idle", "upsert", "append"}, event : 0 .. Len(events)]]
  BY DEF LogInv, TypeOK
<1>1. ASSUME NEW kind \in Kinds, Emit(kind) PROVE LoggedAtMostAsApplied'
  BY <1>1, EmitKeepsBound
<1>2. ASSUME NEW e \in DOMAIN events, Repeat(e) PROVE LoggedAtMostAsApplied'
  BY <1>2, FewerAppending DEF Repeat, Appending
<1>3. ASSUME NEW e \in DOMAIN events, NEW h \in Handlers, Deliver(h, e)
      PROVE  LoggedAtMostAsApplied'
  <2>1. UNCHANGED <<events, log, applied>>
    BY <1>3 DEF Deliver
  <2>2. ASSUME NEW s \in IdsOf(StateKinds) PROVE Appending(s)' \subseteq Appending(s)
    <3>1. KindAt(s) \in StateKinds
      BY <2>2 DEF IdsOf
    <3>2. \A g \in Handlers : g # h => hook'[g] = hook[g]
      BY <1>0, <1>3 DEF Deliver
    <3>3. hook'[h].at = "append" => hook'[h].event = e /\ KindAt(e) \notin StateKinds
      BY <1>0, <1>3 DEF Deliver
    <3> QED
      BY <3>1, <3>2, <3>3 DEF Appending
  <2> QED
    BY <2>1, <2>2, FewerAppending
<1>4. ASSUME NEW h \in Handlers, Upsert(h) PROVE LoggedAtMostAsApplied'
  BY <1>4, UpsertKeepsBound
<1>5. ASSUME NEW h \in Handlers, AppendEvent(h) PROVE LoggedAtMostAsApplied'
  BY <1>5, AppendKeepsBound
<1>6. ASSUME NEW h \in Handlers, HookFails(h) PROVE LoggedAtMostAsApplied'
  <2>1. UNCHANGED <<events, log, applied>> /\ hook' = [hook EXCEPT ![h] = IdleHook]
    BY <1>6 DEF HookFails
  <2>2. \A e \in IdsOf(StateKinds) : Appending(e)' \subseteq Appending(e)
    BY <1>0, <2>1 DEF Appending, IdleHook
  <2> QED
    BY <2>1, <2>2, FewerAppending
<1>7. CASE UNCHANGED vars
  BY <1>7, FewerAppending DEF vars, stripeVars, Appending
<1> QED
  BY <1>1, <1>2, <1>3, <1>4, <1>5, <1>6, <1>7 DEF Next, HookStep

\* A delivery that was caught as a duplicate leaves no trace in the log, however
\* many calls run at once and fail half-way.
THEOREM LogIsBounded == Spec => []LoggedAtMostAsApplied
<1>1. Init => LogInv
  <2> SUFFICES ASSUME Init PROVE LogInv
    OBVIOUS
  <2>1. TypeOK
    BY InitEstablishesIInv DEF IInv
  <2>2. IdsOf(StateKinds) = {}
    BY DEF Init, IdsOf
  <2> QED
    BY <2>1, <2>2 DEF LogInv, LoggedAtMostAsApplied
<1>2. LogInv => LoggedAtMostAsApplied
  BY DEF LogInv
<1> QED
  BY <1>1, <1>2, TypeCorrectness, NextKeepsLogInv, PTL DEF Spec

-----------------------------------------------------------------------------
(* The plan of the tenant.                                                 *)

ChangeKinds == {"created", "updated", "deleted"}

Was(e) == \E i \in 1 .. Len(applied) : applied[i] = e
Upserting(e) == \E h \in Handlers : hook[h].at = "upsert" /\ hook[h].event = e

\* The row is what the event applied last makes of it.
RowFollowsApplied ==
    /\ applied = <<>> => row = NoRow
    /\ applied # <<>> => row = Projection(applied[Len(applied)])

\* Only state events get to the row.
OnlyStatesApply ==
    /\ \A i \in 1 .. Len(applied) : applied[i] \in IdsOf(StateKinds)
    /\ \A h \in Handlers : hook[h].at = "upsert" => hook[h].event \in IdsOf(StateKinds)

\* A state event is to be delivered, or about to be applied, or was applied.
StatesAreKept == \A e \in IdsOf(StateKinds) : e \in inbox \/ Upserting(e) \/ Was(e)

\* What Stripe says of a deleted subscription, and that events are finitely many.
EventsMakeSense ==
    /\ \A e \in IdsOf({"deleted"}) : events[e].status = "canceled"
    /\ IdsOf(ChangeKinds) # {} =>
         \E e \in IdsOf(ChangeKinds) : \A f \in IdsOf(ChangeKinds) : f <= e

\* The inductive invariant behind the plan.
PlanInv == TypeOK /\ RowFollowsApplied /\ OnlyStatesApply /\ StatesAreKept /\ EventsMakeSense

\* The newest change, where there is one.
LEMMA NewestIsAChange ==
    ASSUME EventsMakeSense, IdsOf(ChangeKinds) # {}
    PROVE  NewestChange \in IdsOf(ChangeKinds)
           /\ \A f \in IdsOf(ChangeKinds) : f <= NewestChange
BY DEF EventsMakeSense, NewestChange, ChangeKinds

\* When everything has been applied in order, the row shows the newest change.
LEMMA PlanInvGivesPlan == PlanInv => PlanIsCurrentInOrder
<1> SUFFICES ASSUME PlanInv, Quiet,
                    \A i, j \in DOMAIN applied : i < j => applied[i] < applied[j],
                    IdsOf({"checkout"}) \subseteq 1 .. NewestChange
             PROVE  GetPlan = PaidPlan
  BY DEF PlanIsCurrentInOrder
<1>1. \A e \in IdsOf(StateKinds) : Was(e)
  BY DEF PlanInv, StatesAreKept, Quiet, Upserting
<1>2. IdsOf(StateKinds) = IdsOf({"checkout"}) \cup IdsOf(ChangeKinds)
  BY DEF IdsOf, StateKinds, ChangeKinds
<1>3. /\ applied \in Seq(1 .. Len(events)) /\ Len(applied) \in Nat /\ Len(events) \in Nat
      /\ DOMAIN events = 1 .. Len(events)
  BY DEF PlanInv, TypeOK
<1>4. CASE IdsOf(ChangeKinds) = {}
  <2>1. NewestChange = 0
    BY <1>4 DEF NewestChange, ChangeKinds
  <2>2. IdsOf(StateKinds) = {}
    BY <1>2, <1>4, <2>1
  <2>3. applied = <<>>
    BY <1>3, <2>2 DEF PlanInv, OnlyStatesApply
  <2> QED
    BY <2>1, <2>3 DEF PlanInv, RowFollowsApplied, GetPlan, PaidPlan, NoRow
<1>5. CASE IdsOf(ChangeKinds) # {}
  <2> DEFINE n == NewestChange
             l == applied[Len(applied)]
  <2>1. n \in IdsOf(ChangeKinds) /\ \A f \in IdsOf(ChangeKinds) : f <= n
    BY <1>5, NewestIsAChange DEF PlanInv
  <2>2. n \in 1 .. Len(events)
    BY <1>3, <2>1 DEF IdsOf
  <2> HIDE DEF n
  <2>3. PICK i \in 1 .. Len(applied) : applied[i] = n
    BY <1>1, <1>2, <2>1 DEF Was
  <2>4. applied # <<>> /\ Len(applied) \in DOMAIN applied /\ DOMAIN applied = 1 .. Len(applied)
    BY <1>3, <2>3
  <2>5. l \in 1 .. Len(events) /\ n <= l
    <3>1. CASE i = Len(applied)
      BY <2>2, <2>3, <3>1
    <3>2. CASE i # Len(applied)
      <4>1. i < Len(applied)
        BY <1>3, <2>3, <3>2
      <4>2. applied[i] < l
        BY <2>4, <4>1
      <4>3. l \in 1 .. Len(events)
        BY <1>3, <2>4
      <4> QED
        BY <2>2, <2>3, <4>2, <4>3
    <3> QED
      BY <3>1, <3>2
  <2>6. l \in IdsOf(StateKinds)
    BY <2>4 DEF PlanInv, OnlyStatesApply
  <2>7. l <= n
    <3>1. CASE l \in IdsOf(ChangeKinds)
      BY <2>1, <3>1
    <3>2. CASE l \in IdsOf({"checkout"})
      <4>1. l \in 1 .. n
        BY <3>2 DEF n
      <4> HIDE DEF l
      <4> QED
        BY <2>2, <4>1
    <3> QED
      BY <1>2, <2>6, <3>1, <3>2
  <2>8. l = n
    BY <2>2, <2>5, <2>7
  <2>9. row = Projection(n)
    BY <2>4, <2>8 DEF PlanInv, RowFollowsApplied
  <2>10. KindAt(n) = "deleted" => events[n].status = "canceled"
    <3>1. KindAt(n) = "deleted" => n \in IdsOf({"deleted"})
      BY <1>3, <2>2 DEF IdsOf
    <3> QED
      BY <3>1 DEF PlanInv, EventsMakeSense
  <2>11. n # 0
    BY <2>2
  <2>12. GetPlan = IF events[n].status \in {"active", "past_due"} THEN events[n].plan ELSE "free"
    BY <2>9, <2>10 DEF GetPlan, Projection
  <2>13. PaidPlan = IF events[n].status \in {"active", "past_due"} THEN events[n].plan ELSE "free"
    BY <2>11 DEF PaidPlan, n
  <2> QED
    BY <2>12, <2>13
<1> QED
  BY <1>4, <1>5

\* A new event leaves the older ones as they are.
LEMMA EmitGrows ==
    ASSUME TypeOK, NEW kind \in Kinds, Emit(kind)
    PROVE  /\ Len(events') = Len(events) + 1 /\ Len(events) \in Nat
           /\ DOMAIN events = 1 .. Len(events) /\ DOMAIN events' = 1 .. Len(events')
           /\ \A e \in DOMAIN events : events'[e] = events[e]
           /\ events'[Len(events')].kind = kind
           /\ events'[Len(events')].status \in StatusesOf(kind)
           /\ inbox' = inbox \cup {Len(events')}
           /\ UNCHANGED <<hook, row, applied>>
<1>1. PICK plan \in PlansOf(kind), status \in StatusesOf(kind) :
        events' = Append(events, [kind |-> kind, plan |-> plan, status |-> status])
  BY DEF Emit
<1> DEFINE v == [kind |-> kind, plan |-> plan, status |-> status]
           S == [kind : Kinds, plan : Plans, status : Statuses]
<1>2. events \in Seq(S \cup {v})
  <2>1. events \in Seq(S)
    BY DEF TypeOK
  <2> QED
    BY <2>1, SeqIsMonotonic
<1>3. v.kind = kind /\ v.status = status
  OBVIOUS
<1>4. events' = Append(events, v)
  BY <1>1
<1> HIDE DEF v, S
<1>5. /\ Len(events') = Len(events) + 1 /\ Len(events) \in Nat
      /\ DOMAIN events = 1 .. Len(events) /\ DOMAIN events' = 1 .. Len(events')
      /\ \A e \in DOMAIN events : events'[e] = events[e]
      /\ events'[Len(events')] = v
  BY <1>2, <1>4
<1> QED
  BY <1>1, <1>3, <1>5 DEF Emit

\* Emitting keeps what is known of the plan.
LEMMA EmitKeepsPlanInv ==
    ASSUME PlanInv, TypeOK', NEW kind \in Kinds, Emit(kind)
    PROVE  PlanInv'
<1> DEFINE new == Len(events')
<1>1. /\ new = Len(events) + 1 /\ Len(events) \in Nat
      /\ DOMAIN events = 1 .. Len(events) /\ DOMAIN events' = 1 .. new
      /\ \A e \in DOMAIN events : events'[e] = events[e]
      /\ events'[new].kind = kind
      /\ events'[new].status \in StatusesOf(kind)
      /\ inbox' = inbox \cup {new}
      /\ UNCHANGED <<hook, row, applied>>
  BY EmitGrows DEF PlanInv
<1> HIDE DEF new
<1>2. ASSUME NEW K PROVE IdsOf(K)' = IdsOf(K) \cup (IF kind \in K THEN {new} ELSE {})
  BY <1>1 DEF IdsOf, KindAt
<1>3. \A e \in DOMAIN events : Projection(e)' = Projection(e)
  BY <1>1 DEF Projection, KindAt
<1>4. RowFollowsApplied'
  <2>1. applied # <<>> => applied[Len(applied)] \in DOMAIN events
    BY <1>1 DEF PlanInv, TypeOK
  <2> QED
    BY <1>1, <1>3, <2>1 DEF PlanInv, RowFollowsApplied
<1>5. OnlyStatesApply'
  BY <1>1, <1>2 DEF PlanInv, OnlyStatesApply
<1>6. StatesAreKept'
  BY <1>1, <1>2 DEF PlanInv, StatesAreKept, Upserting, Was
<1>7. EventsMakeSense'
  <2>1. \A e \in IdsOf({"deleted"})' : events'[e].status = "canceled"
    <3>1. kind = "deleted" => StatusesOf(kind) = {"canceled"}
      BY DEF StatusesOf
    <3>2. \A e \in IdsOf({"deleted"}) : e \in DOMAIN events /\ events[e].status = "canceled"
      BY DEF PlanInv, EventsMakeSense, IdsOf
    <3> QED
      BY <1>1, <1>2, <3>1, <3>2
  <2>2. ASSUME IdsOf(ChangeKinds)' # {}
        PROVE  \E e \in IdsOf(ChangeKinds)' : \A f \in IdsOf(ChangeKinds)' : f <= e
    <3>1. \A f \in IdsOf(ChangeKinds) : f <= new
      BY <1>1 DEF IdsOf
    <3>2. CASE kind \in ChangeKinds
      <4>1. new \in IdsOf(ChangeKinds)' /\ \A f \in IdsOf(ChangeKinds)' : f <= new
        BY <1>1, <1>2, <3>1, <3>2
      <4> QED
        BY <4>1
    <3>3. CASE kind \notin ChangeKinds
      BY <1>2, <2>2, <3>3 DEF PlanInv, EventsMakeSense
    <3> QED
      BY <3>2, <3>3
  <2> QED
    BY <2>1, <2>2 DEF EventsMakeSense
<1> QED
  BY <1>4, <1>5, <1>6, <1>7 DEF PlanInv

\* A call that writes the row, or finds that it has been written, keeps it so.
LEMMA UpsertKeepsPlanInv ==
    ASSUME PlanInv, TypeOK', NEW h \in Handlers, Upsert(h)
    PROVE  PlanInv'
<1> DEFINE x == hook[h].event
<1>1. /\ UNCHANGED <<events, inbox>> /\ hook[h].at = "upsert"
      /\ x \in 1 .. Len(events) /\ x \in IdsOf(StateKinds)
      /\ applied \in Seq(1 .. Len(events)) /\ Len(applied) \in Nat
      /\ hook \in [Handlers -> [at : {"idle", "upsert", "append"}, event : 0 .. Len(events)]]
  BY DEF Upsert, stripeVars, PlanInv, TypeOK, OnlyStatesApply
<1>2. \A K : IdsOf(K)' = IdsOf(K)
  BY <1>1 DEF IdsOf, KindAt
<1>3. EventsMakeSense'
  BY <1>1, <1>2 DEF PlanInv, EventsMakeSense
<1>4. \A g \in Handlers : g # h => hook'[g] = hook[g]
  BY <1>1 DEF Upsert
<1>5. hook'[h].at # "upsert"
  BY <1>1 DEF Upsert, IdleHook
<1>6. \A e : Upserting(e) => e = x \/ Upserting(e)'
  BY <1>4 DEF Upserting
<1>7. CASE UpsertCondition(x)
  <2>1. applied' = Append(applied, x) /\ row' = Projection(x)
    BY <1>7 DEF Upsert
  <2>2. /\ Len(applied') = Len(applied) + 1 /\ applied' # <<>>
        /\ applied'[Len(applied')] = x
        /\ \A i \in 1 .. Len(applied) : applied'[i] = applied[i]
    <3> HIDE DEF x
    <3> QED
      BY <1>1, <2>1
  <2>3. RowFollowsApplied'
    <3>1. row' = Projection(applied'[Len(applied')])
      BY <2>1, <2>2
    <3> QED
      BY <1>1, <2>2, <3>1 DEF RowFollowsApplied, Projection, KindAt
  <2>4. OnlyStatesApply'
    <3>1. ASSUME NEW i \in 1 .. Len(applied') PROVE applied'[i] \in IdsOf(StateKinds)
      <4>1. i = Len(applied') \/ i \in 1 .. Len(applied)
        BY <1>1, <2>2
      <4> QED
        BY <1>1, <2>2, <4>1 DEF PlanInv, OnlyStatesApply
    <3>2. \A g \in Handlers : hook'[g].at = "upsert" => hook'[g].event \in IdsOf(StateKinds)
      BY <1>4, <1>5 DEF PlanInv, OnlyStatesApply
    <3> QED
      BY <1>2, <3>1, <3>2 DEF OnlyStatesApply
  <2>5. \A e : e = x \/ Was(e) => Was(e)'
    <3>1. Len(applied') \in 1 .. Len(applied')
          /\ \A i \in 1 .. Len(applied) : i \in 1 .. Len(applied')
      <4> HIDE DEF x
      <4> QED
        BY <1>1, <2>2
    <3> QED
      BY <2>2, <3>1 DEF Was
  <2>6. StatesAreKept'
    BY <1>1, <1>2, <1>6, <2>5 DEF PlanInv, StatesAreKept
  <2> QED
    BY <1>3, <2>3, <2>4, <2>6 DEF PlanInv
<1>8. CASE ~UpsertCondition(x)
  <2>1. UNCHANGED <<row, applied>> /\ row.last = x
    BY <1>8 DEF Upsert, UpsertCondition
  <2>2. applied # <<>> /\ x = applied[Len(applied)]
    BY <1>1, <2>1 DEF PlanInv, RowFollowsApplied, Projection, NoRow
  <2>3. Was(x)
    BY <1>1, <2>2 DEF Was
  <2>4. RowFollowsApplied'
    BY <1>1, <2>1 DEF PlanInv, RowFollowsApplied, Projection, KindAt
  <2>5. OnlyStatesApply'
    BY <1>1, <1>2, <1>4, <1>5, <2>1 DEF PlanInv, OnlyStatesApply
  <2>6. \A e : Was(e)' = Was(e)
    BY <2>1 DEF Was
  <2>7. StatesAreKept'
    BY <1>1, <1>2, <1>6, <2>3, <2>6 DEF PlanInv, StatesAreKept
  <2> QED
    BY <1>3, <2>4, <2>5, <2>7 DEF PlanInv
<1> QED
  BY <1>7, <1>8

\* A step that leaves the row alone keeps what is known of the plan, when no
\* state event gets out of sight.
LEMMA OtherStepKeepsPlanInv ==
    ASSUME PlanInv, TypeOK', UNCHANGED <<events, row, applied>>,
           \A g \in Handlers : hook'[g].at = "upsert" =>
             hook'[g] = hook[g] \/ hook'[g].event \in IdsOf(StateKinds),
           \A e \in IdsOf(StateKinds) :
             e \in inbox \/ Upserting(e) => e \in inbox' \/ Upserting(e)'
    PROVE  PlanInv'
<1>1. \A K : IdsOf(K)' = IdsOf(K)
  BY DEF IdsOf, KindAt
<1>2. RowFollowsApplied' /\ EventsMakeSense'
  BY <1>1 DEF PlanInv, RowFollowsApplied, EventsMakeSense, Projection, KindAt
<1>3. OnlyStatesApply'
  BY <1>1 DEF PlanInv, OnlyStatesApply
<1>4. StatesAreKept'
  <2>1. \A e : Was(e)' = Was(e)
    BY DEF Was
  <2> QED
    BY <1>1, <2>1 DEF PlanInv, StatesAreKept
<1> QED
  BY <1>2, <1>3, <1>4 DEF PlanInv

\* Every step keeps it, if Stripe's state events carry the user's id.
LEMMA NextKeepsPlanInv ==
    ASSUME StateKinds \subseteq UserIdOn
    PROVE  PlanInv /\ TypeOK' /\ [Next]_vars => PlanInv'
<1> SUFFICES ASSUME PlanInv, TypeOK', [Next]_vars PROVE PlanInv'
  OBVIOUS
<1>0. hook \in [Handlers -> [at : {"idle", "upsert", "append"}, event : 0 .. Len(events)]]
  BY DEF PlanInv, TypeOK
<1>1. ASSUME NEW kind \in Kinds, Emit(kind) PROVE PlanInv'
  BY <1>1, EmitKeepsPlanInv
<1>2. ASSUME NEW e \in DOMAIN events, Repeat(e) PROVE PlanInv'
  BY <1>2, OtherStepKeepsPlanInv DEF Repeat, Upserting
<1>3. ASSUME NEW x \in DOMAIN events, NEW h \in Handlers, Deliver(h, x) PROVE PlanInv'
  <2>1. /\ UNCHANGED <<events, row, applied>> /\ inbox' = inbox \ {x}
        /\ hook[h].at = "idle"
        /\ \A g \in Handlers : g # h => hook'[g] = hook[g]
    BY <1>0, <1>3 DEF Deliver
  <2>2. hook'[h].at = "upsert" => hook'[h].event = x /\ x \in IdsOf(StateKinds)
    BY <1>0, <1>3 DEF Deliver, IdsOf
  <2>3. x \in IdsOf(StateKinds) => hook'[h].at = "upsert" /\ hook'[h].event = x
    BY <1>0, <1>3 DEF Deliver, IdsOf
  <2>4. ASSUME NEW e \in IdsOf(StateKinds), e \in inbox \/ Upserting(e)
        PROVE  e \in inbox' \/ Upserting(e)'
    <3>1. CASE e = x
      BY <2>3, <3>1 DEF Upserting
    <3>2. CASE e # x
      BY <2>1, <2>4, <3>2 DEF Upserting
    <3> QED
      BY <3>1, <3>2
  <2> QED
    BY <2>1, <2>2, <2>4, OtherStepKeepsPlanInv
<1>4. ASSUME NEW h \in Handlers, Upsert(h) PROVE PlanInv'
  BY <1>4, UpsertKeepsPlanInv
<1>5. ASSUME NEW h \in Handlers, AppendEvent(h) \/ HookFails(h) PROVE PlanInv'
  <2>1. /\ UNCHANGED <<events, row, applied>> /\ inbox \subseteq inbox'
        /\ hook' = [hook EXCEPT ![h] = IdleHook]
        /\ hook[h].at = "upsert" => hook[h].event \in inbox'
    BY <1>5 DEF AppendEvent, HookFails, stripeVars
  <2>2. /\ \A g \in Handlers : g # h => hook'[g] = hook[g]
        /\ hook'[h].at = "idle"
    BY <1>0, <2>1 DEF IdleHook
  <2>3. ASSUME NEW e \in IdsOf(StateKinds), e \in inbox \/ Upserting(e)
        PROVE  e \in inbox' \/ Upserting(e)'
    BY <2>1, <2>2, <2>3 DEF Upserting
  <2> QED
    BY <2>1, <2>2, <2>3, OtherStepKeepsPlanInv
<1>6. CASE UNCHANGED vars
  BY <1>6, OtherStepKeepsPlanInv DEF vars, stripeVars, Upserting
<1> QED
  BY <1>1, <1>2, <1>3, <1>4, <1>5, <1>6 DEF Next, HookStep

\* When every state event carries the user's id, the events were applied in
\* order and the last of them is about the subscription itself, the tenant has
\* the plan it pays for once all is answered, whatever calls failed meanwhile.
THEOREM PlanIsPaidFor ==
    ASSUME StateKinds \subseteq UserIdOn
    PROVE  Spec => []PlanIsCurrentInOrder
<1>1. Init => PlanInv
  <2> SUFFICES ASSUME Init PROVE PlanInv
    OBVIOUS
  <2>1. TypeOK
    BY InitEstablishesIInv DEF IInv
  <2>2. \A K : IdsOf(K) = {}
    BY DEF Init, IdsOf
  <2>3. Len(applied) = 0 /\ applied = <<>> /\ row = NoRow
    BY DEF Init
  <2>4. \A h \in Handlers : hook[h].at = "idle"
    BY DEF Init, IdleHook
  <2> QED
    BY <2>1, <2>2, <2>3, <2>4
       DEF PlanInv, RowFollowsApplied, OnlyStatesApply, StatesAreKept, EventsMakeSense
<1>2. PlanInv /\ TypeOK' /\ [Next]_vars => PlanInv'
  BY NextKeepsPlanInv
<1> QED
  BY <1>1, <1>2, TypeCorrectness, PlanInvGivesPlan, PTL DEF Spec
=============================================================================
