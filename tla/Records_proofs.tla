----------------------------- MODULE Records_proofs -----------------------------
(***************************************************************************)
(* Proofs about the services that keep records for users, each for any     *)
(* values of its constants.  A component takes its steps among those of    *)
(* the others, which leave its variables alone: so what its own steps keep *)
(* holds of Records as a whole.                                            *)
(***************************************************************************)
EXTENDS Records, Integers, Sequences, SequenceTheorems, TLAPS

-----------------------------------------------------------------------------
(* The session records of session-manager.                                 *)

\* What a PATCH is about to write was allowed from what it read.
WishesAreChecked ==
    \A q \in Requests :
        req[q].at = "write" /\ req[q].kind = "patch" =>
            WishIsAllowed(req[q].seen, req[q].wish)

\* The inductive invariant.
SessionInv == TypeOK /\ NoResurrection /\ WishesAreChecked

\* Nothing is created and nothing has expired at first.
LEMMA InitEstablishesSessionInv == Init => SessionInv
BY DEF Init, SessionInv, TypeOK, NoResurrection, WishesAreChecked, Idle

\* Whatever a request writes is a status.
LEMMA WishIsStatus ==
    ASSUME SessionInv, NEW q \in Requests, req[q].at = "write"
    PROVE  req[q] \in Writing
BY DEF SessionInv, TypeOK, Idle, Writing

\* The records change through requests that read them, and the TTL.
LEMMA NextKeepsSessionInv == SessionInv /\ [Next]_vars => SessionInv'
<1> SUFFICES ASSUME SessionInv, [Next]_vars PROVE SessionInv'
  OBVIOUS
<1> USE DEF SessionInv, TypeOK, NoResurrection, WishesAreChecked
<1>1. ASSUME NEW s \in Sessions, CreateSession(s) PROVE SessionInv'
  BY <1>1 DEF CreateSession, Statuses
<1>2. ASSUME NEW s \in Sessions, Expire(s) PROVE SessionInv'
  BY <1>2 DEF Expire
<1>3. ASSUME NEW q \in Requests, NEW s \in Sessions, ReadForDelete(q, s)
      PROVE  SessionInv'
  BY <1>3 DEF ReadForDelete, StartWriting, Writing, Idle, Statuses, Wishes
<1>4. ASSUME NEW q \in Requests, NEW s \in Sessions, NEW wish \in Wishes,
             ReadForPatch(q, s, wish)
      PROVE  SessionInv'
  BY <1>4 DEF ReadForPatch, StartWriting, Writing
<1>5. ASSUME NEW q \in Requests, Write(q) PROVE SessionInv'
  <2>1. req[q] \in Writing
    BY <1>5, WishIsStatus DEF Write
  <2>2. status' \in [Sessions -> Statuses \cup {"none"}] /\ NoResurrection'
    BY <1>5, <2>1 DEF Write, Writing, Wishes, UpdateCondition
  <2>3. req' \in [Requests -> Idle \cup Writing] /\ WishesAreChecked'
    BY <1>5 DEF Write, Idle
  <2> QED
    BY <1>5, <2>2, <2>3 DEF Write
<1>6. ASSUME NEW q \in Requests, RequestDies(q) PROVE SessionInv'
  BY <1>6 DEF RequestDies, Idle
<1>7. CASE UNCHANGED vars
  BY <1>7 DEF vars
<1> QED
  BY <1>1, <1>2, <1>3, <1>4, <1>5, <1>6, <1>7 DEF Next

\* A record's status changes by a request's write, its creation or its TTL.
LEMMA MovesAreWrites ==
    ASSUME SessionInv, Next, NEW s \in Sessions,
           status[s] # "none", status'[s] # "none", status'[s] # status[s]
    PROVE  \E q \in Requests :
             /\ Write(q) /\ req[q].session = s /\ status'[s] = req[q].wish
             /\ req[q].wish # "keep"
<1> USE DEF SessionInv, TypeOK
<1>1. ~ \E t \in Sessions : CreateSession(t) \/ Expire(t)
  BY DEF CreateSession, Expire
<1>2. ~ \E q \in Requests, t \in Sessions :
          \/ ReadForDelete(q, t)
          \/ \E wish \in Wishes : ReadForPatch(q, t, wish)
  BY DEF ReadForDelete, ReadForPatch
<1>3. ~ \E q \in Requests : RequestDies(q)
  BY DEF RequestDies
<1>4. PICK q \in Requests : Write(q)
  BY <1>1, <1>2, <1>3 DEF Next
<1>5. req[q] \in Writing
  BY <1>4, WishIsStatus DEF Write
<1> QED
  BY <1>4, <1>5 DEF Write, Writing

\* Every move against the transition table is a DELETE, or a PATCH whose read
\* was out of date when it wrote.
LEMMA StepMovesLegally ==
    ASSUME SessionInv, Next, NEW s \in Sessions,
           status[s] # "none", status'[s] # "none",
           status'[s] \notin AllowedFrom(status[s]) \cup {status[s]}
    PROVE  \E q \in Requests :
             /\ req[q].at = "write" /\ req'[q].at = "idle"
             /\ req[q].session = s
             /\ req[q].kind = "delete" \/ req[q].seen # status[s]
<1>1. PICK q \in Requests :
        /\ Write(q) /\ req[q].session = s /\ status'[s] = req[q].wish
        /\ req[q].wish # "keep"
  BY MovesAreWrites
<1>2. req[q] \in Writing /\ req[q].at = "write"
  BY <1>1, WishIsStatus DEF Write
<1>3. req'[q].at = "idle"
  BY <1>1 DEF Write, SessionInv, TypeOK
<1>4. req[q].kind = "delete" \/ req[q].wish \in AllowedFrom(req[q].seen)
  BY <1>1, <1>2 DEF Writing, SessionInv, WishesAreChecked, WishIsAllowed
<1> QED
  BY <1>1, <1>2, <1>3, <1>4

\* SessionInv holds in every reachable state.
LEMMA SessionInvHolds == Spec => []SessionInv
BY InitEstablishesSessionInv, NextKeepsSessionInv, PTL DEF Spec

\* Records and requests have their types.
THEOREM SessionTypeCorrectness == Spec => []TypeOK
BY SessionInvHolds, PTL DEF SessionInv

\* No update, however late, recreates a record that the TTL has deleted.
THEOREM ExpiredStayExpired == Spec => []NoResurrection
BY SessionInvHolds, PTL DEF SessionInv

\* Statuses move along ALLOWED_TRANSITIONS, but for DELETE and overtaken
\* PATCH requests.
THEOREM MovesAreLegalOrRaces == Spec => IllegalMovesAreRaces
<1>1. SessionInv /\ [Next]_vars =>
        [\A s \in Sessions :
           /\ status[s] # "none" /\ status'[s] # "none"
           /\ status'[s] \notin AllowedFrom(status[s]) \cup {status[s]}
           => \E q \in Requests :
                /\ req[q].at = "write" /\ req'[q].at = "idle"
                /\ req[q].session = s
                /\ req[q].kind = "delete" \/ req[q].seen # status[s]]_vars
  BY StepMovesLegally
<1> QED
  BY <1>1, SessionInvHolds, PTL DEF Spec, IllegalMovesAreRaces

-----------------------------------------------------------------------------
(* The paged listing of sessions.                                          *)

\* Down to position low, the walk has seen all that lasts.
SeenDownTo(low) == low # Top => \A p \in lasting : p >= low => p \in seen

\* Nothing below low has been seen, and nothing at all before the first page.
NothingSeenBelow(low) ==
    /\ low = Top => seen = {}
    /\ low # Top => \A p \in seen : p >= low

\* How far the walk has come is where its next page starts.
WalkIsInStep ==
    /\ at = "request" => SeenDownTo(cursor)
    /\ at = "query" => SeenDownTo(start)

WalkIsFresh ==
    ~restarted =>
        /\ at = "request" => NothingSeenBelow(cursor)
        /\ at = "query" => NothingSeenBelow(start)

\* The inductive invariant.
ListingInv ==
    /\ ListingTypeOK
    /\ WalkIsInStep /\ WalkIsFresh
    /\ WalkIsComplete /\ RepeatsAfterRestart

\* Before the first walk nothing has been seen.
LEMMA InitEstablishesListingInv == ListingInit => ListingInv
BY ListingAssumption
   DEF ListingInit, ListingInv, ListingTypeOK, WalkIsInStep, WalkIsFresh, WalkIsComplete,
       RepeatsAfterRestart

\* A page is all of what was left, or reaches down to its cursor.
LEMMA PageIsUpwardClosed ==
    ASSUME NEW rest \in SUBSET Nat, NEW part, IsPage(part, rest),
           CursorOrEnd(part, rest)
    PROVE  /\ at' = "end" /\ cursor' = Top => part = rest
           /\ at' = "request" =>
                /\ cursor' \in part
                /\ \A p \in part : p >= cursor'
                /\ \A p \in rest : p >= cursor' => p \in part
           /\ at' \in {"request", "end"}
           /\ at' = "end" => cursor' = Top
<1>1. ASSUME at' = "request", NEW p \in rest, p >= cursor' PROVE p \in part
  <2>1. cursor' \in part /\ cursor' \in Nat /\ p \in Nat
    BY <1>1 DEF CursorOrEnd, IsPage
  <2>2. p = cursor' \/ p > cursor'
    BY <1>1, <2>1
  <2> QED
    BY <2>1, <2>2 DEF IsPage
<1>2. at' = "request" => cursor' \in part /\ \A p \in part : p >= cursor'
  BY DEF CursorOrEnd, IsPage
<1> QED
  BY <1>1, <1>2 DEF CursorOrEnd

\* One page further, the walk has still seen all that lasts, and nothing twice
\* unless it was restarted.
LEMMA QueryKeepsListingInv == ListingInv /\ QueryPage => ListingInv'
<1> SUFFICES ASSUME ListingInv, QueryPage PROVE ListingInv'
  OBVIOUS
<1>1. PICK part \in SUBSET BelowStart :
        /\ IsPage(part, BelowStart)
        /\ CursorOrEnd(part, BelowStart)
        /\ seen' = seen \cup part
        /\ repeated' = repeated \cup (seen \cap part)
  BY DEF QueryPage
<1>2. /\ at = "query" /\ start' = Top
      /\ UNCHANGED <<used, table, index, lasting, restarted>>
  BY DEF QueryPage, tableVars
<1>3. Positions \subseteq Nat \ {Top} /\ index \subseteq Positions
  BY ListingAssumption DEF ListingInv, ListingTypeOK, Top
<1>4. BelowStart \in SUBSET Nat /\ part \subseteq index
  BY <1>1, <1>3 DEF BelowStart
<1>5. /\ at' \in {"request", "end"}
      /\ at' = "end" => part = BelowStart /\ cursor' = Top
      /\ at' = "request" =>
           /\ cursor' \in part
           /\ \A p \in part : p >= cursor'
           /\ \A p \in BelowStart : p >= cursor' => p \in part
  BY <1>1, <1>4, PageIsUpwardClosed
<1>6. ListingTypeOK'
  BY <1>1, <1>2, <1>3, <1>4, <1>5 DEF ListingInv, ListingTypeOK
<1>7. ASSUME NEW p \in lasting, p \notin seen PROVE p \in BelowStart
  <2>1. p \in index /\ p \in Nat /\ start \in Nat
    BY <1>3 DEF ListingInv, ListingTypeOK, Top
  <2> QED
    BY <1>2, <1>7, <2>1 DEF ListingInv, WalkIsInStep, SeenDownTo, BelowStart
<1>8. WalkIsInStep' /\ WalkIsComplete'
  BY <1>1, <1>2, <1>5, <1>7
     DEF WalkIsInStep, SeenDownTo, WalkIsComplete
<1>9. ASSUME ~restarted PROVE seen \cap part = {}
  <2>1. SUFFICES ASSUME NEW p \in seen, p \in part PROVE FALSE
    OBVIOUS
  <2>2. NothingSeenBelow(start) /\ start \in Nat /\ p \in Nat
    BY <1>2, <1>3, <1>9 DEF ListingInv, WalkIsFresh, ListingTypeOK, Top
  <2>3. start # Top /\ p >= start
    BY <2>2 DEF NothingSeenBelow
  <2>4. p < start
    BY <2>1, <2>3 DEF BelowStart
  <2> QED
    BY <2>2, <2>3, <2>4
<1>10. RepeatsAfterRestart'
  BY <1>1, <1>2, <1>9 DEF ListingInv, RepeatsAfterRestart
<1>11. WalkIsFresh'
  <2>1. SUFFICES ASSUME ~restarted, at' = "request"
                 PROVE  NothingSeenBelow(cursor)'
    <3>1. at' # "query" /\ restarted' = restarted
      BY <1>2, <1>5
    <3> QED
      BY <3>1 DEF WalkIsFresh
  <2>2. cursor' \in part /\ cursor' \in Nat /\ cursor' # Top
    BY <1>3, <1>4, <1>5, <2>1
  <2>3. ASSUME NEW p \in seen PROVE p >= cursor'
    <3>1. NothingSeenBelow(start) /\ start \in Nat /\ p \in Nat
      BY <1>2, <1>3, <2>1 DEF ListingInv, WalkIsFresh, ListingTypeOK, Top
    <3>2. start # Top /\ p >= start
      BY <3>1 DEF NothingSeenBelow
    <3>3. cursor' < start
      BY <1>1, <2>2, <3>2 DEF BelowStart
    <3> QED
      BY <2>2, <3>1, <3>2, <3>3
  <2> QED
    BY <1>1, <1>5, <2>1, <2>2, <2>3 DEF NothingSeenBelow
<1> QED
  BY <1>6, <1>8, <1>10, <1>11 DEF ListingInv

\* Every other step keeps the walk where it is, or only takes from what lasts.
LEMMA NextKeepsListingInv == ListingInv /\ [ListingNext]_listingVars => ListingInv'
<1> SUFFICES ASSUME ListingInv, [ListingNext]_listingVars PROVE ListingInv'
  OBVIOUS
<1> USE DEF ListingInv, ListingTypeOK, WalkIsInStep, WalkIsFresh, SeenDownTo,
            NothingSeenBelow, WalkIsComplete, RepeatsAfterRestart
<1>1. ASSUME NEW p \in Positions, Create(p) PROVE ListingInv'
  BY <1>1 DEF Create, walkVars
<1>2. ASSUME NEW p \in Positions, ExpireAt(p) PROVE ListingInv'
  BY <1>2 DEF ExpireAt, walkVars
<1>3. ASSUME NEW p \in Positions, Propagate(p) PROVE ListingInv'
  BY <1>3 DEF Propagate, walkVars
<1>4. CASE BeginWalk
  BY <1>4 DEF BeginWalk, tableVars
<1>5. CASE ResolveCursor
  BY <1>5, ListingAssumption DEF ResolveCursor, tableVars, Top
<1>6. CASE QueryPage
  BY <1>6, QueryKeepsListingInv
<1>7. CASE UNCHANGED listingVars
  BY <1>7 DEF listingVars, tableVars, walkVars
<1> QED
  BY <1>1, <1>2, <1>3, <1>4, <1>5, <1>6, <1>7 DEF ListingNext, WalkStep

\* ListingInv holds in every reachable state.
LEMMA ListingInvHolds == ListingSpec => []ListingInv
BY InitEstablishesListingInv, NextKeepsListingInv, PTL DEF ListingSpec

\* Tables, pages and cursors have their types.
THEOREM ListingTypeCorrectness == ListingSpec => []ListingTypeOK
BY ListingInvHolds, PTL DEF ListingInv

\* A walk lists every session that is indexed from its first page to its last,
\* whatever is created and expires meanwhile.
THEOREM ListingIsComplete == ListingSpec => []WalkIsComplete
BY ListingInvHolds, PTL DEF ListingInv

\* A walk whose cursors could all be resolved lists no session twice.
THEOREM ListingIsWithoutRepeats == ListingSpec => []RepeatsAfterRestart
BY ListingInvHolds, PTL DEF ListingInv

-----------------------------------------------------------------------------
(* Notification.                                                           *)

Sends ==
    [pc : {"idle", "rejected", "send", "store", "audit", "answered", "error"},
     channel : {"email", "webhook", None}, attempts : Nat, success : BOOLEAN]

NoticeTypeOK ==
    /\ sends \in [Notices -> Sends]
    /\ received \in [Notices -> Nat]
    /\ kept \in [Notices -> {None} \cup [status : {"sent", "failed"}, attempts : Nat]]

\* Each attempt brings the message to its target once at most, an e-mail is tried
\* once, and what is about to be stored as sent has been taken.
SendsAreCounted ==
    \A q \in Notices :
        /\ sends[q].pc \in {"idle", "send", "store"} =>
             received[q] <= sends[q].attempts /\ kept[q] = None
        /\ sends[q].pc = "idle" => sends[q].attempts = 0
        /\ sends[q].pc = "send" /\ sends[q].channel = "email" => sends[q].attempts = 0
        /\ sends[q].pc = "store" /\ sends[q].success => received[q] > 0

NoticeInv == NoticeTypeOK /\ SendsAreCounted /\ RecordsAreTrue

\* At first nothing has been tried and nothing is recorded.
LEMMA InitEstablishesNoticeInv == Notice!Init => NoticeInv
BY DEF Notice!Init, NoticeInv, NoticeTypeOK, Sends, SendsAreCounted, RecordsAreTrue,
       Notice!RecordsAreTrue

\* An attempt is counted whether or not its answer arrives.
LEMMA AttemptKeepsNoticeInv ==
    ASSUME NoticeInv, NEW q \in Notices, Notice!Attempt(q)
    PROVE  NoticeInv'
<1> USE DEF NoticeInv, NoticeTypeOK
<1>1. PICK success \in BOOLEAN, pc \in {"send", "store"} :
        /\ sends' = [sends EXCEPT ![q] =
             [sends[q] EXCEPT !.attempts = sends[q].attempts + 1,
                              !.success = success, !.pc = pc]]
        /\ \/ received' = [received EXCEPT ![q] = @ + 1]
           \/ ~success /\ received' = received
  <2>1. PICK outcome \in {"2xx", "4xx", "5xx", "lost"} :
          /\ outcome = "2xx" => Notice!Take(q)
          /\ Notice!Take(q) \/ UNCHANGED received
          /\ Notice!Step(q, [sends[q] EXCEPT
                !.attempts = sends[q].attempts + 1,
                !.success = outcome = "2xx",
                !.pc = IF outcome = "2xx" \/ Notice!Final(outcome)
                            \/ sends[q].attempts + 1 = MaxAttempts
                       THEN "store" ELSE "send"])
    BY DEF Notice!Attempt
  <2>2. CASE outcome = "2xx"
    BY <2>1, <2>2 DEF Notice!Take, Notice!Step
  <2>3. CASE outcome # "2xx"
    BY <2>1, <2>3 DEF Notice!Take, Notice!Step
  <2> QED
    BY <2>2, <2>3
<1>2. /\ sends[q].pc = "send" /\ sends[q].channel = "webhook"
      /\ UNCHANGED <<kept, audit>>
  BY DEF Notice!Attempt, Notice!At
<1>4. NoticeTypeOK'
  <2> DEFINE next == [sends[q] EXCEPT !.attempts = sends[q].attempts + 1,
                                      !.success = success, !.pc = pc]
  <2>1. sends[q] \in Sends /\ sends[q].attempts + 1 \in Nat
    BY DEF Sends
  <2>2. next \in Sends
    BY <2>1 DEF Sends
  <2>3. sends' = [sends EXCEPT ![q] = next]
    BY <1>1
  <2>4. sends' \in [Notices -> Sends]
    BY <2>2, <2>3
  <2>5. received' \in [Notices -> Nat]
    BY <1>1
  <2> QED
    BY <1>2, <2>4, <2>5
<1>5. SendsAreCounted' /\ RecordsAreTrue'
  BY <1>1, <1>2 DEF Sends, SendsAreCounted, RecordsAreTrue, Notice!RecordsAreTrue
<1> QED
  BY <1>4, <1>5

\* Every other step leaves the count alone, or is the one attempt of an e-mail.
LEMMA NextKeepsNoticeInv ==
    NoticeInv /\ [Notice!Next]_notificationVars => NoticeInv'
<1> SUFFICES ASSUME NoticeInv, [Notice!Next]_notificationVars PROVE NoticeInv'
  OBVIOUS
<1> USE DEF NoticeInv, NoticeTypeOK, Sends, SendsAreCounted, RecordsAreTrue,
            Notice!RecordsAreTrue, Notice!At, Notice!Step, Notice!Take
<1>1. ASSUME NEW q \in Notices, NEW channel \in {"email", "webhook"},
             Notice!Accept(q, channel)
      PROVE  NoticeInv'
  <2>1. PICK pc \in {"send", "rejected"} :
          sends' = [sends EXCEPT ![q] =
                      [sends[q] EXCEPT !.pc = pc, !.channel = channel]]
    BY <1>1 DEF Notice!Accept
  <2>2. /\ sends[q].pc = "idle"
        /\ UNCHANGED <<received, kept>>
    BY <1>1 DEF Notice!Accept
  <2>3. NoticeTypeOK'
    BY <2>1, <2>2
  <2> QED
    BY <2>1, <2>2, <2>3
<1>2. ASSUME NEW q \in Notices, Notice!SendEmail(q) PROVE NoticeInv'
  <2>1. /\ sends[q].pc = "send" /\ sends[q].channel = "email"
        /\ kept' = kept
    BY <1>2 DEF Notice!SendEmail
  <2>2. CASE /\ received' = [received EXCEPT ![q] = @ + 1]
             /\ sends' = [sends EXCEPT ![q] =
                  [sends[q] EXCEPT !.pc = "store", !.attempts = 1, !.success = TRUE]]
    <3>1. [sends[q] EXCEPT !.pc = "store", !.attempts = 1, !.success = TRUE] \in Sends
      OBVIOUS
    <3>2. NoticeTypeOK'
      BY ONLY <2>1, <2>2, <3>1, NoticeInv DEF NoticeInv, NoticeTypeOK
    <3> QED
      BY <2>1, <2>2, <3>2
  <2>3. CASE /\ received' = [received EXCEPT ![q] = @ + 1] \/ received' = received
             /\ sends' = [sends EXCEPT ![q] = [sends[q] EXCEPT !.pc = "error"]]
    <3>1. NoticeTypeOK'
      BY <2>1, <2>3
    <3> QED
      BY <2>1, <2>3, <3>1
  <2> QED
    BY <1>2, <2>2, <2>3 DEF Notice!SendEmail
<1>3. ASSUME NEW q \in Notices, Notice!Attempt(q) PROVE NoticeInv'
  BY <1>3, AttemptKeepsNoticeInv
<1>4. ASSUME NEW q \in Notices, Notice!Store(q) PROVE NoticeInv'
  <2>1. sends[q].pc = "store" /\ received' = received
    BY <1>4 DEF Notice!Store
  <2>2. CASE /\ kept' = [kept EXCEPT ![q] =
                  [status |-> IF sends[q].success THEN "sent" ELSE "failed",
                   attempts |-> sends[q].attempts]]
             /\ sends' = [sends EXCEPT ![q] = [sends[q] EXCEPT !.pc = "audit"]]
    <3>1. NoticeTypeOK'
      BY <2>1, <2>2
    <3> QED
      BY <2>1, <2>2, <3>1
  <2>3. CASE /\ kept' = kept
             /\ sends' = [sends EXCEPT ![q] = [sends[q] EXCEPT !.pc = "error"]]
    BY <2>1, <2>3
  <2> QED
    BY <1>4, <2>2, <2>3 DEF Notice!Store
<1>5. ASSUME NEW q \in Notices, Notice!Record(q) PROVE NoticeInv'
  BY <1>5 DEF Notice!Record
<1>6. ASSUME NEW q \in Notices, Notice!Die(q) PROVE NoticeInv'
  BY <1>6 DEF Notice!Die
<1>7. CASE UNCHANGED notificationVars
  BY <1>7 DEF notificationVars
<1> QED
  BY <1>1, <1>2, <1>3, <1>4, <1>5, <1>6, <1>7 DEF Notice!Next

-----------------------------------------------------------------------------
(* Summaries.                                                              *)

SummaryTypeOK ==
    /\ post \in [Writers ->
         {"idle", "asking", "writing", "half", "written", "done", "failed", "dead"}]
    /\ get \in [Readers ->
         [pc : {"idle", "none", "half", "done", "served", "error"},
          row : Writers \cup {None}, body : Writers \cup {None}]]
    /\ body \in Writers \cup {None} /\ row \in Writers \cup {None}
    /\ contended \in BOOLEAN

\* The object is there before a row names it.
ObjectComesFirst ==
    /\ row # None => body # None
    /\ \A q \in Writers : post[q] = "half" => body # None
    /\ \A r \in Readers : get[r].pc = "half" => body # None

\* As long as nobody got in between, the object is that of the one request that
\* is half done, or of the row, and half a reader has read this row.
PairIsWhole ==
    ~contended =>
        /\ \A q \in Writers : post[q] = "half" => body = q
        /\ (\A q \in Writers : post[q] # "half") => body = row
        /\ \A r \in Readers :
             get[r].pc = "half" =>
                 get[r].row = row /\ \A q \in Writers : post[q] # "half"

SummaryInv ==
    SummaryTypeOK /\ ObjectComesFirst /\ PairIsWhole /\ SummariesAreWhole

\* At first there is neither object nor row.
LEMMA InitEstablishesSummaryInv == Summary!Init => SummaryInv
<1> SUFFICES ASSUME Summary!Init PROVE SummaryInv
  OBVIOUS
<1> USE DEF Summary!Init
<1>1. SummaryTypeOK
  BY DEF SummaryTypeOK
<1>2. ObjectComesFirst /\ PairIsWhole
  BY DEF ObjectComesFirst, PairIsWhole
<1>3. SummariesAreWhole
  BY DEF SummariesAreWhole, Summary!SummariesAreWhole
<1> QED
  BY <1>1, <1>2, <1>3 DEF SummaryInv

\* A write that comes between two others, or two reads, is a contention.
LEMMA NextKeepsSummaryInv == SummaryInv /\ [Summary!Next]_summaryVars => SummaryInv'
<1> SUFFICES ASSUME SummaryInv, [Summary!Next]_summaryVars PROVE SummaryInv'
  OBVIOUS
<1> USE NoneIsNoWriter
    DEF SummaryInv, SummaryTypeOK, ObjectComesFirst, PairIsWhole, SummariesAreWhole,
        Summary!SummariesAreWhole, Summary!Step
<1>1. CASE Summary!StoreTranscript
  BY <1>1 DEF Summary!StoreTranscript
<1>2. ASSUME NEW q \in Writers, Summary!ReadTranscript(q) PROVE SummaryInv'
  BY <1>2 DEF Summary!ReadTranscript
<1>3. ASSUME NEW q \in Writers, Summary!CallModel(q) PROVE SummaryInv'
  BY <1>3 DEF Summary!CallModel
<1>4. ASSUME NEW q \in Writers, Summary!Write(q) PROVE SummaryInv'
  <2> USE DEF Summary!HalfWritten, Summary!HalfRead
  <2>1. get' = get
    BY <1>4 DEF Summary!Write
  <2>2. CASE post[q] = "writing"
    BY <1>4, <2>1, <2>2 DEF Summary!Write, Summary!WriteSummary
  <2>3. CASE post[q] = "half"
    BY <1>4, <2>1, <2>3 DEF Summary!Write, Summary!WriteSummary
  <2> QED
    BY <1>4, <2>2, <2>3 DEF Summary!Write, Summary!WriteSummary
<1>5. ASSUME NEW q \in Writers, Summary!Complete(q) PROVE SummaryInv'
  BY <1>5 DEF Summary!Complete
<1>6. ASSUME NEW q \in Writers, Summary!Die(q) PROVE SummaryInv'
  BY <1>6 DEF Summary!Die
<1>7. ASSUME NEW r \in Readers, Summary!GetRow(r) PROVE SummaryInv'
  BY <1>7 DEF Summary!GetRow, Summary!HalfWritten
<1>8. ASSUME NEW r \in Readers, Summary!GetBody(r) PROVE SummaryInv'
  BY <1>8 DEF Summary!GetBody
<1>9. ASSUME NEW r \in Readers, Summary!QueryRow(r) PROVE SummaryInv'
  BY <1>9 DEF Summary!QueryRow, Summary!Required, Summary!Attributes
<1>10. CASE UNCHANGED summaryVars
  BY <1>10 DEF summaryVars
<1> QED
  BY <1>1, <1>2, <1>3, <1>4, <1>5, <1>6, <1>7, <1>8, <1>9, <1>10 DEF Summary!Next

-----------------------------------------------------------------------------
(* BillingPortal.                                                          *)

Positioned == {"idle", "started", "checkout", "paid", "create", "record", "session",
               "answered", "error"}

PortalTypeOK ==
    /\ customers \in Seq({"portal", "checkout"})
    /\ events \in Seq(Nat)
    /\ \A i \in DOMAIN events : events[i] <= Len(customers)
    /\ unlogged \subseteq Portal!Made("checkout")
    /\ visits \in [Visits -> [pc : Positioned, customer : Nat \cup {None}]]
    /\ \A q \in Visits :
         visits[q].pc = "record" => visits[q].customer \in Portal!Made("portal")
    /\ crossed \in BOOLEAN /\ overlap \in BOOLEAN
    /\ faults \in Nat

IsNewest(m) == m \in Portal!Recorded /\ \A i \in Portal!Recorded : i <= m

\* The look-up has an answer if any event names a customer.
NewestIsThere == Portal!Recorded # {} => \E m \in Nat : IsNewest(m)

\* A payer whose record met no half-done portal request stays the newest customer,
\* since no portal request creates one any more.
PayerIsNewest ==
    ~crossed /\ Portal!PaymentIsRecorded =>
        /\ \E m \in Nat : IsNewest(m) /\ events[m] \in Portal!Paying
        /\ Portal!Creating = {}

\* Portal requests one after another: one creates at a time, ...
OneCreates == ~overlap => \A p, q \in Portal!Creating : p = q

\* ... a customer made is recorded, or about to be, ...
MadeIsKept ==
    faults = 0 =>
        \A c \in Portal!Made("portal") :
            \/ \E i \in DOMAIN events : events[i] = c
            \/ \E q \in Visits : visits[q].pc = "record" /\ visits[q].customer = c

\* ... and so none is made when there is one.
NoneIsMadeTwice ==
    ~overlap /\ faults = 0 =>
        /\ \A c, d \in Portal!Made("portal") : c = d
        /\ \A q \in Visits : visits[q].pc = "create" => Portal!Made("portal") = {}

PortalInv ==
    /\ PortalTypeOK
    /\ NewestIsThere /\ PayerIsNewest
    /\ OneCreates /\ MadeIsKept /\ NoneIsMadeTwice

\* The look-up finds the newest customer.
LEMMA NewestIsFound ==
    ASSUME NEW m \in Nat, IsNewest(m), PortalTypeOK
    PROVE  Portal!FindCustomer = events[m]
<1>1. \A i \in Portal!Recorded : i \in Nat
  BY DEF Portal!Recorded, PortalTypeOK
<1>2. \A i \in Portal!Recorded :
        (\A j \in Portal!Recorded : j <= i) => i = m
  BY <1>1 DEF IsNewest
<1>3. (CHOOSE i \in Portal!Recorded : \A j \in Portal!Recorded : j <= i) = m
  BY <1>2 DEF IsNewest
<1> QED
  BY <1>3 DEF Portal!FindCustomer, IsNewest

\* Nobody is sent to create a customer when the log names one.
LEMMA LookUpFails ==
    ASSUME PortalInv, Portal!FindCustomer = None
    PROVE  Portal!Recorded = {}
<1> SUFFICES ASSUME Portal!Recorded # {} PROVE FALSE
  OBVIOUS
<1>1. PICK m \in Nat : IsNewest(m)
  BY DEF PortalInv, NewestIsThere
<1>2. events[m] = None
  BY <1>1, NewestIsFound DEF PortalInv
<1>3. events[m] \in Nat
  BY <1>1 DEF IsNewest, Portal!Recorded, PortalInv, PortalTypeOK
<1> QED
  BY <1>2, <1>3, NoneIsNoNumber

\* At first Stripe knows nobody.
LEMMA InitEstablishesPortalInv == Portal!Init => PortalInv
<1> SUFFICES ASSUME Portal!Init PROVE PortalInv
  OBVIOUS
<1> USE DEF Portal!Init
<1>1. PortalTypeOK
  <2>1. customers \in Seq({"portal", "checkout"}) /\ events \in Seq(Nat)
    OBVIOUS
  <2>2. visits \in [Visits -> [pc : Positioned, customer : Nat \cup {None}]]
    BY DEF Positioned
  <2>3. \A i \in DOMAIN events : events[i] <= Len(customers)
    OBVIOUS
  <2> QED
    BY <2>1, <2>2, <2>3 DEF PortalTypeOK
<1>2. Portal!Recorded = {} /\ ~Portal!PaymentIsRecorded
  BY DEF Portal!Recorded, Portal!PaymentIsRecorded
<1>3. Portal!Creating = {} /\ Portal!Made("portal") = {}
  BY DEF Portal!Creating, Portal!Made
<1> QED
  BY <1>1, <1>2, <1>3
     DEF PortalInv, NewestIsThere, PayerIsNewest, OneCreates, MadeIsKept, NoneIsMadeTwice

\* A request that goes on without creating or recording leaves all else as it is;
\* one that has made a customer fails to record it only by a fault.
LEMMA VisitGoesOn ==
    ASSUME PortalInv, NEW q \in Visits, NEW pc \in Positioned \ {"create", "record"},
           NEW customer \in Nat \cup {None},
           visits' = [visits EXCEPT ![q] = [pc |-> pc, customer |-> customer]],
           faults' \in {faults, faults + 1},
           visits[q].pc = "record" => faults' = faults + 1,
           UNCHANGED <<customers, events, unlogged, crossed, overlap>>
    PROVE  PortalInv'
<1> USE DEF PortalInv
<1>1. /\ \A how : Portal!Made(how)' = Portal!Made(how)
      /\ Portal!Recorded' = Portal!Recorded
      /\ Portal!PaymentIsRecorded' = Portal!PaymentIsRecorded
  BY DEF Portal!Made, Portal!Recorded, Portal!PaymentIsRecorded, Portal!Paying
<1>2. visits' \in [Visits -> [pc : Positioned, customer : Nat \cup {None}]]
  BY DEF PortalTypeOK
<1>3. \A p \in Visits \ {q} : visits'[p] = visits[p]
  BY DEF PortalTypeOK
<1>4. visits'[q].pc \notin {"create", "record"}
  BY DEF PortalTypeOK
<1>5. faults' \in Nat /\ (faults' = 0 => faults = 0 /\ visits[q].pc # "record")
  BY DEF PortalTypeOK
<1>6. PortalTypeOK'
  BY <1>1, <1>2, <1>3, <1>4, <1>5 DEF PortalTypeOK
<1>7. Portal!Creating' = Portal!Creating \ {q}
  BY <1>3, <1>4 DEF Portal!Creating
<1>8. \A m : IsNewest(m)' <=> IsNewest(m)
  BY <1>1 DEF IsNewest
<1>9. NewestIsThere' /\ PayerIsNewest'
  BY <1>1, <1>7, <1>8 DEF NewestIsThere, PayerIsNewest, Portal!Paying
<1>10. OneCreates'
  BY <1>7 DEF OneCreates
<1>11. MadeIsKept'
  BY <1>1, <1>3, <1>5 DEF MadeIsKept
<1>12. NoneIsMadeTwice'
  BY <1>1, <1>3, <1>4, <1>5 DEF NoneIsMadeTwice
<1> QED
  BY <1>6, <1>9, <1>10, <1>11, <1>12

\* An event is one more in the log, and the newest if it names a customer.
LEMMA EventIsAppended ==
    ASSUME PortalTypeOK, NEW c \in 0 .. Len(customers), Portal!AppendEvent(c),
           UNCHANGED customers
    PROVE  /\ events' \in Seq(Nat)
           /\ \A i \in DOMAIN events' : events'[i] <= Len(customers)
           /\ \A i \in DOMAIN events : i \in DOMAIN events' /\ events'[i] = events[i]
           /\ \E i \in DOMAIN events' : events'[i] = c
           /\ c = 0 => Portal!Recorded' = Portal!Recorded
           /\ c # 0 => \E m \in Nat : IsNewest(m)' /\ events'[m] = c
<1> USE DEF Portal!AppendEvent
<1>1. events \in Seq(Nat) /\ c \in Nat /\ Len(customers) \in Nat
  BY DEF PortalTypeOK
<1>2. /\ events' \in Seq(Nat)
      /\ DOMAIN events' = 1 .. Len(events) + 1 /\ DOMAIN events = 1 .. Len(events)
      /\ events'[Len(events) + 1] = c
      /\ \A i \in 1 .. Len(events) : events'[i] = events[i]
  BY <1>1
<1>3. \A i \in DOMAIN events' : events'[i] <= Len(customers)
  BY <1>1, <1>2 DEF PortalTypeOK
<1>4. c = 0 => Portal!Recorded' = Portal!Recorded
  <2> SUFFICES ASSUME c = 0 PROVE Portal!Recorded' = Portal!Recorded
    OBVIOUS
  <2>1. \A i : i \in 1 .. Len(events) + 1 <=> i \in 1 .. Len(events) \/ i = Len(events) + 1
    BY <1>1
  <2>2. \A i : i \in Portal!Recorded' <=> i \in Portal!Recorded
    BY <1>2, <2>1 DEF Portal!Recorded
  <2> QED
    BY <2>2 DEF Portal!Recorded
<1>5. c # 0 => \E m \in Nat : IsNewest(m)' /\ events'[m] = c
  <2>1. PICK m \in Nat : m = Len(events) + 1
    BY <1>1
  <2>2. c # 0 => IsNewest(m)'
    BY <1>1, <1>2, <2>1 DEF Portal!Recorded, IsNewest
  <2> QED
    BY <1>2, <2>1, <2>2
<1>6. \E i \in DOMAIN events' : events'[i] = c
  BY <1>1, <1>2
<1>7. \A i \in DOMAIN events : i \in DOMAIN events' /\ events'[i] = events[i]
  BY <1>1, <1>2
<1> QED
  BY <1>2, <1>3, <1>4, <1>5, <1>6, <1>7

\* A new customer takes the next number.
LEMMA CustomerIsAppended ==
    ASSUME PortalTypeOK, NEW how \in {"portal", "checkout"},
           customers' = Append(customers, how), UNCHANGED events
    PROVE  /\ customers' \in Seq({"portal", "checkout"})
           /\ Len(customers') = Len(customers) + 1
           /\ \A i \in DOMAIN events : events[i] <= Len(customers')
           /\ Portal!Made(how)' = Portal!Made(how) \cup {Len(customers')}
           /\ \A other : other # how => Portal!Made(other)' = Portal!Made(other)
           /\ Portal!Recorded' = Portal!Recorded
           /\ Portal!PaymentIsRecorded' = Portal!PaymentIsRecorded
           /\ \A m : IsNewest(m)' <=> IsNewest(m)
<1>1. customers \in Seq({"portal", "checkout"}) /\ Len(customers) \in Nat
  BY DEF PortalTypeOK
<1>2. /\ customers' \in Seq({"portal", "checkout"})
      /\ Len(customers') = Len(customers) + 1
      /\ DOMAIN customers' = 1 .. Len(customers) + 1
      /\ DOMAIN customers = 1 .. Len(customers)
      /\ customers'[Len(customers) + 1] = how
      /\ \A i \in 1 .. Len(customers) : customers'[i] = customers[i]
  BY <1>1
<1>3. \A i \in DOMAIN events : events[i] \in Nat /\ events[i] <= Len(customers)
  BY DEF PortalTypeOK
<1>4. \A i \in DOMAIN events : events[i] <= Len(customers')
  BY <1>1, <1>2, <1>3
<1>5. /\ Portal!Made(how)' = Portal!Made(how) \cup {Len(customers')}
      /\ \A other : other # how => Portal!Made(other)' = Portal!Made(other)
  BY <1>1, <1>2 DEF Portal!Made
<1>6. \A i \in DOMAIN events :
        events[i] \in Portal!Paying' <=> events[i] \in Portal!Paying
  BY <1>1, <1>2, <1>3, <1>5 DEF Portal!Paying, Portal!Made
<1>7. Portal!Recorded' = Portal!Recorded /\ \A m : IsNewest(m)' <=> IsNewest(m)
  BY DEF Portal!Recorded, IsNewest
<1>8. Portal!PaymentIsRecorded' = Portal!PaymentIsRecorded
  BY <1>6 DEF Portal!PaymentIsRecorded
<1> QED
  BY <1>2, <1>4, <1>5, <1>7, <1>8

\* The user pays: a customer more, whose webhook is still to come.
LEMMA PayKeepsPortalInv ==
    ASSUME PortalInv, NEW q \in Visits, Portal!Pay(q)
    PROVE  PortalInv'
<1> USE DEF PortalInv
<1>1. /\ visits[q].pc = "checkout"
      /\ customers' = Append(customers, "checkout")
      /\ unlogged' = unlogged \cup {Len(customers')}
      /\ visits' = [visits EXCEPT ![q] = [pc |-> "paid", customer |-> None]]
      /\ UNCHANGED <<events, crossed, overlap, faults>>
  BY DEF Portal!Pay, Portal!At, Portal!Goto
<1>2. /\ customers' \in Seq({"portal", "checkout"})
      /\ \A i \in DOMAIN events : events[i] <= Len(customers')
      /\ Portal!Made("checkout")' = Portal!Made("checkout") \cup {Len(customers')}
      /\ Portal!Made("portal")' = Portal!Made("portal")
      /\ Portal!Recorded' = Portal!Recorded
      /\ Portal!PaymentIsRecorded' = Portal!PaymentIsRecorded
      /\ \A m : IsNewest(m)' <=> IsNewest(m)
  BY <1>1, CustomerIsAppended
<1>3. visits' \in [Visits -> [pc : Positioned, customer : Nat \cup {None}]]
  BY <1>1 DEF PortalTypeOK, Positioned
<1>4. /\ \A p \in Visits \ {q} : visits'[p] = visits[p]
      /\ visits'[q].pc = "paid"
  BY <1>1 DEF PortalTypeOK
<1>5. PortalTypeOK'
  BY <1>1, <1>2, <1>3, <1>4 DEF PortalTypeOK
<1>6. Portal!Creating' = Portal!Creating
  BY <1>1, <1>4 DEF Portal!Creating
<1>7. NewestIsThere' /\ PayerIsNewest'
  BY <1>1, <1>2, <1>6 DEF NewestIsThere, PayerIsNewest, Portal!Paying
<1>8. OneCreates' /\ MadeIsKept' /\ NoneIsMadeTwice'
  BY <1>1, <1>2, <1>4, <1>6 DEF OneCreates, MadeIsKept, NoneIsMadeTwice
<1> QED
  BY <1>5, <1>7, <1>8

\* The webhook: the payer is the newest customer, and is met by a portal request
\* that creates one or not at all.
LEMMA WebhookKeepsPortalInv ==
    ASSUME PortalInv, NEW c \in unlogged, Portal!WebhookRecords(c)
    PROVE  PortalInv'
<1> USE DEF PortalInv
<1>1. /\ Portal!AppendEvent(c)
      /\ unlogged' = unlogged \ {c}
      /\ crossed' = (crossed \/ Portal!Creating # {})
      /\ UNCHANGED <<customers, visits, overlap, faults>>
  BY DEF Portal!WebhookRecords
<1>2. c \in Portal!Made("checkout") /\ c \in 1 .. Len(customers)
  BY DEF PortalTypeOK, Portal!Made
<1>3. c \in 0 .. Len(customers) /\ c # 0 /\ Len(events) \in Nat
  BY <1>2 DEF PortalTypeOK
<1>4. /\ events' \in Seq(Nat)
      /\ \A i \in DOMAIN events' : events'[i] <= Len(customers)
      /\ \A i \in DOMAIN events : i \in DOMAIN events' /\ events'[i] = events[i]
      /\ \E m \in Nat : IsNewest(m)' /\ events'[m] = c
  BY <1>1, <1>3, EventIsAppended
<1>5. \A how : Portal!Made(how)' = Portal!Made(how)
  BY <1>1 DEF Portal!Made
<1>6. Portal!Creating' = Portal!Creating
  BY <1>1 DEF Portal!Creating
<1>7. PortalTypeOK'
  BY <1>1, <1>4, <1>5 DEF PortalTypeOK
<1>8. NewestIsThere'
  BY <1>3, <1>4 DEF NewestIsThere
<1>9. PayerIsNewest'
  BY <1>1, <1>2, <1>3, <1>4, <1>5, <1>6 DEF PayerIsNewest, Portal!Paying
<1>10. OneCreates' /\ MadeIsKept' /\ NoneIsMadeTwice'
  BY <1>1, <1>4, <1>5, <1>6 DEF OneCreates, MadeIsKept, NoneIsMadeTwice
<1> QED
  BY <1>7, <1>8, <1>9, <1>10

\* The checkout is logged, without a customer.
LEMMA LogKeepsPortalInv ==
    ASSUME PortalInv, NEW q \in Visits, visits[q].pc = "started",
           Portal!AppendEvent(0), Portal!Goto(q, "checkout", None),
           UNCHANGED <<customers, unlogged, crossed, overlap, faults>>
    PROVE  PortalInv'
<1> USE DEF PortalInv
<1>1. Len(customers) \in Nat
  BY DEF PortalTypeOK
<1>2. /\ events' \in Seq(Nat)
      /\ \A i \in DOMAIN events' : events'[i] <= Len(customers)
      /\ \A i \in DOMAIN events : i \in DOMAIN events' /\ events'[i] = events[i]
      /\ Portal!Recorded' = Portal!Recorded
  BY <1>1, EventIsAppended
<1>3. /\ \A p \in Visits \ {q} : visits'[p] = visits[p]
      /\ visits'[q].pc = "checkout"
      /\ visits' \in [Visits -> [pc : Positioned, customer : Nat \cup {None}]]
  BY DEF PortalTypeOK, Portal!Goto, Positioned
<1>4. \A how : Portal!Made(how)' = Portal!Made(how)
  BY DEF Portal!Made
<1>5. PortalTypeOK'
  BY <1>2, <1>3, <1>4 DEF PortalTypeOK
<1>6. Portal!Creating' = Portal!Creating
  BY <1>3 DEF Portal!Creating
<1>7. \A m : IsNewest(m)' <=> IsNewest(m)
  BY <1>2 DEF IsNewest
<1>8. \A i \in Portal!Recorded : i \in DOMAIN events /\ events'[i] = events[i]
  BY <1>2 DEF Portal!Recorded
<1>9. Portal!PaymentIsRecorded' => Portal!PaymentIsRecorded
  <2>1. ASSUME NEW i \in DOMAIN events', events'[i] \in Portal!Paying'
        PROVE  i \in DOMAIN events /\ events[i] \in Portal!Paying
    <3>1. events'[i] # 0
      BY <2>1, <1>1 DEF Portal!Paying, Portal!Made, PortalTypeOK
    <3>2. i \in Portal!Recorded'
      BY <2>1, <3>1 DEF Portal!Recorded
    <3> QED
      BY <2>1, <3>2, <1>2, <1>4, <1>8 DEF Portal!Paying
  <2> QED
    BY <2>1 DEF Portal!PaymentIsRecorded
<1>10. NewestIsThere' /\ PayerIsNewest'
  <2>1. \A m : IsNewest(m) => events'[m] = events[m]
    BY <1>8 DEF IsNewest
  <2> QED
    BY <2>1, <1>2, <1>4, <1>6, <1>7, <1>9 DEF NewestIsThere, PayerIsNewest, Portal!Paying
<1>11. OneCreates' /\ MadeIsKept' /\ NoneIsMadeTwice'
  BY <1>2, <1>3, <1>4, <1>6 DEF OneCreates, MadeIsKept, NoneIsMadeTwice
<1> QED
  BY <1>5, <1>10, <1>11

\* A look-up sends a request to create a customer only if the log names none, so
\* that, one at a time, there is none.
LEMMA OpenKeepsPortalInv ==
    ASSUME PortalInv, NEW q \in Visits, Portal!OpenPortal(q)
    PROVE  PortalInv'
<1> USE DEF PortalInv
<1>1. /\ visits[q].pc = "idle"
      /\ UNCHANGED <<customers, events, unlogged, crossed, faults>>
  BY DEF Portal!OpenPortal, Portal!At
<1>2. CASE Portal!FindCustomer # None
  <2>1. /\ visits' = [visits EXCEPT ![q] =
                        [pc |-> "session", customer |-> Portal!FindCustomer]]
        /\ overlap' = overlap
    BY <1>2 DEF Portal!OpenPortal, Portal!Goto
  <2>2. PICK m \in Nat : IsNewest(m)
    BY <1>2 DEF Portal!FindCustomer, NewestIsThere
  <2>3. Portal!FindCustomer \in Nat
    BY <2>2, NewestIsFound DEF IsNewest, Portal!Recorded, PortalTypeOK
  <2>4. "session" \in Positioned \ {"create", "record"} /\ faults' \in {faults, faults + 1}
    BY <1>1 DEF Positioned
  <2> QED
    BY <1>1, <2>1, <2>3, <2>4, VisitGoesOn
<1>3. CASE Portal!FindCustomer = None
  <2>1. Portal!Recorded = {}
    BY <1>3, LookUpFails
  <2>2. /\ visits' = [visits EXCEPT ![q] = [pc |-> "create", customer |-> None]]
        /\ overlap' = (overlap \/ Portal!Creating # {})
    BY <1>3 DEF Portal!OpenPortal, Portal!Goto
  <2>3. /\ \A p \in Visits \ {q} : visits'[p] = visits[p]
        /\ visits'[q].pc = "create"
        /\ visits' \in [Visits -> [pc : Positioned, customer : Nat \cup {None}]]
    BY <2>2 DEF PortalTypeOK, Positioned
  <2>4. \A how : Portal!Made(how)' = Portal!Made(how)
    BY <1>1 DEF Portal!Made
  <2>5. PortalTypeOK'
    BY <1>1, <2>2, <2>3, <2>4 DEF PortalTypeOK
  <2>6. Portal!Creating' = Portal!Creating \cup {q}
    BY <2>3 DEF Portal!Creating
  <2>7. Portal!Recorded' = {} /\ ~Portal!PaymentIsRecorded'
    <3>1. Portal!Recorded' = Portal!Recorded
      BY <1>1 DEF Portal!Recorded
    <3>2. ASSUME NEW i \in DOMAIN events, events[i] \in Portal!Paying PROVE FALSE
      BY <2>1, <3>2 DEF Portal!Recorded, Portal!Paying, Portal!Made, PortalTypeOK
    <3> QED
      BY <1>1, <2>1, <2>4, <3>1, <3>2 DEF Portal!PaymentIsRecorded, Portal!Paying
  <2>8. NewestIsThere' /\ PayerIsNewest'
    BY <2>7 DEF NewestIsThere, PayerIsNewest
  <2>9. OneCreates' /\ MadeIsKept'
    BY <1>1, <2>2, <2>3, <2>4, <2>6 DEF OneCreates, MadeIsKept
  <2>10. NoneIsMadeTwice'
    <3>1. SUFFICES ASSUME ~overlap', faults = 0 PROVE NoneIsMadeTwice'
      BY <1>1 DEF NoneIsMadeTwice
    <3>2. Portal!Creating = {} /\ ~overlap
      BY <2>2, <3>1 DEF PortalTypeOK
    <3>3. Portal!Made("portal") = {}
      <4>1. SUFFICES ASSUME NEW c \in Portal!Made("portal") PROVE FALSE
        BY DEF Portal!Made
      <4>2. \A p \in Visits : visits[p].pc # "record"
        BY <3>2 DEF Portal!Creating
      <4>3. PICK i \in DOMAIN events : events[i] = c
        BY <3>1, <4>2 DEF MadeIsKept
      <4> QED
        BY <2>1, <4>3 DEF Portal!Recorded, Portal!Made, PortalTypeOK
    <3> QED
      BY <2>4, <3>3 DEF NoneIsMadeTwice
  <2> QED
    BY <2>5, <2>8, <2>9, <2>10
<1> QED
  BY <1>2, <1>3

\* Stripe makes a customer, and the request knows of it or has failed.
LEMMA CreateKeepsPortalInv ==
    ASSUME PortalInv, NEW q \in Visits, visits[q].pc = "create",
           customers' = Append(customers, "portal"),
           UNCHANGED <<events, unlogged, crossed, overlap>>,
           \/ /\ visits' = [visits EXCEPT ![q] = [pc |-> "record", customer |-> Len(customers')]]
              /\ faults' = faults
           \/ /\ visits' = [visits EXCEPT ![q] = [pc |-> "error", customer |-> None]]
              /\ faults' = faults + 1
    PROVE  PortalInv'
<1> USE DEF PortalInv
<1>1. /\ customers' \in Seq({"portal", "checkout"})
      /\ \A i \in DOMAIN events : events[i] <= Len(customers')
      /\ Portal!Made("portal")' = Portal!Made("portal") \cup {Len(customers')}
      /\ Portal!Made("checkout")' = Portal!Made("checkout")
      /\ Portal!Recorded' = Portal!Recorded
      /\ Portal!PaymentIsRecorded' = Portal!PaymentIsRecorded
      /\ \A m : IsNewest(m)' <=> IsNewest(m)
  BY CustomerIsAppended
<1>2. Len(customers') \in Nat
  BY <1>1
<1>3. /\ \A p \in Visits \ {q} : visits'[p] = visits[p]
      /\ visits' \in [Visits -> [pc : Positioned, customer : Nat \cup {None}]]
      /\ \/ /\ visits'[q].pc = "record" /\ visits'[q].customer = Len(customers')
            /\ faults' = faults
         \/ visits'[q].pc = "error" /\ faults' = faults + 1
  <2>1. CASE visits' = [visits EXCEPT ![q] =
                          [pc |-> "record", customer |-> Len(customers')]]
    BY <1>2, <2>1 DEF PortalTypeOK, Positioned
  <2>2. CASE visits' = [visits EXCEPT ![q] = [pc |-> "error", customer |-> None]]
    BY <2>2 DEF PortalTypeOK, Positioned
  <2> QED
    BY <2>1, <2>2
<1>4. faults' \in Nat /\ (faults' = 0 => faults = 0 /\ visits'[q].pc = "record")
  BY <1>3 DEF PortalTypeOK
<1>5. PortalTypeOK'
  BY <1>1, <1>3, <1>4 DEF PortalTypeOK
<1>6. q \in Portal!Creating /\ Portal!Creating' \subseteq Portal!Creating
  BY <1>3 DEF Portal!Creating
<1>7. NewestIsThere' /\ PayerIsNewest'
  BY <1>1, <1>6 DEF NewestIsThere, PayerIsNewest, Portal!Paying
<1>8. OneCreates'
  BY <1>6 DEF OneCreates
<1>9. MadeIsKept'
  BY <1>1, <1>3, <1>4 DEF MadeIsKept
<1>10. NoneIsMadeTwice'
  <2>1. SUFFICES ASSUME ~overlap, faults' = 0 PROVE NoneIsMadeTwice'
    BY DEF NoneIsMadeTwice
  <2>2. Portal!Made("portal") = {}
    BY <1>4, <2>1 DEF NoneIsMadeTwice
  <2>3. \A p \in Visits : visits'[p].pc # "create"
    BY <1>3, <1>4, <1>6, <2>1 DEF OneCreates, Portal!Creating
  <2> QED
    BY <1>1, <2>2, <2>3 DEF NoneIsMadeTwice
<1> QED
  BY <1>5, <1>7, <1>8, <1>9, <1>10

\* The customer made is recorded.  No payer was, unless a webhook came in between.
LEMMA RecordKeepsPortalInv ==
    ASSUME PortalInv, NEW q \in Visits, visits[q].pc = "record",
           Portal!AppendEvent(visits[q].customer),
           visits' = [visits EXCEPT ![q] =
                        [pc |-> "session", customer |-> visits[q].customer]],
           UNCHANGED <<customers, unlogged, crossed, overlap, faults>>
    PROVE  PortalInv'
<1> USE DEF PortalInv
<1> DEFINE c == visits[q].customer
<1>1. c \in Portal!Made("portal") /\ c \in 1 .. Len(customers)
  BY DEF PortalTypeOK, Portal!Made
<1>2. c \in 0 .. Len(customers) /\ c # 0 /\ c \in Nat
  BY <1>1 DEF PortalTypeOK
<1>3. /\ events' \in Seq(Nat)
      /\ \A i \in DOMAIN events' : events'[i] <= Len(customers)
      /\ \A i \in DOMAIN events : i \in DOMAIN events' /\ events'[i] = events[i]
      /\ \E i \in DOMAIN events' : events'[i] = c
      /\ \E m \in Nat : IsNewest(m)' /\ events'[m] = c
  BY <1>2, EventIsAppended
<1>4. /\ \A p \in Visits \ {q} : visits'[p] = visits[p]
      /\ visits'[q].pc = "session"
      /\ visits' \in [Visits -> [pc : Positioned, customer : Nat \cup {None}]]
  BY <1>2 DEF PortalTypeOK, Positioned
<1>5. \A how : Portal!Made(how)' = Portal!Made(how)
  BY DEF Portal!Made
<1>6. PortalTypeOK'
  BY <1>3, <1>4, <1>5 DEF PortalTypeOK
<1>7. q \in Portal!Creating /\ Portal!Creating' = Portal!Creating \ {q}
  BY <1>4 DEF Portal!Creating
<1>8. NewestIsThere'
  BY <1>3 DEF NewestIsThere
<1>9. crossed \/ ~Portal!PaymentIsRecorded
  BY <1>7 DEF PayerIsNewest
<1>10. ~Portal!PaymentIsRecorded => ~Portal!PaymentIsRecorded'
  <2>1. ASSUME NEW i \in DOMAIN events', events'[i] \in Portal!Paying,
               i \notin DOMAIN events
        PROVE  FALSE
    <3>1. events'[i] = c
      <4>1. events \in Seq(Nat) /\ events' = Append(events, c) /\ c \in Nat
        BY <1>2 DEF Portal!AppendEvent, PortalTypeOK
      <4> QED
        BY <2>1, <4>1
    <3> QED
      BY <1>1, <2>1, <3>1 DEF Portal!Paying, Portal!Made
  <2> QED
    BY <1>3, <1>5, <2>1 DEF Portal!PaymentIsRecorded, Portal!Paying
<1>11. PayerIsNewest'
  BY <1>9, <1>10 DEF PayerIsNewest
<1>12. OneCreates' /\ NoneIsMadeTwice'
  BY <1>4, <1>5, <1>7 DEF OneCreates, NoneIsMadeTwice
<1>13. MadeIsKept'
  BY <1>3, <1>4, <1>5 DEF MadeIsKept
<1> QED
  BY <1>6, <1>8, <1>11, <1>12, <1>13

\* Every step of a checkout, a portal request or the webhook keeps the invariant.
LEMMA NextKeepsPortalInv == PortalInv /\ [Portal!Next]_portalVars => PortalInv'
<1> SUFFICES ASSUME PortalInv, [Portal!Next]_portalVars PROVE PortalInv'
  OBVIOUS
<1> USE DEF Portal!At, Portal!Goto, Portal!CallFails, Positioned
<1>1. ASSUME NEW q \in Visits, Portal!StartCheckout(q) PROVE PortalInv'
  BY <1>1, VisitGoesOn DEF Portal!StartCheckout
<1>2. ASSUME NEW q \in Visits, Portal!LogCheckout(q) PROVE PortalInv'
  <2>1. CASE Portal!AppendEvent(0) /\ Portal!Goto(q, "checkout", None) /\ faults' = faults
    BY <1>2, <2>1, LogKeepsPortalInv DEF Portal!LogCheckout
  <2>2. CASE Portal!CallFails(q) /\ events' = events
    BY <1>2, <2>2, VisitGoesOn DEF Portal!LogCheckout
  <2> QED
    BY <1>2, <2>1, <2>2 DEF Portal!LogCheckout
<1>3. ASSUME NEW q \in Visits, Portal!Pay(q) PROVE PortalInv'
  BY <1>3, PayKeepsPortalInv
<1>4. ASSUME NEW q \in Visits, Portal!OpenPortal(q) PROVE PortalInv'
  BY <1>4, OpenKeepsPortalInv
<1>5. ASSUME NEW q \in Visits, Portal!CreateCustomer(q) PROVE PortalInv'
  <2>1. CASE customers' = Append(customers, "portal")
    BY <1>5, <2>1, CreateKeepsPortalInv DEF Portal!CreateCustomer
  <2>2. CASE Portal!CallFails(q) /\ customers' = customers
    BY <1>5, <2>2, VisitGoesOn DEF Portal!CreateCustomer
  <2> QED
    BY <1>5, <2>1, <2>2 DEF Portal!CreateCustomer
<1>6. ASSUME NEW q \in Visits, Portal!RecordCustomer(q) PROVE PortalInv'
  <2>1. CASE /\ Portal!AppendEvent(visits[q].customer)
             /\ Portal!Goto(q, "session", visits[q].customer)
             /\ faults' = faults
    BY <1>6, <2>1, RecordKeepsPortalInv DEF Portal!RecordCustomer
  <2>2. CASE Portal!CallFails(q) /\ events' = events
    BY <1>6, <2>2, VisitGoesOn DEF Portal!RecordCustomer
  <2> QED
    BY <1>6, <2>1, <2>2 DEF Portal!RecordCustomer
<1>7. ASSUME NEW q \in Visits, Portal!CreateSession(q) PROVE PortalInv'
  <2>1. visits[q].customer \in Nat \cup {None}
    BY DEF PortalInv, PortalTypeOK
  <2> QED
    BY <1>7, <2>1, VisitGoesOn DEF Portal!CreateSession
<1>8. ASSUME NEW c \in unlogged, Portal!WebhookRecords(c) PROVE PortalInv'
  BY <1>8, WebhookKeepsPortalInv
<1>9. CASE UNCHANGED portalVars
  <2>1. UNCHANGED <<customers, events, unlogged, visits, crossed, overlap, faults>>
    BY <1>9 DEF portalVars
  <2>2. /\ \A how : Portal!Made(how)' = Portal!Made(how)
        /\ Portal!Recorded' = Portal!Recorded
        /\ Portal!Creating' = Portal!Creating
    BY <2>1 DEF Portal!Made, Portal!Recorded, Portal!Creating
  <2> QED
    BY <2>1, <2>2
       DEF PortalInv, PortalTypeOK, NewestIsThere, PayerIsNewest, OneCreates, MadeIsKept,
           NoneIsMadeTwice, IsNewest, Portal!Paying, Portal!PaymentIsRecorded
<1> QED
  BY <1>1, <1>2, <1>3, <1>4, <1>5, <1>6, <1>7, <1>8, <1>9 DEF Portal!Next

\* The invariant gives both properties.
LEMMA PortalInvFindsCustomers == PortalInv => CustomersAreFound
<1> SUFFICES ASSUME PortalInv PROVE CustomersAreFound
  OBVIOUS
<1>1. Portal!PortalReachesPayer
  BY NewestIsFound DEF PortalInv, PayerIsNewest, Portal!PortalReachesPayer
<1>2. Portal!PortalsShareCustomer
  BY DEF PortalInv, NoneIsMadeTwice, Portal!PortalsShareCustomer
<1> QED
  BY <1>1, <1>2 DEF CustomersAreFound

-----------------------------------------------------------------------------
(* AdminOperations.                                                        *)

Operations ==
    [pc : {"idle", "block", "kill", "publish", "flag", "succeeded", "failed"},
     todo : SUBSET BlockedSessions, found : SUBSET BlockedSessions,
     seen : {"none", "active", "flagged"}]

AdminTypeOK ==
    /\ Admin!TypeOK
    /\ shown \in [BlockedSessions -> Admin!Statuses \cup {"none"}]
    /\ record \in {"none", "active", "flagged"}
    /\ op \in [Operators -> Operations]
    /\ raced \subseteq BlockedSessions

\* A session that is over and stays so: it is errored or has expired, and no
\* request that could set another status is under way.
Dead(s) ==
    /\ state[s] = "errored" \/ (state[s] = "none" /\ s \in ended)
    /\ \A q \in OwnerRequests :
         patches[q].at = "write" /\ patches[q].session = s =>
             patches[q].wish \in {"keep", "errored"}

\* A block has ended what it has found and no longer has to do; nothing else has
\* found anything.
FoundAreDead ==
    \A a \in Operators :
        /\ op[a].pc \in {"block", "succeeded"} =>
             \A s \in op[a].found \ op[a].todo : Dead(s) \/ s \in raced
        /\ op[a].pc \notin {"block", "succeeded", "failed"} => op[a].found = {}
        /\ op[a].pc = "succeeded" => op[a].todo = {}

\* Who is about to flag the record found it active, unless it has been flagged.
FlagsAreSeen ==
    kind # "ingestion" =>
        \A a \in Operators :
            op[a].pc = "flag" =>
                op[a].seen = "active" \/ (op[a].seen = "flagged" /\ record = "flagged")

AdminInv == AdminTypeOK /\ FoundAreDead /\ FlagsAreSeen /\ Admin!FirstFlagSaysActive

\* At first nothing runs.
LEMMA InitEstablishesAdminInv == Admin!AdminInit => AdminInv
<1> SUFFICES ASSUME Admin!AdminInit PROVE AdminInv
  OBVIOUS
<1> USE DEF Admin!AdminInit, Admin!Init
<1>1. AdminTypeOK
  BY DEF AdminTypeOK, Admin!TypeOK, Admin!Idle, Admin!Statuses, Admin!NoOp, Operations
<1>2. FoundAreDead /\ FlagsAreSeen /\ Admin!FirstFlagSaysActive
  BY DEF FoundAreDead, FlagsAreSeen, Admin!FirstFlagSaysActive, Admin!NoOp
<1> QED
  BY <1>1, <1>2 DEF AdminInv

\* The owner's requests and the TTL do not bring a dead session back.
LEMMA DeadStayDead ==
    ASSUME Admin!TypeOK, Admin!Next, NEW s \in BlockedSessions, Dead(s)
    PROVE  Dead(s)'
<1> USE DEF Admin!TypeOK, Admin!Idle, Admin!Writing, Dead
<1>1. ASSUME NEW t \in BlockedSessions, Admin!CreateSession(t) PROVE Dead(s)'
  BY <1>1 DEF Admin!CreateSession
<1>2. ASSUME NEW t \in BlockedSessions, Admin!Expire(t) PROVE Dead(s)'
  BY <1>2 DEF Admin!Expire
<1>3. ASSUME NEW q \in OwnerRequests, NEW t \in BlockedSessions, Admin!ReadForDelete(q, t)
      PROVE  Dead(s)'
  BY <1>3 DEF Admin!ReadForDelete, Admin!StartWriting
<1>4. ASSUME NEW q \in OwnerRequests, NEW t \in BlockedSessions, NEW wish \in Admin!Wishes,
             Admin!ReadForPatch(q, t, wish)
      PROVE  Dead(s)'
  BY <1>4 DEF Admin!ReadForPatch, Admin!StartWriting, Admin!WishIsAllowed, Admin!AllowedFrom
<1>5. ASSUME NEW q \in OwnerRequests, Admin!Write(q) PROVE Dead(s)'
  BY <1>5 DEF Admin!Write, Admin!UpdateCondition
<1>6. ASSUME NEW q \in OwnerRequests, Admin!RequestDies(q) PROVE Dead(s)'
  BY <1>6 DEF Admin!RequestDies
<1> QED
  BY <1>1, <1>2, <1>3, <1>4, <1>5, <1>6 DEF Admin!Next

\* The records keep their types.
LEMMA OwnersKeepTypes == ASSUME Admin!TypeOK, Admin!Next PROVE Admin!TypeOK'
<1> USE DEF Admin!TypeOK, Admin!Idle, Admin!Writing, Admin!Statuses, Admin!Wishes
<1>1. ASSUME NEW t \in BlockedSessions, Admin!CreateSession(t) PROVE Admin!TypeOK'
  BY <1>1 DEF Admin!CreateSession
<1>2. ASSUME NEW t \in BlockedSessions, Admin!Expire(t) PROVE Admin!TypeOK'
  BY <1>2 DEF Admin!Expire
<1>3. ASSUME NEW q \in OwnerRequests, NEW t \in BlockedSessions, Admin!ReadForDelete(q, t)
      PROVE  Admin!TypeOK'
  BY <1>3 DEF Admin!ReadForDelete, Admin!StartWriting
<1>4. ASSUME NEW q \in OwnerRequests, NEW t \in BlockedSessions, NEW wish \in Admin!Wishes,
             Admin!ReadForPatch(q, t, wish)
      PROVE  Admin!TypeOK'
  BY <1>4 DEF Admin!ReadForPatch, Admin!StartWriting
<1>5. ASSUME NEW q \in OwnerRequests, Admin!Write(q) PROVE Admin!TypeOK'
  <2>1. patches[q] \in Admin!Writing
    BY <1>5 DEF Admin!Write
  <2> QED
    BY <1>5, <2>1 DEF Admin!Write
<1>6. ASSUME NEW q \in OwnerRequests, Admin!RequestDies(q) PROVE Admin!TypeOK'
  BY <1>6 DEF Admin!RequestDies
<1> QED
  BY <1>1, <1>2, <1>3, <1>4, <1>5, <1>6 DEF Admin!Next

\* An operation ends a session for good, but for a request that is about to write.
LEMMA EndedAreDead ==
    ASSUME Admin!TypeOK, raced \subseteq BlockedSessions,
           NEW s \in BlockedSessions, state[s] # "none", Admin!EndSession(s)
    PROVE  /\ Admin!TypeOK' /\ raced' \subseteq BlockedSessions /\ raced \subseteq raced'
           /\ Dead(s)' \/ s \in raced'
           /\ \A t \in BlockedSessions : Dead(t) => Dead(t)'
<1> USE DEF Admin!EndSession, Admin!TypeOK
<1>1. /\ state' = [state EXCEPT ![s] = "errored"]
      /\ UNCHANGED <<ended, patches>>
      /\ raced' = IF \E q \in OwnerRequests : patches[q].at = "write" /\ patches[q].session = s
                  THEN raced \cup {s} ELSE raced
  OBVIOUS
<1>2. Admin!TypeOK'
  BY <1>1 DEF Admin!Statuses
<1>3. raced' \subseteq BlockedSessions /\ raced \subseteq raced'
  BY <1>1
<1>4. Dead(s)' \/ s \in raced'
  BY <1>1 DEF Dead
<1>5. ASSUME NEW t \in BlockedSessions, Dead(t) PROVE Dead(t)'
  BY <1>1, <1>5 DEF Dead
<1> QED
  BY <1>2, <1>3, <1>4, <1>5

\* An operation that goes on without flagging, and leaves dead sessions dead.
LEMMA OperationGoesOn ==
    ASSUME AdminInv, NEW a \in Operators, NEW next \in Operations,
           op' = [op EXCEPT ![a] = next], op[a].pc # "succeeded",
           Admin!TypeOK', UNCHANGED <<shown, kind, record>>,
           raced' \subseteq BlockedSessions, raced \subseteq raced',
           \A t \in BlockedSessions : Dead(t) => Dead(t)',
           next.pc \in {"block", "succeeded"} =>
               \A s \in next.found \ next.todo : Dead(s)' \/ s \in raced',
           next.pc \notin {"block", "succeeded", "failed"} => next.found = {},
           next.pc = "succeeded" => next.todo = {},
           kind # "ingestion" /\ next.pc = "flag" =>
               next.seen = "active" \/ (next.seen = "flagged" /\ record = "flagged")
    PROVE  AdminInv'
<1> USE DEF AdminInv, AdminTypeOK
<1>1. op'[a] = next /\ \A b \in Operators \ {a} : op'[b] = op[b]
  OBVIOUS
<1>2. AdminTypeOK'
  BY DEF Admin!Statuses
<1>3. FoundAreDead'
  <2>1. ASSUME NEW b \in Operators \ {a}, op[b].pc \in {"block", "succeeded"},
               NEW s \in op[b].found \ op[b].todo
        PROVE  Dead(s)' \/ s \in raced'
    <3>1. s \in BlockedSessions
      BY <2>1 DEF Operations
    <3>2. Dead(s) \/ s \in raced
      BY <2>1 DEF FoundAreDead
    <3> QED
      BY <3>1, <3>2
  <2> QED
    BY <1>1, <2>1 DEF FoundAreDead
<1>4. FlagsAreSeen' /\ Admin!FirstFlagSaysActive'
  BY <1>1 DEF FlagsAreSeen, Admin!FirstFlagSaysActive
<1> QED
  BY <1>2, <1>3, <1>4

\* What ends a session, as a step of block-user-sessions or another operation.
LEMMA OperationEnds ==
    ASSUME AdminInv, NEW a \in Operators, NEW s \in BlockedSessions,
           NEW next \in Operations, op' = [op EXCEPT ![a] = next],
           state[s] # "none", Admin!EndSession(s),
           \/ op[a].pc \in {"idle", "kill"} /\ next.found = {} /\ next.todo = {}
                /\ next.pc = "succeeded"
           \/ op[a].pc = "kill" /\ next.found = {} /\ next.pc = "publish"
           \/ /\ op[a].pc = "block" /\ next.found = op[a].found
              /\ next.todo = op[a].todo \ {s}
              /\ next.pc = IF op[a].todo = {s} THEN "succeeded" ELSE "block"
    PROVE  AdminInv'
<1> USE DEF AdminInv, AdminTypeOK
<1>1. /\ Admin!TypeOK' /\ raced' \subseteq BlockedSessions /\ raced \subseteq raced'
      /\ Dead(s)' \/ s \in raced'
      /\ \A t \in BlockedSessions : Dead(t) => Dead(t)'
  BY EndedAreDead
<1>2. UNCHANGED <<shown, kind, record>>
  BY DEF Admin!EndSession
<1>3. next.pc \in {"block", "succeeded"} =>
        \A t \in next.found \ next.todo : Dead(t)' \/ t \in raced'
  <2>1. SUFFICES ASSUME op[a].pc = "block", NEW t \in op[a].found \ (op[a].todo \ {s}),
                        next.found = op[a].found, next.todo = op[a].todo \ {s}
                 PROVE  Dead(t)' \/ t \in raced'
    OBVIOUS
  <2>2. t = s \/ Dead(t) \/ t \in raced
    BY <2>1 DEF FoundAreDead
  <2>3. t \in BlockedSessions
    BY <2>1 DEF Operations
  <2> QED
    BY <1>1, <2>2, <2>3
<1>4. next.pc \notin {"block", "succeeded", "failed"} => next.found = {}
  OBVIOUS
<1>5. next.pc = "succeeded" => next.todo = {}
  OBVIOUS
<1>6. op[a].pc # "succeeded" /\ next.pc # "flag"
  OBVIOUS
<1> QED
  BY <1>1, <1>2, <1>3, <1>4, <1>5, <1>6, OperationGoesOn

\* What touches no session and no record.
LEMMA OperationProceeds ==
    ASSUME AdminInv, NEW a \in Operators, NEW next \in Operations,
           op' = [op EXCEPT ![a] = next], op[a].pc # "succeeded",
           UNCHANGED <<state, ended, patches, shown, kind, record, raced>>,
           next.pc = "block" => next.found = next.todo,
           next.pc = "succeeded" => next.found = {} /\ next.todo = {},
           next.pc \notin {"block", "succeeded", "failed"} => next.found = {},
           kind # "ingestion" /\ next.pc = "flag" =>
               next.seen = "active" \/ (next.seen = "flagged" /\ record = "flagged")
    PROVE  AdminInv'
<1>1. Admin!TypeOK'
  BY DEF AdminInv, AdminTypeOK, Admin!TypeOK, Admin!Idle, Admin!Writing, Admin!Statuses, Admin!Wishes
<1>2. \A t \in BlockedSessions : Dead(t) => Dead(t)'
  BY DEF Dead
<1>3. raced' \subseteq BlockedSessions /\ raced \subseteq raced'
  BY DEF AdminInv, AdminTypeOK
<1> QED
  BY <1>1, <1>2, <1>3, OperationGoesOn

\* An operation keeps the invariant ...
LEMMA AdminStepKeepsAdminInv ==
    ASSUME AdminInv, NEW a \in Operators, Admin!AdminStep(a)
    PROVE  AdminInv'
<1> USE DEF Admin!Proceed, Admin!vars
<1>0. op[a] \in Operations /\ [op[a] EXCEPT !.pc = "failed", !.todo = {}] \in Operations
  BY DEF AdminInv, AdminTypeOK, Operations
<1>n. [pc |-> "failed", todo |-> {}, found |-> {}, seen |-> "none"] \in Operations
  BY DEF Operations
<1>1. CASE Admin!BlockQuery(a)
  <2> DEFINE found == {s \in BlockedSessions : shown[s] \in Admin!Live}
             next == [Admin!NoOp EXCEPT !.pc = IF found = {} THEN "succeeded" ELSE "block",
                                        !.todo = found, !.found = found]
  <2>1. /\ op[a].pc = "idle" /\ op' = [op EXCEPT ![a] = next]
        /\ UNCHANGED <<state, ended, patches, shown, kind, record, raced>>
    BY <1>1 DEF Admin!BlockQuery
  <2>2. next \in Operations /\ next.found = found /\ next.todo = found
        /\ next.pc = IF found = {} THEN "succeeded" ELSE "block"
    BY DEF Admin!NoOp, Operations
  <2>3. /\ next.pc = "succeeded" => next.found = {} /\ next.todo = {}
        /\ next.pc \in {"succeeded", "block"} /\ next.found = next.todo
    BY <2>2
  <2> HIDE DEF next
  <2> QED
    BY <2>1, <2>2, <2>3, OperationProceeds
<1>2. CASE Admin!BlockNext(a)
  <2>1. PICK s \in op[a].todo :
          IF state[s] = "none"
          THEN /\ Admin!End(a, "failed")
               /\ UNCHANGED <<state, ended, patches, shown, kind, record, raced>>
          ELSE /\ Admin!EndSession(s)
               /\ op' = [op EXCEPT ![a] =
                    [op[a] EXCEPT !.todo = op[a].todo \ {s},
                       !.pc = IF op[a].todo = {s} THEN "succeeded" ELSE "block"]]
    BY <1>2 DEF Admin!BlockNext
  <2>2. op[a].pc = "block" /\ s \in BlockedSessions
    BY <1>0, <1>2 DEF Admin!BlockNext, Operations
  <2>3. CASE state[s] = "none"
    BY <1>0, <2>1, <2>2, <2>3, OperationProceeds DEF Admin!End, Operations
  <2>4. CASE state[s] # "none"
    <3> DEFINE next == [op[a] EXCEPT !.todo = op[a].todo \ {s},
                          !.pc = IF op[a].todo = {s} THEN "succeeded" ELSE "block"]
    <3>1. next \in Operations /\ next.found = op[a].found /\ next.todo = op[a].todo \ {s}
          /\ next.pc = IF op[a].todo = {s} THEN "succeeded" ELSE "block"
      BY <1>0 DEF Operations
    <3>2. op' = [op EXCEPT ![a] = next] /\ Admin!EndSession(s)
      BY <2>1, <2>4
    <3> QED
      BY <2>2, <2>4, <3>1, <3>2, OperationEnds
  <2> QED
    BY <2>3, <2>4
<1>3. CASE Admin!BlockFails(a)
  BY <1>0, <1>3, OperationProceeds DEF Admin!BlockFails, Admin!End, Operations
<1>4. ASSUME NEW s \in BlockedSessions, Admin!Terminate(a, s) PROVE AdminInv'
  <2> DEFINE next(pc) == [Admin!NoOp EXCEPT !.pc = pc]
  <2>1. /\ next("failed") \in Operations /\ next("succeeded") \in Operations
        /\ next("failed").pc = "failed" /\ next("succeeded").pc = "succeeded"
        /\ next("succeeded").found = {} /\ next("succeeded").todo = {}
        /\ op[a].pc = "idle"
    BY <1>4 DEF Admin!NoOp, Operations, Admin!Terminate
  <2>2. CASE state[s] = "none"
    <3>1. op' = [op EXCEPT ![a] = next("failed")]
          /\ UNCHANGED <<state, ended, patches, shown, kind, record, raced>>
      BY <1>4, <2>2 DEF Admin!Terminate
    <3> QED
      BY <2>1, <3>1, OperationProceeds
  <2>3. CASE state[s] # "none"
    <3>1. op' = [op EXCEPT ![a] = next("succeeded")] /\ Admin!EndSession(s)
      BY <1>4, <2>3 DEF Admin!Terminate
    <3> QED
      BY <2>1, <2>3, <3>1, OperationEnds
  <2> QED
    BY <2>2, <2>3
<1>5. ASSUME NEW s \in BlockedSessions, Admin!KillRead(a, s) PROVE AdminInv'
  <2> DEFINE next == [Admin!NoOp EXCEPT
                        !.pc = IF state[s] = "none" THEN "failed" ELSE "kill",
                        !.todo = IF state[s] = "none" THEN {} ELSE {s}]
  <2>1. /\ op[a].pc = "idle" /\ op' = [op EXCEPT ![a] = next]
        /\ UNCHANGED <<state, ended, patches, shown, kind, record, raced>>
    BY <1>5 DEF Admin!KillRead
  <2>2. next \in Operations /\ next.found = {} /\ next.pc \in {"failed", "kill"}
    BY DEF Admin!NoOp, Operations
  <2> QED
    BY <2>1, <2>2, OperationProceeds
<1>6. CASE Admin!KillWrite(a)
  <2>1. PICK s \in op[a].todo :
          IF state[s] = "none"
          THEN /\ Admin!End(a, "failed")
               /\ UNCHANGED <<state, ended, patches, shown, kind, record, raced>>
          ELSE Admin!EndSession(s) /\ op' = [op EXCEPT ![a] = [op[a] EXCEPT !.pc = "publish"]]
    BY <1>6 DEF Admin!KillWrite
  <2>2. op[a].pc = "kill" /\ s \in BlockedSessions /\ op[a].found = {}
    BY <1>0, <1>6 DEF Admin!KillWrite, Operations, AdminInv, FoundAreDead
  <2>3. CASE state[s] = "none"
    BY <1>0, <2>1, <2>2, <2>3, OperationProceeds DEF Admin!End, Operations
  <2>4. CASE state[s] # "none"
    <3> DEFINE next == [op[a] EXCEPT !.pc = "publish"]
    <3>1. next \in Operations /\ next.found = {} /\ next.pc = "publish"
      BY <1>0, <2>2 DEF Operations
    <3> QED
      BY <2>1, <2>2, <2>4, <3>1, OperationEnds
  <2> QED
    BY <2>3, <2>4
<1>7. CASE Admin!Publish(a)
  <2> DEFINE next(pc) == [op[a] EXCEPT !.pc = pc, !.todo = {}]
  <2>1. op[a].pc = "publish" /\ op[a].found = {}
        /\ UNCHANGED <<state, ended, patches, shown, kind, record, raced>>
    BY <1>7 DEF Admin!Publish, AdminInv, FoundAreDead
  <2>2. \A pc \in {"failed", "succeeded"} :
          next(pc) \in Operations /\ next(pc).found = {} /\ next(pc).todo = {}
          /\ next(pc).pc = pc
    BY <1>0, <2>1 DEF Operations
  <2>3. \E pc \in {"failed", "succeeded"} : op' = [op EXCEPT ![a] = next(pc)]
    BY <1>7 DEF Admin!Publish, Admin!End
  <2> QED
    BY <2>1, <2>2, <2>3, OperationProceeds
<1>8. CASE Admin!Call(a)
  <2> DEFINE next(pc) == [op[a] EXCEPT !.pc = pc, !.todo = {}]
  <2>1. op[a].pc = "idle" /\ op[a].found = {}
        /\ UNCHANGED <<state, ended, patches, shown, kind, record, raced>>
    BY <1>8 DEF Admin!Call, AdminInv, FoundAreDead
  <2>2. \A pc \in {"failed", "succeeded"} :
          next(pc) \in Operations /\ next(pc).found = {} /\ next(pc).todo = {}
          /\ next(pc).pc = pc
    BY <1>0, <2>1 DEF Operations
  <2>3. \E pc \in {"failed", "succeeded"} : op' = [op EXCEPT ![a] = next(pc)]
    BY <1>8 DEF Admin!Call, Admin!End
  <2> QED
    BY <2>1, <2>2, <2>3, OperationProceeds
<1>9. ASSUME NEW st \in {record, "none"}, NEW found \in {record, "none"},
             Admin!Look(a, st, found), kind # "ingestion" => st = record /\ found = record
      PROVE  AdminInv'
  <2> DEFINE next == [Admin!NoOp EXCEPT !.seen = found,
                        !.pc = IF st = "none" THEN "failed" ELSE "flag"]
  <2>1. /\ op[a].pc = "idle" /\ op' = [op EXCEPT ![a] = next]
        /\ UNCHANGED <<state, ended, patches, shown, kind, record, raced>>
    BY <1>9 DEF Admin!Look
  <2>2. next \in Operations /\ next.found = {} /\ next.seen = found
        /\ next.pc = IF st = "none" THEN "failed" ELSE "flag"
    BY <1>9 DEF Admin!NoOp, Operations, AdminInv, AdminTypeOK
  <2>3. kind # "ingestion" /\ next.pc = "flag" =>
          next.seen = "active" \/ (next.seen = "flagged" /\ record = "flagged")
    BY <1>9, <2>2 DEF AdminInv, AdminTypeOK
  <2> HIDE DEF next
  <2> QED
    BY <2>1, <2>2, <2>3, OperationProceeds
<1>10. CASE Admin!RevokeApiKey(a) \/ Admin!BlockTenant(a) \/ Admin!ForceFailIngestion(a)
  BY <1>9, <1>10 DEF Admin!RevokeApiKey, Admin!BlockTenant, Admin!ForceFailIngestion
<1>11. CASE Admin!FlagWrite(a)
  <2> DEFINE next == [op[a] EXCEPT !.pc = "succeeded", !.todo = {}]
  <2>1. /\ op[a].pc = "flag" /\ record' = "flagged"
        /\ op' = [op EXCEPT ![a] = next]
        /\ UNCHANGED <<state, ended, patches, shown, kind, raced>>
    BY <1>11 DEF Admin!FlagWrite, Admin!End
  <2>2. /\ next \in Operations /\ next.found = {} /\ next.todo = {}
        /\ next.pc = "succeeded" /\ next.seen = op[a].seen
    BY <1>0, <2>1 DEF Operations, AdminInv, FoundAreDead
  <2>3. op'[a] = next /\ \A b \in Operators \ {a} : op'[b] = op[b]
    BY <2>1 DEF AdminInv, AdminTypeOK
  <2>4. AdminTypeOK'
    BY <2>1, <2>2 DEF AdminInv, AdminTypeOK, Admin!TypeOK, Admin!Idle, Admin!Writing,
                      Admin!Statuses, Admin!Wishes
  <2>5. FoundAreDead'
    BY <2>1, <2>2, <2>3 DEF AdminInv, FoundAreDead, Dead
  <2>6. FlagsAreSeen'
    BY <2>1, <2>2, <2>3 DEF AdminInv, FlagsAreSeen
  <2>7. Admin!FirstFlagSaysActive'
    BY <2>1, <2>2, <2>3 DEF AdminInv, FlagsAreSeen, Admin!FirstFlagSaysActive
  <2> QED
    BY <2>4, <2>5, <2>6, <2>7 DEF AdminInv
<1> QED
  BY <1>1, <1>2, <1>3, <1>4, <1>5, <1>6, <1>7, <1>8, <1>10, <1>11
     DEF Admin!AdminStep, Admin!KillBatchJob, Admin!ForceBillingRecompute

\* ... and so do the owner's requests, the TTL and the index.
LEMMA NextKeepsAdminInv == AdminInv /\ [Admin!AdminNext]_adminVars => AdminInv'
<1> SUFFICES ASSUME AdminInv, [Admin!AdminNext]_adminVars PROVE AdminInv'
  OBVIOUS
<1>1. CASE Admin!Next /\ UNCHANGED Admin!adminVars
  <2>1. UNCHANGED <<shown, kind, record, op, raced>>
    BY <1>1 DEF Admin!adminVars
  <2>2. Admin!TypeOK'
    BY <1>1, OwnersKeepTypes DEF AdminInv, AdminTypeOK
  <2>3. \A s \in BlockedSessions : Dead(s) => Dead(s)'
    BY <1>1, DeadStayDead DEF AdminInv, AdminTypeOK
  <2>4. AdminTypeOK'
    BY <2>1, <2>2 DEF AdminInv, AdminTypeOK, Admin!Statuses
  <2>5. FoundAreDead'
    <3>1. ASSUME NEW a \in Operators, NEW s \in op[a].found PROVE s \in BlockedSessions
      BY <3>1 DEF AdminInv, AdminTypeOK, Operations
    <3> QED
      BY <2>1, <2>3, <3>1 DEF AdminInv, FoundAreDead
  <2> QED
    BY <2>1, <2>4, <2>5 DEF AdminInv, FlagsAreSeen, Admin!FirstFlagSaysActive
<1>2. ASSUME NEW s \in BlockedSessions, Admin!Propagate(s) PROVE AdminInv'
  <2>1. /\ shown' = [shown EXCEPT ![s] = state[s]]
        /\ UNCHANGED <<state, ended, patches, kind, record, op, raced>>
    BY <1>2 DEF Admin!Propagate, Admin!vars
  <2>2. Admin!TypeOK' /\ shown' \in [BlockedSessions -> Admin!Statuses \cup {"none"}]
    BY <2>1 DEF AdminInv, AdminTypeOK, Admin!TypeOK, Admin!Idle, Admin!Writing,
                Admin!Statuses, Admin!Wishes
  <2> QED
    BY <2>1, <2>2 DEF AdminInv, AdminTypeOK, FoundAreDead, Dead, FlagsAreSeen,
                      Admin!FirstFlagSaysActive
<1>3. ASSUME NEW a \in Operators, Admin!AdminStep(a) PROVE AdminInv'
  BY <1>3, AdminStepKeepsAdminInv
<1>4. CASE UNCHANGED adminVars
  BY <1>4 DEF adminVars, AdminInv, AdminTypeOK, Admin!TypeOK, Admin!Idle, Admin!Writing,
              Admin!Statuses, Admin!Wishes, FoundAreDead, Dead, FlagsAreSeen,
              Admin!FirstFlagSaysActive
<1> QED
  BY <1>1, <1>2, <1>3, <1>4 DEF Admin!AdminNext

\* The invariant gives both properties.
LEMMA AdminInvReportsTruly == AdminInv => ReportsAreTrue
BY DEF AdminInv, FoundAreDead, Dead, ReportsAreTrue, Admin!BlockTakesHold, Admin!Live

-----------------------------------------------------------------------------
(* The live page of the SPA.  The invariant says what is so of each session  *)
(* and which session things belong to, and, while no two calls overlap, how  *)
(* the page holds what it has opened.                                        *)

ClientStatuses == {"idle", "connecting", "spawning-gpu", "catching-up", "transcribing",
                   "ended", "failed"}

Pages == [session : 0 .. MaxSessions, status : ClientStatuses, fileActive : BOOLEAN,
          decoding : BOOLEAN, complete : BOOLEAN, grace : BOOLEAN]

PageSessions ==
    [status : ClientStatuses,
     socket : {"none", "connecting", "open", "closing", "closed"},
     ready : BOOLEAN, draining : BOOLEAN, pending : Seq(Nat), sent : Seq(Nat),
     captured : Nat, recording : BOOLEAN, starting : BOOLEAN,
     stream : 0 .. MaxSources, worklet : 0 .. MaxSources, file : Nat, wasOver : BOOLEAN]

FrameSources == [of : 0 .. MaxSessions, on : BOOLEAN, runs : BOOLEAN]

Views ==
    [page : Pages, sess : [Client!SessionIds -> PageSessions],
     source : [Client!SourceIds -> FrameSources]]

PageCalls ==
    [at : {"idle", "mic", "worklet", "pausing", "stopping", "decoding"},
     sid : 0 .. MaxSessions, src : 0 .. MaxSources,
     next : {"nothing", "start", "record", "endfile"}]

\* Until a session is over its frames are sent or wait, in order; the catch-up timer
\* runs only after "ready", and frames go out at once only when none waits.
KeepsFrames(s) ==
    /\ s.status = "idle" =>
         /\ s.socket = "none" /\ ~s.ready /\ ~s.draining /\ ~s.wasOver
         /\ s.pending = <<>> /\ s.sent = <<>> /\ s.captured = 0
         /\ ~s.recording /\ s.stream = 0 /\ s.worklet = 0
    /\ s.status \in {"ended", "failed"} => s.wasOver
    /\ s.worklet # 0 => s.recording
    /\ s.status \in {"catching-up", "transcribing"} \/ s.draining \/ s.sent # <<>> => s.ready
    /\ ~s.wasOver =>
         /\ s.sent \o s.pending = Client!Numbers(s.captured)
         /\ s.draining => s.socket = "open"
         /\ s.status = "transcribing" => s.socket = "open" /\ s.pending = <<>>

\* What the code between two awaits keeps, whatever overlaps.
Sound(st) ==
    /\ st \in Views
    /\ \A i \in Client!SessionIds : KeepsFrames(st.sess[i])
    /\ st.page.session # 0 => st.sess[st.page.session].status # "idle"
    /\ \A m \in Client!SourceIds :
         /\ st.source[m].on \/ st.source[m].runs => st.source[m].of # 0
         /\ st.source[m].of # 0 => st.sess[st.source[m].of].status # "idle"

\* No session becomes idle again, and sources keep their sessions.
Follows(st, t) ==
    /\ \A i \in Client!SessionIds : st.sess[i].status # "idle" => t.sess[i].status # "idle"
    /\ \A m \in Client!SourceIds :
         st.source[m].of # 0 => t.source[m].of = st.source[m].of

\* A call that awaits something does so for a session that was started, and the one
\* that awaits a worklet for a source of that session.
CallIsSound(st, k) ==
    /\ k.at \in {"mic", "worklet", "pausing", "stopping"} =>
         k.sid # 0 /\ st.sess[k.sid].status # "idle"
    /\ k.at = "worklet" => k.src # 0 /\ st.source[k.src].of = k.sid

\* While no two calls overlap, the page has what is open, on or running, ...
HasAll(st) ==
    /\ \A i \in Client!SessionIds :
         i # st.page.session =>
            /\ st.sess[i].status \in {"idle", "ended", "failed"}
            /\ st.sess[i].socket \notin {"connecting", "open"}
            /\ st.sess[i].stream = 0 /\ st.sess[i].worklet = 0
    /\ \A m \in Client!SourceIds :
         /\ st.source[m].on =>
              st.page.session = st.source[m].of /\ st.sess[st.source[m].of].stream = m
         /\ st.source[m].runs =>
              st.page.session = st.source[m].of /\ st.sess[st.source[m].of].worklet = m

\* ... shows the status of what it has, ...
ShowsStatus(st) ==
    st.page.session # 0 => st.page.status = st.sess[st.page.session].status

\* ... knows whether that is a file, whose frames come until the last one, ...
KnowsFile(st) ==
    /\ st.page.fileActive <=>
         st.page.session # 0 /\ st.sess[st.page.session].file # 0
    /\ st.page.fileActive /\ st.page.complete =>
         st.sess[st.page.session].captured = st.sess[st.page.session].file
    /\ \A m \in Client!SourceIds :
         st.source[m].runs /\ st.sess[st.source[m].of].file # 0 =>
            st.sess[st.source[m].of].captured < st.sess[st.source[m].of].file

\* ... and a file's grace period begins when it was sent.
GraceIsEarned(st) ==
    st.page.grace =>
        /\ st.page.fileActive /\ st.page.complete
        /\ \/ st.sess[st.page.session].wasOver
           \/ /\ st.sess[st.page.session].pending = <<>>
              /\ st.sess[st.page.session].sent
                   = Client!Numbers(st.sess[st.page.session].file)

Held(st) == HasAll(st) /\ ShowsStatus(st) /\ KnowsFile(st) /\ GraceIsEarned(st)

\* What the one call that awaits something, if there is one, has in hand.
CallIsHeld(st, k) ==
    /\ k.at = "decoding" => st.page.session = 0 /\ ~st.page.complete
    /\ k.at \in {"mic", "worklet", "pausing", "stopping"} =>
         /\ st.page.session = k.sid /\ st.sess[k.sid].file = 0
         /\ ~st.sess[k.sid].recording /\ k.next # "endfile"
    /\ k.at = "mic" => st.sess[k.sid].stream = 0
    /\ k.at = "worklet" => st.sess[k.sid].stream = k.src

\* A microphone that does not record is being started or stopped.
LightsAreShort(st, k) ==
    \A i \in Client!SessionIds :
        st.sess[i].stream # 0 =>
            st.sess[i].recording \/ k.at \in {"worklet", "pausing", "stopping"}

\* Of the calls c alone may await something.
Alone(c) == \A d \in Client!Calls \ {c} : call[d].at = "idle"

ClientInv ==
    /\ Sound(Client!state)
    /\ call \in [Client!Calls -> PageCalls] /\ overlapped \in BOOLEAN
    /\ \A c \in Client!Calls : CallIsSound(Client!state, call[c])
    /\ ~overlapped =>
         /\ Held(Client!state)
         /\ \A c, d \in Client!Calls :
              call[c].at # "idle" /\ call[d].at # "idle" => c = d
         /\ \A c \in Client!Calls : CallIsHeld(Client!state, call[c])
         /\ \A i \in Client!SessionIds :
              sess[i].stream # 0 =>
                \/ sess[i].recording
                \/ \E c \in Client!Calls : call[c].at \in {"worklet", "pausing", "stopping"}

-----------------------------------------------------------------------------

\* A sequence that loses its head to the end of another one before it.
LEMMA HeadMoves ==
    ASSUME NEW s \in Seq(Nat), NEW t \in Seq(Nat), t # <<>>
    PROVE  Append(s, Head(t)) \o Tail(t) = s \o t
<1>1. Head(t) \in Nat /\ Tail(t) \in Seq(Nat) /\ <<Head(t)>> \in Seq(Nat)
  BY HeadTailProperties
<1>2. Append(s, Head(t)) = s \o <<Head(t)>>
  BY <1>1, AppendIsConcat
<1>3. (s \o <<Head(t)>>) \o Tail(t) = s \o (<<Head(t)>> \o Tail(t))
  BY <1>1, ConcatAssociative
<1>4. <<Head(t)>> \o Tail(t) = t
  <2> DEFINE u == <<Head(t)>> \o Tail(t)
  <2>1. /\ u \in Seq(Nat) /\ Len(u) = 1 + Len(Tail(t))
        /\ \A k \in 1 .. 1 + Len(Tail(t)) :
             u[k] = IF k <= 1 THEN <<Head(t)>>[k] ELSE Tail(t)[k - 1]
    <3>1. Len(<<Head(t)>>) = 1
      OBVIOUS
    <3> QED
      BY <1>1, <3>1, ConcatProperties
  <2>2. /\ Len(Tail(t)) = Len(t) - 1 /\ Len(t) \in Nat /\ Head(t) = t[1]
        /\ \A k \in 1 .. Len(Tail(t)) : Tail(t)[k] = t[k + 1]
    BY HeadTailProperties
  <2> HIDE DEF u
  <2>3. \A k \in 1 .. Len(u) : u[k] = t[k]
    BY <2>1, <2>2
  <2>4. u = t
    BY <2>1, <2>2, <2>3, SeqEqual
  <2> QED
    BY <2>4 DEF u
<1> QED
  BY <1>2, <1>3, <1>4

\* A frame that comes is the next one.
LEMMA NumbersGrow ==
    ASSUME NEW n \in Nat
    PROVE  /\ Client!Numbers(n) \in Seq(Nat)
           /\ Append(Client!Numbers(n), n + 1) = Client!Numbers(n + 1)
<1>1. Client!Numbers(n) \in Seq(Nat) /\ Client!Numbers(n + 1) \in Seq(Nat)
      /\ Len(Client!Numbers(n)) = n /\ Len(Client!Numbers(n + 1)) = n + 1
  BY DEF Client!Numbers
<1>2. /\ \A k \in 1 .. n : Client!Numbers(n)[k] = k
      /\ \A k \in 1 .. n + 1 : Client!Numbers(n + 1)[k] = k
  BY DEF Client!Numbers
<1> DEFINE a == Client!Numbers(n)
           b == Client!Numbers(n + 1)
<1> HIDE DEF a, b
<1>3. /\ a \in Seq(Nat) /\ b \in Seq(Nat) /\ Len(a) = n /\ Len(b) = n + 1
      /\ \A k \in 1 .. n : a[k] = k
      /\ \A k \in 1 .. n + 1 : b[k] = k
  BY <1>1, <1>2 DEF a, b
<1>4. Append(a, n + 1) \in Seq(Nat) /\ Len(Append(a, n + 1)) = n + 1
      /\ \A k \in 1 .. n + 1 : Append(a, n + 1)[k] = k
  BY <1>3
<1>5. Append(a, n + 1) = b
  BY <1>3, <1>4, SeqEqual
<1> QED
  BY <1>1, <1>5 DEF a, b

\* A frame joins those that wait.
LEMMA FrameWaits ==
    ASSUME NEW s \in Seq(Nat), NEW t \in Seq(Nat), NEW n \in Nat
    PROVE  s \o Append(t, n) = Append(s \o t, n)
<1> DEFINE a == s \o Append(t, n)
           b == Append(s \o t, n)
<1>1. a \in Seq(Nat) /\ b \in Seq(Nat) /\ Len(a) = Len(b) /\ Len(a) = Len(s) + Len(t) + 1
  OBVIOUS
<1>2. ASSUME NEW k \in 1 .. Len(a) PROVE a[k] = b[k]
  BY <1>2
<1> HIDE DEF a, b
<1>3. a = b
  BY <1>1, <1>2, SeqEqual
<1> QED
  BY <1>3 DEF a, b

\* One session changes, with the page and the sources.
LEMMA SessionChanges ==
    ASSUME NEW st, Sound(st), NEW i \in Client!SessionIds,
           NEW s \in PageSessions, KeepsFrames(s),
           s.status = "idle" => st.sess[i].status = "idle",
           NEW p \in Pages,
           p.session \in {0, st.page.session} \/ (p.session = i /\ s.status # "idle"),
           NEW src \in [Client!SourceIds -> FrameSources],
           \A m \in Client!SourceIds :
              /\ src[m].on \/ src[m].runs => src[m].of # 0
              /\ \/ src[m].of = st.source[m].of
                 \/ st.source[m].of = 0 /\ src[m].of = i /\ s.status # "idle"
    PROVE  LET t == [page |-> p, sess |-> [st.sess EXCEPT ![i] = s], source |-> src]
           IN  Sound(t) /\ Follows(st, t)
<1> DEFINE sess2 == [st.sess EXCEPT ![i] = s]
           t == [page |-> p, sess |-> sess2, source |-> src]
<1>1. /\ sess2 \in [Client!SessionIds -> PageSessions]
      /\ sess2[i] = s
      /\ \A j \in Client!SessionIds : j # i => sess2[j] = st.sess[j]
  BY DEF Sound, Views
<1>2. /\ \A j \in Client!SessionIds : KeepsFrames(sess2[j])
      /\ \A j \in Client!SessionIds : st.sess[j].status # "idle" => sess2[j].status # "idle"
  BY <1>1 DEF Sound
<1>3. st.page.session \in 0 .. MaxSessions /\ p.session \in 0 .. MaxSessions
      /\ \A m \in Client!SourceIds :
           st.source[m].of \in 0 .. MaxSessions /\ src[m].of \in 0 .. MaxSessions
  BY DEF Sound, Views, Pages, FrameSources
<1>4. \A k \in 0 .. MaxSessions : k # 0 => k \in Client!SessionIds
  BY PageAssumption DEF Client!SessionIds
<1> HIDE DEF sess2
<1>5. p.session # 0 => sess2[p.session].status # "idle"
  BY <1>1, <1>2, <1>3, <1>4 DEF Sound
<1>6. \A m \in Client!SourceIds :
        src[m].of # 0 => sess2[src[m].of].status # "idle"
  BY <1>1, <1>2, <1>3, <1>4 DEF Sound
<1>7. t \in Views
  BY <1>1 DEF Views
<1>8. Sound(t)
  BY <1>2, <1>5, <1>6, <1>7 DEF Sound
<1>9. Follows(st, t)
  BY <1>2 DEF Follows
<1> QED
  BY <1>8, <1>9 DEF sess2

\* Follows is transitive.
LEMMA FollowsOn ==
    ASSUME NEW st, NEW t, NEW u, Follows(st, t), Follows(t, u)
    PROVE  Follows(st, u)
<1>1. \A i \in Client!SessionIds : st.sess[i].status # "idle" => u.sess[i].status # "idle"
  BY DEF Follows
<1>2. \A m \in Client!SourceIds : st.source[m].of # 0 => u.source[m].of = st.source[m].of
  BY DEF Follows
<1> QED
  BY <1>1, <1>2 DEF Follows

\* A session that changes in status keeps its frames.
LEMMA StatusIs ==
    ASSUME NEW st, st \in Views, NEW i \in Client!SessionIds,
           NEW x \in ClientStatuses,
           st.sess[i].status = x /\ x \in {"ended", "failed"} => st.sess[i].wasOver
    PROVE  LET s == st.sess[i]
               u == [s EXCEPT !.status = x,
                              !.wasOver = s.wasOver \/ x \in {"ended", "failed"}]
               p == [st.page EXCEPT
                       !.status = IF s.status = x THEN @ ELSE x,
                       !.grace = @ \/ (/\ s.status # x
                                       /\ st.page.fileActive /\ st.page.complete
                                       /\ x = "transcribing")]
           IN  /\ Client!Status(st, i, x)
                    = [page |-> p, sess |-> [st.sess EXCEPT ![i] = u], source |-> st.source]
               /\ u \in PageSessions /\ p \in Pages
<1> DEFINE s == st.sess[i]
           u == [s EXCEPT !.status = x, !.wasOver = s.wasOver \/ x \in {"ended", "failed"}]
           p == [st.page EXCEPT
                   !.status = IF s.status = x THEN @ ELSE x,
                   !.grace = @ \/ (/\ s.status # x
                                   /\ st.page.fileActive /\ st.page.complete
                                   /\ x = "transcribing")]
<1>1. /\ st = [page |-> st.page, sess |-> st.sess, source |-> st.source]
      /\ st.page \in Pages /\ s \in PageSessions
      /\ st.sess = [j \in Client!SessionIds |-> st.sess[j]]
  BY DEF Views
<1>2. u \in PageSessions
  BY <1>1 DEF PageSessions
<1>3. p \in Pages
  BY <1>1 DEF Pages
<1>4. CASE s.status = x
  <2>1. u = s
    <3>1. s.wasOver = (s.wasOver \/ x \in {"ended", "failed"})
      BY <1>1, <1>4 DEF PageSessions
    <3> QED
      BY <1>1, <1>4, <3>1 DEF PageSessions
  <2>2. p = st.page
    BY <1>1, <1>4 DEF Pages
  <2>3. [st.sess EXCEPT ![i] = u] = st.sess
    BY <1>1, <2>1
  <2>4. Client!Status(st, i, x) = st
    BY <1>4 DEF Client!Status
  <2> QED
    BY <1>1, <1>2, <1>3, <2>2, <2>3, <2>4
<1>5. CASE s.status # x
  <2>1. p = [st.page EXCEPT !.status = x,
                            !.grace = @ \/ (/\ st.page.fileActive /\ st.page.complete
                                            /\ x = "transcribing")]
    BY <1>1, <1>5 DEF Pages
  <2>2. Client!Status(st, i, x)
          = [page |-> p, sess |-> [st.sess EXCEPT ![i] = u], source |-> st.source]
    BY <1>1, <1>5, <2>1 DEF Client!Status, Client!Over, Views
  <2> QED
    BY <1>2, <1>3, <2>2
<1> QED
  BY <1>4, <1>5

\* A session that only sends and takes no more.
Quieter(s, v) ==
    /\ v.status = s.status /\ v.socket = s.socket /\ v.ready = s.ready
    /\ v.draining \in {s.draining, FALSE} /\ v.recording \in {s.recording, FALSE}
    /\ v.pending = s.pending /\ v.sent = s.sent /\ v.captured = s.captured
    /\ v.stream = s.stream /\ v.worklet = s.worklet /\ v.file = s.file
    /\ v.wasOver = s.wasOver

\* The source that a session v has stops, and the session has it no more.
Stopped(st, i, v) ==
    [page |-> st.page, sess |-> [st.sess EXCEPT ![i] = [v EXCEPT !.worklet = 0]],
     source |-> IF v.worklet = 0 THEN st.source
                ELSE [st.source EXCEPT ![v.worklet].runs = FALSE]]

\* A source that stops, as one record.
LEMMA StopWorkletIs ==
    ASSUME NEW st, st \in Views, NEW i \in Client!SessionIds, NEW v \in PageSessions,
           v.worklet = st.sess[i].worklet
    PROVE  LET mid == [page |-> st.page, sess |-> [st.sess EXCEPT ![i] = v],
                       source |-> st.source]
           IN  Client!StopWorklet(mid, i) = Stopped(st, i, v)
<1> DEFINE sess2 == [st.sess EXCEPT ![i] = v]
           mid == [page |-> st.page, sess |-> sess2, source |-> st.source]
           u == [v EXCEPT !.worklet = 0]
<1>1. st.sess \in [Client!SessionIds -> PageSessions]
  BY DEF Views
<1>2. /\ sess2[i] = v /\ [sess2 EXCEPT ![i].worklet = 0] = [st.sess EXCEPT ![i] = u]
      /\ sess2 \in [Client!SessionIds -> PageSessions]
  BY <1>1
<1> HIDE DEF sess2
<1>3. mid.sess[i].worklet = v.worklet
  BY <1>2
<1>4. ASSUME v.worklet = 0 PROVE Client!StopWorklet(mid, i) = Stopped(st, i, v)
  <2>1. u = v
    BY <1>4 DEF PageSessions
  <2>2. Client!StopWorklet(mid, i) = mid
    BY <1>3, <1>4 DEF Client!StopWorklet
  <2> HIDE DEF u
  <2> QED
    BY <1>4, <2>1, <2>2 DEF Stopped, u, sess2
<1>5. ASSUME v.worklet # 0 PROVE Client!StopWorklet(mid, i) = Stopped(st, i, v)
  <2>1. Client!StopWorklet(mid, i)
          = [mid EXCEPT !.source[v.worklet].runs = FALSE, !.sess[i].worklet = 0]
    BY <1>3, <1>5 DEF Client!StopWorklet
  <2>2. Client!StopWorklet(mid, i)
          = [page |-> st.page, sess |-> [sess2 EXCEPT ![i].worklet = 0],
             source |-> [st.source EXCEPT ![v.worklet].runs = FALSE]]
    BY <2>1
  <2>3. Stopped(st, i, v)
          = [page |-> st.page, sess |-> [st.sess EXCEPT ![i] = u],
             source |-> [st.source EXCEPT ![v.worklet].runs = FALSE]]
    BY <1>5 DEF Stopped
  <2> HIDE DEF mid, u
  <2> QED
    BY <1>2, <2>2, <2>3
<1> QED
  BY <1>4, <1>5 DEF sess2

\* stop() up to its await: the session takes no more frames.
LEMMA HaltIs ==
    ASSUME NEW st, st \in Views, NEW i \in Client!SessionIds
    PROVE  LET v == [st.sess[i] EXCEPT !.draining = FALSE, !.recording = FALSE]
           IN  v \in PageSessions /\ Client!Halt(st, i) = Stopped(st, i, v)
<1> DEFINE v == [st.sess[i] EXCEPT !.draining = FALSE, !.recording = FALSE]
           mid == [st EXCEPT !.sess[i] = [@ EXCEPT !.draining = FALSE, !.recording = FALSE]]
<1>1. /\ st = [page |-> st.page, sess |-> st.sess, source |-> st.source]
      /\ st.sess[i] \in PageSessions
  BY DEF Views
<1>2. v \in PageSessions /\ v.worklet = st.sess[i].worklet
  BY <1>1 DEF PageSessions
<1>3. mid = [page |-> st.page, sess |-> [st.sess EXCEPT ![i] = v], source |-> st.source]
  BY <1>1
<1>4. Client!Halt(st, i) = Client!StopWorklet(mid, i)
  BY DEF Client!Halt
<1> HIDE DEF v, mid
<1> QED
  BY <1>2, <1>3, <1>4, StopWorkletIs DEF v

\* stop() after its await: the microphone goes off, the socket is closed.
LEMMA ReleaseIs ==
    ASSUME NEW st, st \in Views, NEW i \in Client!SessionIds
    PROVE  LET s == st.sess[i]
               u == [s EXCEPT !.stream = 0]
               src == [st.source EXCEPT ![s.stream].on = FALSE]
           IN  /\ Client!ReleaseStream(st, i)
                    = [page |-> st.page, sess |-> [st.sess EXCEPT ![i] = u],
                       source |-> IF s.stream = 0 THEN st.source ELSE src]
               /\ u \in PageSessions
               /\ src \in [Client!SourceIds -> FrameSources]
<1> DEFINE s == st.sess[i]
           u == [s EXCEPT !.stream = 0]
           src == [st.source EXCEPT ![s.stream].on = FALSE]
<1>1. /\ st = [page |-> st.page, sess |-> st.sess, source |-> st.source]
      /\ st.page \in Pages /\ s \in PageSessions
      /\ st.sess = [j \in Client!SessionIds |-> st.sess[j]]
      /\ st.source \in [Client!SourceIds -> FrameSources]
  BY DEF Views
<1>2. u \in PageSessions
  <2>1. 0 \in 0 .. MaxSources
    BY PageAssumption
  <2> QED
    BY <1>1, <2>1 DEF PageSessions
<1>3. src \in [Client!SourceIds -> FrameSources]
  <2>1. \A m \in Client!SourceIds : [st.source[m] EXCEPT !.on = FALSE] \in FrameSources
    BY <1>1 DEF FrameSources
  <2> QED
    BY <1>1, <2>1
<1>4. CASE s.stream = 0
  <2>1. u = s
    BY <1>1, <1>4 DEF PageSessions
  <2>2. [st.sess EXCEPT ![i] = u] = st.sess
    BY <1>1, <2>1
  <2> QED
    BY <1>1, <1>2, <1>3, <1>4, <2>2 DEF Client!ReleaseStream
<1>5. CASE s.stream # 0
  <2>1. Client!ReleaseStream(st, i)
          = [st EXCEPT !.source[s.stream].on = FALSE, !.sess[i].stream = 0]
    BY <1>5 DEF Client!ReleaseStream
  <2> QED
    BY <1>1, <1>2, <1>3, <1>5, <2>1
<1> QED
  BY <1>4, <1>5

\* A session that is stopped is over, holds nothing, and the page has let go of it.
LEMMA FinishIs ==
    ASSUME NEW st, st \in Views, NEW i \in Client!SessionIds, KeepsFrames(st.sess[i])
    PROVE  LET s == st.sess[i]
               src == IF s.stream = 0 THEN st.source
                      ELSE [st.source EXCEPT ![s.stream].on = FALSE]
           IN  \E x, y \in ClientStatuses, u \in PageSessions :
                 /\ u = [s EXCEPT !.stream = 0, !.socket = Client!Shut(@), !.status = x,
                                  !.wasOver = TRUE]
                 /\ x \in {"ended", "failed"}
                 /\ Client!Finish(st, i)
                      = [page |-> [st.page EXCEPT !.session = 0, !.status = y],
                         sess |-> [st.sess EXCEPT ![i] = u], source |-> src]
<1> DEFINE s == st.sess[i]
           src == IF s.stream = 0 THEN st.source ELSE [st.source EXCEPT ![s.stream].on = FALSE]
           r == [s EXCEPT !.stream = 0]
           w == [r EXCEPT !.socket = Client!Shut(@)]
           released == Client!ReleaseStream(st, i)
           mid == [released EXCEPT !.sess[i].socket = Client!Shut(@)]
<1>1. /\ st.page \in Pages /\ s \in PageSessions
      /\ st.sess = [j \in Client!SessionIds |-> st.sess[j]]
      /\ released = [page |-> st.page, sess |-> [st.sess EXCEPT ![i] = r], source |-> src]
      /\ src \in [Client!SourceIds -> FrameSources]
      /\ r \in PageSessions
  BY ReleaseIs DEF Views
<1>2. w \in PageSessions
  <2>1. Client!Shut(r.socket) \in {"none", "connecting", "open", "closing", "closed"}
    BY <1>1 DEF PageSessions, Client!Shut
  <2> QED
    BY <1>1, <2>1 DEF PageSessions
<1>3. /\ mid = [page |-> st.page, sess |-> [st.sess EXCEPT ![i] = w], source |-> src]
      /\ mid \in Views /\ mid.sess[i] = w
  <2> HIDE DEF r, released, src
  <2>1. mid = [page |-> st.page,
               sess |-> [[st.sess EXCEPT ![i] = r] EXCEPT ![i].socket = Client!Shut(@)],
               source |-> src]
    BY <1>1
  <2>2. [[st.sess EXCEPT ![i] = r] EXCEPT ![i].socket = Client!Shut(@)] = [st.sess EXCEPT ![i] = w]
    BY <1>1
  <2>3. mid = [page |-> st.page, sess |-> [st.sess EXCEPT ![i] = w], source |-> src]
    BY <2>1, <2>2
  <2> HIDE DEF mid, w
  <2>4. [st.sess EXCEPT ![i] = w] \in [Client!SessionIds -> PageSessions]
    BY <1>1, <1>2 DEF Views
  <2> QED
    BY <1>1, <1>2, <2>3, <2>4 DEF Views
<1> HIDE DEF src
<1>4. CASE s.status \in {"ended", "failed"}
  <2>1. s.wasOver = TRUE /\ w.wasOver = s.wasOver /\ w.status = s.status
    BY <1>1, <1>4 DEF KeepsFrames, PageSessions
  <2> DEFINE u == [s EXCEPT !.stream = 0, !.socket = Client!Shut(@), !.status = s.status,
                            !.wasOver = TRUE]
  <2>2. u = w
    BY <1>1, <2>1 DEF PageSessions
  <2>3. Client!Finish(st, i) = [mid EXCEPT !.page.session = 0]
    BY <1>3, <1>4, <2>1 DEF Client!Finish, Client!End, Client!Over
  <2>4. Client!Finish(st, i)
          = [page |-> [st.page EXCEPT !.session = 0, !.status = st.page.status],
             sess |-> [st.sess EXCEPT ![i] = u], source |-> src]
    <3>1. [st.page EXCEPT !.session = 0, !.status = st.page.status]
            = [st.page EXCEPT !.session = 0]
      BY <1>1 DEF Pages
    <3> HIDE DEF mid, u, w
    <3> QED
      BY <1>3, <2>2, <2>3, <3>1
  <2>5. st.page.status \in ClientStatuses /\ s.status \in ClientStatuses
    BY <1>1 DEF Pages, PageSessions
  <2> QED
    BY <1>2, <1>4, <2>2, <2>4, <2>5 DEF src
<1>5. CASE s.status \notin {"ended", "failed"}
  <2> DEFINE u == [s EXCEPT !.stream = 0, !.socket = Client!Shut(@), !.status = "ended",
                            !.wasOver = TRUE]
             over == Client!Status(mid, i, "ended")
  <2>1. w.status = s.status /\ w.wasOver = s.wasOver
    BY <1>1 DEF PageSessions
  <2>2. Client!Finish(st, i) = [over EXCEPT !.page.session = 0]
    BY <1>3, <1>5, <2>1 DEF Client!Finish, Client!End, Client!Over
  <2>3. over = [page |-> [st.page EXCEPT !.status = "ended", !.grace = @ \/ FALSE],
                sess |-> [mid.sess EXCEPT ![i] = [w EXCEPT !.status = "ended", !.wasOver = @ \/ TRUE]],
                source |-> src]
    <3> HIDE DEF w, mid
    <3>1. "ended" # "transcribing" /\ "ended" \in {"ended", "failed"} /\ w.status # "ended"
          /\ "ended" \in ClientStatuses
      BY <1>5, <2>1 DEF ClientStatuses
    <3>0. mid \in Views /\ "ended" \in ClientStatuses
          /\ (mid.sess[i].status = "ended" /\ "ended" \in {"ended", "failed"}
                => mid.sess[i].wasOver)
      BY <1>3, <3>1
    <3>2. over = [page |-> [mid.page EXCEPT
                             !.status = IF mid.sess[i].status = "ended" THEN @ ELSE "ended",
                             !.grace = @ \/ (/\ mid.sess[i].status # "ended"
                                             /\ mid.page.fileActive /\ mid.page.complete
                                             /\ "ended" = "transcribing")],
                  sess |-> [mid.sess EXCEPT ![i] =
                              [mid.sess[i] EXCEPT !.status = "ended",
                                  !.wasOver = mid.sess[i].wasOver \/ "ended" \in {"ended", "failed"}]],
                  source |-> mid.source]
      BY <3>0, StatusIs
    <3> HIDE DEF over
    <3> QED
      BY <1>3, <3>1, <3>2
  <2>4. [w EXCEPT !.status = "ended", !.wasOver = @ \/ TRUE] = u /\ u \in PageSessions
    <3>1. [w EXCEPT !.status = "ended", !.wasOver = @ \/ TRUE] = u
      BY <1>1, <1>2 DEF PageSessions
    <3>2. u = [w EXCEPT !.status = "ended", !.wasOver = TRUE]
      BY <1>1, <1>2 DEF PageSessions
    <3> HIDE DEF w, u
    <3>3. u \in PageSessions
      BY <1>2, <3>2 DEF PageSessions, ClientStatuses
    <3> QED
      BY <3>1, <3>3
  <2>5. [mid.sess EXCEPT ![i] = u] = [st.sess EXCEPT ![i] = u]
    <3> HIDE DEF u, w, mid
    <3> QED
      BY <1>1, <1>3
  <2>6. [st.page EXCEPT !.status = "ended", !.grace = @ \/ FALSE]
          = [st.page EXCEPT !.status = "ended"]
    BY <1>1 DEF Pages
  <2>7. Client!Finish(st, i)
          = [page |-> [st.page EXCEPT !.session = 0, !.status = "ended"],
             sess |-> [st.sess EXCEPT ![i] = u], source |-> src]
    <3> HIDE DEF u, w, mid, over
    <3>1. over = [page |-> [st.page EXCEPT !.status = "ended"],
                  sess |-> [st.sess EXCEPT ![i] = u], source |-> src]
      BY <2>3, <2>4, <2>5, <2>6
    <3>2. [[st.page EXCEPT !.status = "ended"] EXCEPT !.session = 0]
            = [st.page EXCEPT !.session = 0, !.status = "ended"]
      BY <1>1 DEF Pages
    <3> QED
      BY <2>2, <3>1, <3>2
  <2> QED
    BY <2>4, <2>7 DEF src, ClientStatuses
<1> QED
  BY <1>4, <1>5

\* The next session starts with nothing.
LEMMA OpenIs ==
    ASSUME NEW st, Sound(st), NEW length \in Nat,
           \E k \in Client!SessionIds : st.sess[k].status = "idle"
    PROVE  \E i \in Client!SessionIds, u \in PageSessions :
             /\ st.sess[i].status = "idle"
             /\ u = [st.sess[i] EXCEPT !.socket = "connecting", !.file = length,
                                       !.status = "connecting"]
             /\ KeepsFrames(u)
             /\ Client!Open(st, length)
                  = [page |-> [st.page EXCEPT !.session = i, !.status = "connecting"],
                     sess |-> [st.sess EXCEPT ![i] = u], source |-> st.source]
<1> DEFINE i == CHOOSE k \in Client!SessionIds : st.sess[k].status = "idle"
           s == st.sess[i]
           w == [s EXCEPT !.socket = "connecting", !.file = length]
           u == [s EXCEPT !.socket = "connecting", !.file = length, !.status = "connecting"]
           p == [st.page EXCEPT !.session = i]
           mid == [st EXCEPT !.sess[i] = [@ EXCEPT !.socket = "connecting", !.file = length],
                             !.page.session = i]
           next == Client!Status(mid, i, "connecting")
<1>1. i \in Client!SessionIds /\ s.status = "idle"
  OBVIOUS
<1>2. Client!Open(st, length) = next
  BY DEF Client!Open
<1> HIDE DEF i
<1>3. /\ st \in Views /\ st.page \in Pages /\ s \in PageSessions /\ KeepsFrames(s)
      /\ st = [page |-> st.page, sess |-> st.sess, source |-> st.source]
      /\ st.sess = [j \in Client!SessionIds |-> st.sess[j]]
  BY <1>1 DEF Sound, Views
<1>4. w \in PageSessions /\ u \in PageSessions
  BY <1>3 DEF PageSessions, ClientStatuses
<1>5. /\ mid = [page |-> p, sess |-> [st.sess EXCEPT ![i] = w], source |-> st.source]
      /\ p \in Pages
  <2>1. i \in 0 .. MaxSessions
    BY <1>1, PageAssumption DEF Client!SessionIds
  <2>2. p \in Pages
    BY <1>3, <2>1 DEF Pages
  <2>3. mid = [page |-> p, sess |-> [st.sess EXCEPT ![i] = w], source |-> st.source]
    <3> DEFINE a == [st EXCEPT !.sess[i] = w]
    <3>1. mid = [a EXCEPT !.page.session = i]
      OBVIOUS
    <3>2. a = [page |-> st.page, sess |-> [st.sess EXCEPT ![i] = w], source |-> st.source]
      <4> HIDE DEF w
      <4> QED
        BY <1>3
    <3> HIDE DEF mid, w, s, a
    <3> QED
      BY <3>1, <3>2
  <2> QED
    BY <2>2, <2>3
<1>6. mid \in Views /\ mid.sess[i] = w /\ mid.page = p
  <2> HIDE DEF mid, w, p
  <2> QED
    BY <1>1, <1>3, <1>4, <1>5 DEF Views
<1>7. w.status = "idle" /\ w.wasOver = s.wasOver /\ s.wasOver \in BOOLEAN
  BY <1>1, <1>3 DEF PageSessions
<1>8. u = [w EXCEPT !.status = "connecting", !.wasOver = w.wasOver \/ FALSE]
  BY <1>1, <1>3, <1>7 DEF PageSessions
<1>9. next
        = [page |-> [p EXCEPT !.status = "connecting", !.grace = @ \/ FALSE],
           sess |-> [mid.sess EXCEPT ![i] =
                       [w EXCEPT !.status = "connecting", !.wasOver = w.wasOver \/ FALSE]],
           source |-> mid.source]
  <2> HIDE DEF mid, w, p, u
  <2>1. /\ mid \in Views /\ "connecting" \in ClientStatuses
        /\ (mid.sess[i].status = "connecting" /\ "connecting" \in {"ended", "failed"}
              => mid.sess[i].wasOver)
    BY <1>6, <1>7 DEF ClientStatuses
  <2>2. Client!Status(mid, i, "connecting")
          = [page |-> [mid.page EXCEPT
                        !.status = IF mid.sess[i].status = "connecting" THEN @
                                   ELSE "connecting",
                        !.grace = @ \/ (/\ mid.sess[i].status # "connecting"
                                        /\ mid.page.fileActive /\ mid.page.complete
                                        /\ "connecting" = "transcribing")],
             sess |-> [mid.sess EXCEPT ![i] =
                         [mid.sess[i] EXCEPT !.status = "connecting",
                            !.wasOver = mid.sess[i].wasOver
                                          \/ "connecting" \in {"ended", "failed"}]],
             source |-> mid.source]
    BY <1>1, <2>1, StatusIs
  <2>3. "connecting" # "transcribing" /\ "connecting" \notin {"ended", "failed"}
        /\ "connecting" # "idle"
    OBVIOUS
  <2> HIDE DEF next
  <2> QED
    BY <1>6, <1>7, <2>2, <2>3 DEF next
<1>10. [p EXCEPT !.status = "connecting", !.grace = @ \/ FALSE]
         = [st.page EXCEPT !.session = i, !.status = "connecting"]
  BY <1>3 DEF Pages
<1>11. next = [page |-> [st.page EXCEPT !.session = i, !.status = "connecting"],
               sess |-> [st.sess EXCEPT ![i] = u], source |-> st.source]
  <2> HIDE DEF u, w, p, next, mid
  <2>1. [mid.sess EXCEPT ![i] = u] = [st.sess EXCEPT ![i] = u]
    BY <1>3, <1>5
  <2> QED
    BY <1>5, <1>8, <1>9, <1>10, <2>1
<1>12. KeepsFrames(u)
  <2>1. /\ u.status = "connecting" /\ u.ready = s.ready /\ u.draining = s.draining
        /\ u.pending = s.pending /\ u.sent = s.sent /\ u.captured = s.captured
        /\ u.wasOver = s.wasOver /\ u.worklet = s.worklet
    BY <1>3 DEF PageSessions
  <2> HIDE DEF u
  <2> QED
    BY <1>1, <1>3, <2>1 DEF KeepsFrames
<1> QED
  <2> HIDE DEF u, next, s
  <2>1. u = [st.sess[i] EXCEPT !.socket = "connecting", !.file = length,
                               !.status = "connecting"]
    BY DEF u, s
  <2> QED
    BY <1>1, <1>2, <1>4, <1>11, <1>12, <2>1 DEF s

\* Stopping, finishing and opening leave sound what was sound.
LEMMA StoppedIsSound ==
    ASSUME NEW st, Sound(st), NEW i \in Client!SessionIds, NEW v \in PageSessions,
           Quieter(st.sess[i], v)
    PROVE  Sound(Stopped(st, i, v)) /\ Follows(st, Stopped(st, i, v))
<1> DEFINE u == [v EXCEPT !.worklet = 0]
           src == [st.source EXCEPT ![v.worklet].runs = FALSE]
           sources == IF v.worklet = 0 THEN st.source ELSE src
<1>1. /\ st.page \in Pages /\ st.source \in [Client!SourceIds -> FrameSources]
      /\ KeepsFrames(st.sess[i]) /\ st.sess[i] \in PageSessions
  BY DEF Sound, Views
<1>2. u \in PageSessions /\ u.status = st.sess[i].status
  <2>1. 0 \in 0 .. MaxSources
    BY PageAssumption
  <2> QED
    BY <2>1 DEF PageSessions, Quieter
<1>3. KeepsFrames(u)
  <2>1. /\ u.status = v.status /\ u.ready = v.ready /\ u.draining = v.draining
        /\ u.pending = v.pending /\ u.sent = v.sent /\ u.captured = v.captured
        /\ u.wasOver = v.wasOver /\ u.socket = v.socket /\ u.recording = v.recording
        /\ u.stream = v.stream /\ u.worklet = 0
    BY DEF PageSessions
  <2> HIDE DEF u
  <2> QED
    BY <1>1, <2>1 DEF KeepsFrames, Quieter
<1>4. /\ sources \in [Client!SourceIds -> FrameSources]
      /\ \A m \in Client!SourceIds :
           /\ sources[m].on \/ sources[m].runs => sources[m].of # 0
           /\ sources[m].of = st.source[m].of
  <2>1. \A m \in Client!SourceIds : [st.source[m] EXCEPT !.runs = FALSE] \in FrameSources
    BY <1>1 DEF FrameSources
  <2>2. src \in [Client!SourceIds -> FrameSources]
    BY <1>1, <2>1
  <2>3. \A m \in Client!SourceIds :
          /\ st.source[m].on \/ st.source[m].runs => st.source[m].of # 0
          /\ src[m].of = st.source[m].of
          /\ src[m].on = st.source[m].on
          /\ src[m].runs => st.source[m].runs
    BY <1>1 DEF Sound, FrameSources
  <2> HIDE DEF src
  <2> QED
    BY <1>1, <2>2, <2>3
<1>5. Stopped(st, i, v)
        = [page |-> st.page, sess |-> [st.sess EXCEPT ![i] = u], source |-> sources]
  BY DEF Stopped
<1> HIDE DEF u, sources
<1> QED
  BY <1>1, <1>2, <1>3, <1>4, <1>5, SessionChanges

\* Stopping a session, up to the await of its worklet and after it, keeps the state
\* sound.
LEMMA HaltIsSound ==
    ASSUME NEW st, Sound(st), NEW i \in Client!SessionIds
    PROVE  Sound(Client!Halt(st, i)) /\ Follows(st, Client!Halt(st, i))
<1> DEFINE v == [st.sess[i] EXCEPT !.draining = FALSE, !.recording = FALSE]
<1>1. st \in Views /\ st.sess[i] \in PageSessions
  BY DEF Sound, Views
<1>2. Quieter(st.sess[i], v)
  BY <1>1 DEF Quieter, PageSessions
<1>3. v \in PageSessions /\ Client!Halt(st, i) = Stopped(st, i, v)
  BY <1>1, HaltIs
<1> HIDE DEF v
<1> QED
  BY <1>2, <1>3, StoppedIsSound

\* So does the rest of stopSession, after the await.
LEMMA FinishIsSound ==
    ASSUME NEW st, Sound(st), NEW i \in Client!SessionIds
    PROVE  Sound(Client!Finish(st, i)) /\ Follows(st, Client!Finish(st, i))
<1> DEFINE s == st.sess[i]
           src == [st.source EXCEPT ![s.stream].on = FALSE]
           sources == IF s.stream = 0 THEN st.source ELSE src
<1>1. /\ st \in Views /\ s \in PageSessions /\ KeepsFrames(s) /\ st.page \in Pages
      /\ st.source \in [Client!SourceIds -> FrameSources]
  BY DEF Sound, Views
<1>2. PICK x \in ClientStatuses, y \in ClientStatuses, u \in PageSessions :
        /\ u = [s EXCEPT !.stream = 0, !.socket = Client!Shut(@), !.status = x,
                         !.wasOver = TRUE]
        /\ x \in {"ended", "failed"}
        /\ Client!Finish(st, i)
             = [page |-> [st.page EXCEPT !.session = 0, !.status = y],
                sess |-> [st.sess EXCEPT ![i] = u], source |-> sources]
  BY <1>1, FinishIs
<1>3. KeepsFrames(u) /\ u.status # "idle"
  <2>1. /\ u.status = x /\ u.ready = s.ready /\ u.draining = s.draining
        /\ u.sent = s.sent /\ u.wasOver = TRUE
    BY <1>1, <1>2 DEF PageSessions
  <2> QED
    BY <1>1, <1>2, <2>1 DEF KeepsFrames
<1>4. [st.page EXCEPT !.session = 0, !.status = y] \in Pages
      /\ [st.page EXCEPT !.session = 0, !.status = y].session = 0
  <2>1. 0 \in 0 .. MaxSessions
    BY PageAssumption
  <2> QED
    BY <1>1, <1>2, <2>1 DEF Pages
<1>5. /\ sources \in [Client!SourceIds -> FrameSources]
      /\ \A m \in Client!SourceIds :
           /\ sources[m].on \/ sources[m].runs => sources[m].of # 0
           /\ sources[m].of = st.source[m].of
  <2>1. \A m \in Client!SourceIds :
          /\ st.source[m].on \/ st.source[m].runs => st.source[m].of # 0
          /\ src[m].of = st.source[m].of
          /\ src[m].runs = st.source[m].runs
          /\ src[m].on => st.source[m].on
    BY <1>1 DEF Sound, FrameSources
  <2>2. src \in [Client!SourceIds -> FrameSources]
    BY <1>1, ReleaseIs
  <2> HIDE DEF src
  <2> QED
    BY <1>1, <2>1, <2>2
<1> DEFINE p == [st.page EXCEPT !.session = 0, !.status = y]
<1> HIDE DEF sources, p
<1>6. /\ Client!Finish(st, i)
           = [page |-> p, sess |-> [st.sess EXCEPT ![i] = u], source |-> sources]
      /\ p \in Pages /\ p.session = 0
  BY <1>2, <1>4 DEF p
<1> QED
  BY <1>3, <1>5, <1>6, SessionChanges

\* So does opening a session.
LEMMA OpenIsSound ==
    ASSUME NEW st, Sound(st), NEW length \in Nat,
           \E k \in Client!SessionIds : st.sess[k].status = "idle"
    PROVE  Sound(Client!Open(st, length)) /\ Follows(st, Client!Open(st, length))
<1>1. PICK i \in Client!SessionIds, u \in PageSessions :
        /\ st.sess[i].status = "idle"
        /\ u = [st.sess[i] EXCEPT !.socket = "connecting", !.file = length,
                                  !.status = "connecting"]
        /\ KeepsFrames(u)
        /\ Client!Open(st, length)
             = [page |-> [st.page EXCEPT !.session = i, !.status = "connecting"],
                sess |-> [st.sess EXCEPT ![i] = u], source |-> st.source]
  BY OpenIs
<1>2. /\ st.page \in Pages /\ st.sess[i] \in PageSessions
      /\ st.source \in [Client!SourceIds -> FrameSources]
      /\ \A m \in Client!SourceIds :
           st.source[m].on \/ st.source[m].runs => st.source[m].of # 0
  BY DEF Sound, Views
<1>3. u.status = "connecting"
  BY <1>1, <1>2 DEF PageSessions
<1>4. [st.page EXCEPT !.session = i, !.status = "connecting"] \in Pages
      /\ [st.page EXCEPT !.session = i, !.status = "connecting"].session = i
  <2>1. i \in 0 .. MaxSessions
    BY <1>1, PageAssumption DEF Client!SessionIds
  <2> QED
    BY <1>2, <2>1 DEF Pages, ClientStatuses
<1>5. u.status # "idle"
  BY <1>3
<1> DEFINE p == [st.page EXCEPT !.session = i, !.status = "connecting"]
<1>6. /\ Client!Open(st, length)
           = [page |-> p, sess |-> [st.sess EXCEPT ![i] = u], source |-> st.source]
      /\ p \in Pages /\ p.session = i
  BY <1>1, <1>4
<1> HIDE DEF p
<1>7. KeepsFrames(u)
  BY <1>1
<1> QED
  BY <1>2, <1>5, <1>6, <1>7, SessionChanges

-----------------------------------------------------------------------------
\* Stopping what the page has: first no frame comes any more, ...
LEMMA StoppedHolds ==
    ASSUME NEW st, Sound(st), HasAll(st), NEW i, i = st.page.session, i # 0,
           NEW v \in PageSessions, Quieter(st.sess[i], v), ~v.recording
    PROVE  LET t == Stopped(st, i, v)
           IN  /\ HasAll(t) /\ t.page = st.page
               /\ t.sess[i].status = st.sess[i].status
               /\ t.sess[i].file = st.sess[i].file
               /\ t.sess[i].captured = st.sess[i].captured
               /\ t.sess[i].pending = st.sess[i].pending
               /\ t.sess[i].sent = st.sess[i].sent
               /\ t.sess[i].wasOver = st.sess[i].wasOver
               /\ ~t.sess[i].recording /\ t.sess[i].worklet = 0
               /\ \A j \in Client!SessionIds : j # i => t.sess[j] = st.sess[j]
               /\ \A m \in Client!SourceIds : ~t.source[m].runs
<1> DEFINE t == Stopped(st, i, v)
           s == st.sess[i]
           u == [v EXCEPT !.worklet = 0]
           sources == IF v.worklet = 0 THEN st.source
                      ELSE [st.source EXCEPT ![v.worklet].runs = FALSE]
<1>1. /\ st.page \in Pages /\ i \in Client!SessionIds
      /\ st.sess \in [Client!SessionIds -> PageSessions] /\ s \in PageSessions
      /\ st.source \in [Client!SourceIds -> FrameSources]
  BY PageAssumption DEF Sound, Views, Pages, Client!SessionIds
<1>2. /\ u.status = s.status /\ u.file = s.file /\ u.captured = s.captured
      /\ u.pending = s.pending /\ u.sent = s.sent /\ u.wasOver = s.wasOver
      /\ ~u.recording /\ u.worklet = 0 /\ u.stream = s.stream /\ u.socket = s.socket
  BY DEF PageSessions, Quieter
<1>3. /\ t.page = st.page /\ t.source = sources /\ t.sess = [st.sess EXCEPT ![i] = u]
  BY DEF Stopped
<1> HIDE DEF t, u, sources
<1>4. t.sess[i] = u /\ \A j \in Client!SessionIds : j # i => t.sess[j] = st.sess[j]
  BY <1>1, <1>3
<1>5. \A m \in Client!SourceIds :
        /\ ~sources[m].runs
        /\ sources[m].on = st.source[m].on /\ sources[m].of = st.source[m].of
  <2> TAKE m \in Client!SourceIds
  <2>1. st.source[m].runs => m = v.worklet
    BY <1>1 DEF HasAll, Quieter
  <2>2. st.source[m] \in FrameSources /\ m # 0
    BY <1>1, PageAssumption DEF Client!SourceIds
  <2>3. CASE m = v.worklet
    <3>1. sources[m] = [st.source[m] EXCEPT !.runs = FALSE]
      BY <1>1, <2>2, <2>3 DEF sources
    <3> QED
      BY <2>2, <3>1 DEF FrameSources
  <2>4. CASE m # v.worklet
    <3>1. sources[m] = st.source[m]
      BY <1>1, <2>4 DEF sources
    <3> QED
      BY <2>1, <2>2, <2>4, <3>1 DEF FrameSources
  <2> QED
    BY <2>3, <2>4
<1>6. HasAll(t)
  <2> HIDE DEF s
  <2>1. \A m \in Client!SourceIds :
          t.source[m].on => t.page.session = t.source[m].of /\ t.sess[t.source[m].of].stream = m
    <3> SUFFICES ASSUME NEW m \in Client!SourceIds, t.source[m].on
                 PROVE  t.page.session = t.source[m].of /\ t.sess[t.source[m].of].stream = m
      OBVIOUS
    <3>1. st.page.session = st.source[m].of /\ st.sess[st.source[m].of].stream = m
      BY <1>3, <1>5 DEF HasAll
    <3> QED
      BY <1>2, <1>3, <1>4, <1>5, <3>1 DEF s
  <2> QED
    BY <1>3, <1>4, <1>5, <2>1 DEF HasAll
<1> QED
  BY <1>2, <1>3, <1>4, <1>5, <1>6 DEF t

\* Up to the await of the worklet the page still has the session it stops.
LEMMA HaltHolds ==
    ASSUME NEW st, Sound(st), HasAll(st), st.page.session # 0
    PROVE  LET i == st.page.session
               t == Client!Halt(st, i)
           IN  /\ HasAll(t) /\ t.page = st.page
               /\ t.sess[i].status = st.sess[i].status
               /\ t.sess[i].file = st.sess[i].file
               /\ t.sess[i].captured = st.sess[i].captured
               /\ ~t.sess[i].recording /\ t.sess[i].worklet = 0
               /\ \A j \in Client!SessionIds : j # i => t.sess[j] = st.sess[j]
               /\ \A m \in Client!SourceIds : ~t.source[m].runs
<1> DEFINE i == st.page.session
           v == [st.sess[i] EXCEPT !.draining = FALSE, !.recording = FALSE]
<1>1. i \in Client!SessionIds /\ st \in Views /\ st.sess[i] \in PageSessions
  <2>1. st \in Views /\ i \in Client!SessionIds
    BY PageAssumption DEF Sound, Views, Pages, Client!SessionIds
  <2> QED
    BY <2>1 DEF Views
<1>2. Quieter(st.sess[i], v) /\ ~v.recording
  <2> HIDE DEF i
  <2> QED
    BY <1>1 DEF Quieter, PageSessions
<1>3. v \in PageSessions /\ Client!Halt(st, i) = Stopped(st, i, v)
  BY <1>1, HaltIs
<1> HIDE DEF v
<1> QED
  BY <1>2, <1>3, StoppedHolds

\* ... then the page has nothing and nothing is left.
Closed(st) == st.page.session = 0 /\ ~st.page.grace /\ HasAll(st)

\* After it the page has nothing, and nothing is open.
LEMMA FinishCloses ==
    ASSUME NEW st, Sound(st), HasAll(st), ~st.page.grace, st.page.session # 0,
           st.sess[st.page.session].worklet = 0
    PROVE  LET t == Client!Finish(st, st.page.session)
           IN  Closed(t) /\ t.page.fileActive = st.page.fileActive
<1> DEFINE i == st.page.session
           s == st.sess[i]
           t == Client!Finish(st, i)
           sources == IF s.stream = 0 THEN st.source
                      ELSE [st.source EXCEPT ![s.stream].on = FALSE]
<1>1. /\ st \in Views /\ st.page \in Pages /\ i \in Client!SessionIds
      /\ st.sess \in [Client!SessionIds -> PageSessions]
      /\ s \in PageSessions /\ KeepsFrames(s)
      /\ st.source \in [Client!SourceIds -> FrameSources]
  BY PageAssumption DEF Sound, Views, Pages, Client!SessionIds
<1>2. PICK x \in ClientStatuses, y \in ClientStatuses, u \in PageSessions :
        /\ u = [s EXCEPT !.stream = 0, !.socket = Client!Shut(@), !.status = x,
                         !.wasOver = TRUE]
        /\ x \in {"ended", "failed"}
        /\ t = [page |-> [st.page EXCEPT !.session = 0, !.status = y],
                sess |-> [st.sess EXCEPT ![i] = u], source |-> sources]
  BY <1>1, FinishIs
<1>3. /\ u.status \in {"ended", "failed"} /\ u.stream = 0 /\ u.worklet = 0
      /\ u.socket \notin {"connecting", "open"}
  <2>1. Client!Shut(s.socket) \notin {"connecting", "open"}
    BY <1>1 DEF PageSessions, Client!Shut
  <2> QED
    BY <1>1, <1>2, <2>1 DEF PageSessions
<1>4. t.page.session = 0 /\ ~t.page.grace /\ t.page.fileActive = st.page.fileActive
  <2> DEFINE p == [st.page EXCEPT !.session = 0, !.status = y]
  <2>1. p.session = 0 /\ p.grace = st.page.grace /\ p.fileActive = st.page.fileActive
    BY <1>1 DEF Pages
  <2> HIDE DEF p, t, sources, s, i
  <2>2. t.page = p
    BY <1>2 DEF p
  <2> QED
    BY <2>1, <2>2
<1>5. /\ t.sess[i] = u /\ t.source = sources
      /\ \A j \in Client!SessionIds : j # i => t.sess[j] = st.sess[j]
  <2> HIDE DEF sources, t
  <2> QED
    BY <1>1, <1>2
<1>6. \A m \in Client!SourceIds : ~sources[m].on /\ ~sources[m].runs
  <2> TAKE m \in Client!SourceIds
  <2>1. st.source[m].on => m = s.stream
    BY DEF HasAll
  <2>2. st.source[m] \in FrameSources /\ m # 0
    BY <1>1, PageAssumption DEF Client!SourceIds
  <2>3. ~st.source[m].runs
    BY <2>2 DEF HasAll
  <2>4. CASE m = s.stream
    <3>1. sources[m] = [st.source[m] EXCEPT !.on = FALSE]
      BY <1>1, <2>2, <2>4
    <3> QED
      BY <2>2, <2>3, <3>1 DEF FrameSources
  <2>5. CASE m # s.stream
    <3>1. sources[m] = st.source[m]
      BY <1>1, <2>5
    <3> QED
      BY <2>1, <2>2, <2>3, <2>5, <3>1 DEF FrameSources
  <2> QED
    BY <2>4, <2>5
<1>7. HasAll(t)
  <2> HIDE DEF t, sources, s
  <2>1. ASSUME NEW j \in Client!SessionIds
        PROVE  /\ t.sess[j].status \in {"idle", "ended", "failed"}
               /\ t.sess[j].socket \notin {"connecting", "open"}
               /\ t.sess[j].stream = 0 /\ t.sess[j].worklet = 0
    <3>1. CASE j = i
      BY <1>3, <1>5, <3>1
    <3>2. CASE j # i
      BY <1>5, <3>2 DEF HasAll
    <3> QED
      BY <3>1, <3>2
  <2> QED
    BY <1>5, <1>6, <2>1 DEF HasAll
<1> QED
  BY <1>4, <1>7 DEF Closed

\* While the page has nothing, nothing is on or running.
LEMMA ClosedIsHeld ==
    ASSUME NEW st, Sound(st), Closed(st)
    PROVE  /\ \A i \in Client!SessionIds : st.sess[i].stream = 0
           /\ \A m \in Client!SourceIds : ~st.source[m].on /\ ~st.source[m].runs
           /\ ~st.page.fileActive => Held(st)
<1>1. \A i \in Client!SessionIds : i # 0
  BY PageAssumption DEF Client!SessionIds
<1>2. \A i \in Client!SessionIds : st.sess[i].stream = 0
  BY <1>1 DEF Closed, HasAll
<1>3. \A m \in Client!SourceIds : ~st.source[m].on /\ ~st.source[m].runs
  BY DEF Closed, HasAll, Sound
<1> QED
  BY <1>2, <1>3 DEF Closed, Held, ShowsStatus, KnowsFile, GraceIsEarned

\* A session that opens is the page's, and has nothing on.
LEMMA OpenHolds ==
    ASSUME NEW st, Sound(st), Closed(st), NEW length \in Nat,
           \E k \in Client!SessionIds : st.sess[k].status = "idle"
    PROVE  LET t == Client!Open(st, length)
               i == t.page.session
           IN  /\ HasAll(t) /\ ShowsStatus(t) /\ ~t.page.grace /\ t.source = st.source
               /\ t.page.fileActive = st.page.fileActive
               /\ t.page.complete = st.page.complete
               /\ i \in Client!SessionIds /\ i # 0
               /\ t.sess[i].file = length /\ t.sess[i].captured = 0
               /\ ~t.sess[i].recording
               /\ t.sess[i].status = "connecting" /\ t.sess[i].worklet = 0
               /\ \A j \in Client!SessionIds : t.sess[j].stream = 0
<1>1. PICK i \in Client!SessionIds, u \in PageSessions :
        /\ st.sess[i].status = "idle"
        /\ u = [st.sess[i] EXCEPT !.socket = "connecting", !.file = length,
                                  !.status = "connecting"]
        /\ KeepsFrames(u)
        /\ Client!Open(st, length)
             = [page |-> [st.page EXCEPT !.session = i, !.status = "connecting"],
                sess |-> [st.sess EXCEPT ![i] = u], source |-> st.source]
  BY OpenIs
<1> DEFINE t == Client!Open(st, length)
           s == st.sess[i]
           p == [st.page EXCEPT !.session = i, !.status = "connecting"]
<1>2. /\ st.page \in Pages /\ s \in PageSessions /\ KeepsFrames(s)
      /\ st.sess \in [Client!SessionIds -> PageSessions]
      /\ i # 0
  BY PageAssumption DEF Sound, Views, Client!SessionIds
<1>3. /\ u.status = "connecting" /\ u.file = length /\ u.captured = 0 /\ ~u.recording
      /\ u.stream = 0 /\ u.worklet = 0
  <2>1. s.captured = 0 /\ ~s.recording /\ s.stream = 0 /\ s.worklet = 0
    BY <1>1, <1>2 DEF KeepsFrames
  <2> QED
    BY <1>1, <1>2, <2>1 DEF PageSessions
<1>4. /\ p.session = i /\ p.status = "connecting" /\ p.grace = st.page.grace
      /\ p.fileActive = st.page.fileActive /\ p.complete = st.page.complete
  BY <1>2 DEF Pages
<1>5. t.page = p /\ t.sess = [st.sess EXCEPT ![i] = u] /\ t.source = st.source
  <2> HIDE DEF t
  <2> QED
    BY <1>1 DEF t
<1> HIDE DEF t, s, p
<1>6. /\ t.sess[i] = u
      /\ \A j \in Client!SessionIds : j # i => t.sess[j] = st.sess[j]
  BY <1>2, <1>5
<1>7. /\ \A j \in Client!SessionIds :
           j # 0 /\ /\ st.sess[j].status \in {"idle", "ended", "failed"}
                    /\ st.sess[j].socket \notin {"connecting", "open"}
                    /\ st.sess[j].stream = 0 /\ st.sess[j].worklet = 0
      /\ \A m \in Client!SourceIds : ~st.source[m].on /\ ~st.source[m].runs
  <2>1. \A j \in Client!SessionIds : j # 0
    BY PageAssumption DEF Client!SessionIds
  <2> QED
    BY <2>1, ClosedIsHeld DEF Closed, HasAll
<1>8. HasAll(t)
  BY <1>4, <1>5, <1>6, <1>7 DEF HasAll
<1>9. ShowsStatus(t)
  BY <1>3, <1>4, <1>5, <1>6 DEF ShowsStatus
<1>10. \A j \in Client!SessionIds : t.sess[j].stream = 0
  BY <1>3, <1>6, <1>7
<1>11. ~t.page.grace
  BY <1>4, <1>5 DEF Closed
<1> QED
  BY <1>2, <1>3, <1>4, <1>5, <1>6, <1>8, <1>9, <1>10, <1>11 DEF t

\* startSession.
LEMMA StartIsSound ==
    ASSUME NEW st, Sound(st), \E k \in Client!SessionIds : st.sess[k].status = "idle"
    PROVE  LET t == Client!StartSession(st)
           IN  Sound(t) /\ Follows(st, t)
<1>1. Follows(st, st)
  BY DEF Follows
<1> QED
  BY <1>1, OpenIsSound DEF Client!StartSession

\* startSession gives the page a session, or leaves things as they are.
LEMMA StartHolds ==
    ASSUME NEW st, Sound(st), Closed(st), ~st.page.fileActive,
           \E k \in Client!SessionIds : st.sess[k].status = "idle"
    PROVE  LET t == Client!StartSession(st)
           IN  /\ Held(t) /\ ~t.page.fileActive
               /\ \A j \in Client!SessionIds : t.sess[j].stream = 0
<1>1. CASE Client!StartSession(st) = st
  BY <1>1, ClosedIsHeld
<1>2. CASE Client!StartSession(st) = Client!Open(st, 0)
  <2> DEFINE t == Client!Open(st, 0)
             i == t.page.session
  <2>1. /\ HasAll(t) /\ ShowsStatus(t) /\ ~t.page.grace /\ t.source = st.source
        /\ t.page.fileActive = st.page.fileActive
        /\ t.sess[i].file = 0
        /\ \A j \in Client!SessionIds : t.sess[j].stream = 0
    BY OpenHolds
  <2> HIDE DEF t
  <2>2. KnowsFile(t)
    BY <2>1, ClosedIsHeld DEF KnowsFile
  <2>3. Held(t)
    BY <2>1, <2>2 DEF Held, GraceIsEarned
  <2> QED
    BY <1>2, <2>1, <2>3 DEF t
<1> QED
  BY <1>1, <1>2 DEF Client!StartSession

-----------------------------------------------------------------------------
\* A handler runs up to its next await, k, or to its end.
LEMMA CallMoves ==
    ASSUME ClientInv, NEW c \in Client!Calls, NEW t, Sound(t), Follows(Client!state, t),
           Client!Become(t), NEW k \in PageCalls, call' = [call EXCEPT ![c] = k],
           CallIsSound(t, k), overlapped' \in BOOLEAN,
           ~overlapped' =>
             Alone(c) /\ Held(t) /\ CallIsHeld(t, k) /\ LightsAreShort(t, k)
    PROVE  ClientInv'
<1>1. /\ call \in [Client!Calls -> PageCalls] /\ call' \in [Client!Calls -> PageCalls]
      /\ call'[c] = k
      /\ \A d \in Client!Calls : d # c => call'[d] = call[d]
  BY DEF ClientInv
<1>2. Client!state' = t
  <2>1. t = [page |-> t.page, sess |-> t.sess, source |-> t.source]
    BY DEF Sound, Views
  <2>2. page' = t.page /\ sess' = t.sess /\ source' = t.source
    BY DEF Client!Become
  <2>3. Client!state' = [page |-> page', sess |-> sess', source |-> source']
    BY DEF Client!state
  <2> QED
    BY <2>1, <2>2, <2>3
<1>3. ASSUME NEW d \in Client!Calls
      PROVE  CallIsSound(t, call'[d])
  <2>1. CASE d = c
    BY <1>1, <2>1
  <2>2. CASE d # c
    <3>1. CallIsSound(Client!state, call[d]) /\ call[d] \in PageCalls
      BY <1>1 DEF ClientInv
    <3>2. /\ call[d].sid # 0 => call[d].sid \in Client!SessionIds
          /\ call[d].src # 0 => call[d].src \in Client!SourceIds
      BY <3>1, PageAssumption DEF PageCalls, Client!SessionIds, Client!SourceIds
    <3>3. CallIsSound(t, call[d])
      BY <3>1, <3>2 DEF CallIsSound, Follows
    <3> QED
      BY <1>1, <2>2, <3>3
  <2> QED
    BY <2>1, <2>2
<1>4. ASSUME ~overlapped'
      PROVE  /\ Held(t)
             /\ \A d, e \in Client!Calls :
                  call'[d].at # "idle" /\ call'[e].at # "idle" => d = e
             /\ \A d \in Client!Calls : CallIsHeld(t, call'[d])
             /\ \A i \in Client!SessionIds :
                  t.sess[i].stream # 0 =>
                    \/ t.sess[i].recording
                    \/ \E d \in Client!Calls :
                         call'[d].at \in {"worklet", "pausing", "stopping"}
  <2>1. \A d \in Client!Calls : d # c => call'[d].at = "idle"
    BY <1>1, <1>4 DEF Alone
  <2>2. ASSUME NEW d \in Client!Calls PROVE CallIsHeld(t, call'[d])
    <3>1. CASE d = c
      BY <1>1, <1>4, <3>1
    <3>2. CASE d # c
      BY <2>1, <3>2 DEF CallIsHeld
    <3> QED
      BY <3>1, <3>2
  <2> QED
    BY <1>1, <1>4, <2>1, <2>2 DEF LightsAreShort
<1>5. /\ page' = t.page /\ sess' = t.sess
  BY DEF Client!Become
<1>6. /\ Sound(Client!state')
      /\ call' \in [Client!Calls -> PageCalls] /\ overlapped' \in BOOLEAN
      /\ \A d \in Client!Calls : CallIsSound(Client!state', call'[d])
      /\ ~overlapped' =>
           /\ Held(Client!state')
           /\ \A d, e \in Client!Calls :
                call'[d].at # "idle" /\ call'[e].at # "idle" => d = e
           /\ \A d \in Client!Calls : CallIsHeld(Client!state', call'[d])
           /\ \A i \in Client!SessionIds :
                sess'[i].stream # 0 =>
                  \/ sess'[i].recording
                  \/ \E d \in Client!Calls :
                       call'[d].at \in {"worklet", "pausing", "stopping"}
  BY <1>1, <1>2, <1>3, <1>4, <1>5
<1> QED
  BY <1>6 DEF ClientInv

\* The handler of an event leaves the calls alone.
LEMMA EventKeeps ==
    ASSUME ClientInv, NEW t, Sound(t), Follows(Client!state, t),
           Client!Become(t), UNCHANGED <<call, overlapped>>,
           ~overlapped =>
             /\ Held(t) /\ t.page.session = page.session
             /\ t.page.complete => page.complete \/ page.session # 0
             /\ \A i \in Client!SessionIds :
                  /\ t.sess[i].stream = sess[i].stream
                  /\ t.sess[i].recording = sess[i].recording
                  /\ t.sess[i].file = sess[i].file
    PROVE  ClientInv'
<1>1. Client!state' = t /\ sess' = t.sess
  <2>1. t = [page |-> t.page, sess |-> t.sess, source |-> t.source]
    BY DEF Sound, Views
  <2>2. page' = t.page /\ sess' = t.sess /\ source' = t.source
    BY DEF Client!Become
  <2>3. Client!state' = [page |-> page', sess |-> sess', source |-> source']
    BY DEF Client!state
  <2> QED
    BY <2>1, <2>2, <2>3
<1>2. Client!state.page = page /\ Client!state.sess = sess
  BY DEF Client!state
<1>3. ASSUME NEW d \in Client!Calls
      PROVE  /\ CallIsSound(t, call[d])
             /\ ~overlapped => CallIsHeld(t, call[d])
  <2>1. /\ CallIsSound(Client!state, call[d]) /\ call[d] \in PageCalls
        /\ ~overlapped => CallIsHeld(Client!state, call[d])
    BY DEF ClientInv
  <2>2. /\ call[d].sid # 0 => call[d].sid \in Client!SessionIds
        /\ call[d].src # 0 => call[d].src \in Client!SourceIds
    BY <2>1, PageAssumption DEF PageCalls, Client!SessionIds, Client!SourceIds
  <2>3. CallIsSound(t, call[d])
    BY <2>1, <2>2 DEF CallIsSound, Follows
  <2>4. call[d].at \in {"mic", "worklet", "pausing", "stopping"} =>
          call[d].sid \in Client!SessionIds
    BY <2>1, <2>2 DEF CallIsSound
  <2>5. ASSUME ~overlapped PROVE CallIsHeld(t, call[d])
    BY <1>2, <2>1, <2>4, <2>5 DEF CallIsHeld
  <2> QED
    BY <2>3, <2>5
<1>4. ASSUME ~overlapped, NEW i \in Client!SessionIds, t.sess[i].stream # 0
      PROVE  \/ t.sess[i].recording
             \/ \E d \in Client!Calls : call[d].at \in {"worklet", "pausing", "stopping"}
  BY <1>4 DEF ClientInv
<1>5. /\ Sound(Client!state')
      /\ call' \in [Client!Calls -> PageCalls] /\ overlapped' \in BOOLEAN
      /\ \A d \in Client!Calls : CallIsSound(Client!state', call'[d])
      /\ ~overlapped' =>
           /\ Held(Client!state')
           /\ \A d, e \in Client!Calls :
                call'[d].at # "idle" /\ call'[e].at # "idle" => d = e
           /\ \A d \in Client!Calls : CallIsHeld(Client!state', call'[d])
           /\ \A i \in Client!SessionIds :
                sess'[i].stream # 0 =>
                  \/ sess'[i].recording
                  \/ \E d \in Client!Calls :
                       call'[d].at \in {"worklet", "pausing", "stopping"}
  BY <1>1, <1>3, <1>4 DEF ClientInv
<1> QED
  BY <1>5 DEF ClientInv

\* Whether a session is being started or records is nothing Held looks at.
LEMMA HeldIsKept ==
    ASSUME NEW st, Sound(st), Held(st), NEW t, t.page = st.page, t.source = st.source,
           \A j \in Client!SessionIds :
              /\ t.sess[j].status = st.sess[j].status /\ t.sess[j].socket = st.sess[j].socket
              /\ t.sess[j].stream = st.sess[j].stream /\ t.sess[j].worklet = st.sess[j].worklet
              /\ t.sess[j].file = st.sess[j].file /\ t.sess[j].captured = st.sess[j].captured
              /\ t.sess[j].pending = st.sess[j].pending /\ t.sess[j].sent = st.sess[j].sent
              /\ t.sess[j].wasOver = st.sess[j].wasOver
    PROVE  Held(t)
<1>1. /\ st.page.session # 0 => st.page.session \in Client!SessionIds
      /\ \A m \in Client!SourceIds :
           st.source[m].on \/ st.source[m].runs => st.source[m].of \in Client!SessionIds
  BY PageAssumption DEF Sound, Views, Pages, FrameSources, Client!SessionIds
<1>2. HasAll(t)
  BY <1>1 DEF Held, HasAll
<1>3. ShowsStatus(t)
  BY <1>1 DEF Held, ShowsStatus
<1>4. KnowsFile(t)
  BY <1>1 DEF Held, KnowsFile
<1>5. GraceIsEarned(t)
  BY <1>1 DEF Held, KnowsFile, GraceIsEarned
<1> QED
  BY <1>2, <1>3, <1>4, <1>5 DEF Held

\* A handler ends.
LEMMA FreeMoves ==
    ASSUME ClientInv, NEW c \in Client!Calls, NEW t, Sound(t), Follows(Client!state, t),
           Client!Become(t), Client!Free(c), overlapped' \in BOOLEAN,
           ~overlapped' =>
             /\ Alone(c) /\ Held(t)
             /\ \A i \in Client!SessionIds : t.sess[i].stream # 0 => t.sess[i].recording
    PROVE  ClientInv'
<1> DEFINE k == [at |-> "idle", sid |-> 0, src |-> 0, next |-> "nothing"]
<1>1. call' = [call EXCEPT ![c] = k]
  BY DEF Client!Free, Client!NoCall
<1>2. k \in PageCalls /\ k.at = "idle"
  <2>1. 0 \in 0 .. MaxSessions /\ 0 \in 0 .. MaxSources
    BY PageAssumption
  <2> QED
    BY <2>1 DEF PageCalls
<1> HIDE DEF k
<1>3. CallIsSound(t, k) /\ CallIsHeld(t, k)
  BY <1>2 DEF CallIsSound, CallIsHeld
<1>4. ~overlapped' => LightsAreShort(t, k)
  BY DEF LightsAreShort
<1> QED
  BY <1>1, <1>2, <1>3, <1>4, CallMoves

\* startRecording begins, or does not come to its end.
Alike(s, u) ==
    /\ u.status = s.status /\ u.socket = s.socket /\ u.ready = s.ready
    /\ u.draining = s.draining /\ u.pending = s.pending /\ u.sent = s.sent
    /\ u.captured = s.captured /\ u.recording = s.recording /\ u.stream = s.stream
    /\ u.worklet = s.worklet /\ u.file = s.file /\ u.wasOver = s.wasOver

\* The flag of startRecording is nothing the invariant speaks of.
LEMMA StartingChanges ==
    ASSUME NEW st, Sound(st), NEW i \in Client!SessionIds,
           NEW u \in PageSessions, Alike(st.sess[i], u)
    PROVE  LET t == [page |-> st.page, sess |-> [st.sess EXCEPT ![i] = u],
                     source |-> st.source]
           IN  /\ Sound(t) /\ Follows(st, t) /\ (Held(st) => Held(t))
               /\ \A j \in Client!SessionIds :
                    /\ t.sess[j].status = st.sess[j].status
                    /\ t.sess[j].stream = st.sess[j].stream
                    /\ t.sess[j].recording = st.sess[j].recording
                    /\ t.sess[j].file = st.sess[j].file
<1> DEFINE s == st.sess[i]
           t == [page |-> st.page, sess |-> [st.sess EXCEPT ![i] = u],
                 source |-> st.source]
<1>1. /\ st.page \in Pages /\ KeepsFrames(s)
      /\ st.sess \in [Client!SessionIds -> PageSessions]
      /\ st.source \in [Client!SourceIds -> FrameSources]
      /\ \A m \in Client!SourceIds :
           st.source[m].on \/ st.source[m].runs => st.source[m].of # 0
  BY DEF Sound, Views
<1>2. KeepsFrames(u) /\ u.status = s.status
  BY <1>1 DEF KeepsFrames, Alike
<1>3. Sound(t) /\ Follows(st, t)
  BY <1>1, <1>2, SessionChanges
<1>4. t.page = st.page /\ t.source = st.source /\ t.sess = [st.sess EXCEPT ![i] = u]
  OBVIOUS
<1> HIDE DEF t
<1>5. /\ t.page = st.page /\ t.source = st.source /\ t.sess[i] = u
      /\ \A j \in Client!SessionIds : j # i => t.sess[j] = st.sess[j]
  BY <1>1, <1>4
<1>6. \A j \in Client!SessionIds :
         /\ t.sess[j].status = st.sess[j].status /\ t.sess[j].socket = st.sess[j].socket
         /\ t.sess[j].stream = st.sess[j].stream /\ t.sess[j].worklet = st.sess[j].worklet
         /\ t.sess[j].file = st.sess[j].file /\ t.sess[j].captured = st.sess[j].captured
         /\ t.sess[j].pending = st.sess[j].pending /\ t.sess[j].sent = st.sess[j].sent
         /\ t.sess[j].wasOver = st.sess[j].wasOver
         /\ t.sess[j].recording = st.sess[j].recording
  BY <1>5 DEF Alike
<1>7. ASSUME Held(st) PROVE Held(t)
  BY <1>5, <1>6, <1>7, HeldIsKept
<1> QED
  BY <1>3, <1>6, <1>7 DEF t

\* startRecording of what the page has.
LEMMA RecordMoves ==
    ASSUME ClientInv, NEW c \in Client!Calls, NEW st, Sound(st),
           Follows(Client!state, st), Client!Record(c, st, st.page.session),
           overlapped' \in BOOLEAN,
           ~overlapped' =>
             /\ Alone(c) /\ Held(st) /\ ~st.page.fileActive
             /\ \A j \in Client!SessionIds : st.sess[j].stream # 0 => st.sess[j].recording
    PROVE  ClientInv'
<1> DEFINE i == st.page.session
           t == [st EXCEPT !.sess[i].starting = TRUE]
           x == [st.sess EXCEPT ![i].starting = TRUE]
           u == [st.sess[i] EXCEPT !.starting = TRUE]
           k == [at |-> "mic", sid |-> i, src |-> 0, next |-> "nothing"]
<1>1. CASE Client!Become(st) /\ Client!Free(c)
  BY <1>1, FreeMoves
<1>2. CASE /\ i # 0 /\ ~st.sess[i].recording
           /\ Client!Become(t) /\ Client!Await(c, "mic", i, 0, "nothing")
  <2>1. i \in Client!SessionIds /\ i \in 0 .. MaxSessions
    BY <1>2, PageAssumption DEF Sound, Views, Pages, Client!SessionIds
  <2>2. st.sess[i].status # "idle"
    BY <1>2 DEF Sound
  <2> HIDE DEF i
  <2>3. u \in PageSessions /\ Alike(st.sess[i], u)
    <3>1. st.sess[i] \in PageSessions
      BY <2>1 DEF Sound, Views
    <3> QED
      BY <3>1 DEF PageSessions, Alike
  <2>4. t = [page |-> st.page, sess |-> [st.sess EXCEPT ![i] = u], source |-> st.source]
    <3>1. t = [st EXCEPT !.sess = x]
      OBVIOUS
    <3>2. x = [st.sess EXCEPT ![i] = u]
      OBVIOUS
    <3>3. st = [page |-> st.page, sess |-> st.sess, source |-> st.source]
      BY DEF Sound, Views
    <3> HIDE DEF t, x, u
    <3> QED
      BY <3>1, <3>2, <3>3
  <2> HIDE DEF t, u
  <2>5. /\ Sound(t) /\ Follows(st, t) /\ (Held(st) => Held(t))
        /\ t.page = st.page
        /\ \A j \in Client!SessionIds :
             /\ t.sess[j].status = st.sess[j].status
             /\ t.sess[j].stream = st.sess[j].stream
             /\ t.sess[j].recording = st.sess[j].recording
             /\ t.sess[j].file = st.sess[j].file
    BY <2>1, <2>3, <2>4, StartingChanges
  <2>6. Follows(Client!state, t)
    BY <2>5, FollowsOn
  <2>7. k \in PageCalls /\ call' = [call EXCEPT ![c] = k]
        /\ k.at = "mic" /\ k.sid = i /\ k.next = "nothing"
    <3>1. 0 \in 0 .. MaxSources
      BY PageAssumption
    <3> QED
      BY <1>2, <2>1, <3>1 DEF PageCalls, Client!Await
  <2> HIDE DEF k
  <2>8. CallIsSound(t, k)
    BY <1>2, <2>1, <2>2, <2>5, <2>7 DEF CallIsSound
  <2>9. ASSUME ~overlapped'
        PROVE  Held(t) /\ CallIsHeld(t, k) /\ LightsAreShort(t, k)
    <3>1. st.sess[i].stream = 0
      BY <1>2, <2>1, <2>9
    <3>2. st.sess[i].file = 0
      BY <1>2, <2>9 DEF i, Held, KnowsFile
    <3>3. CallIsHeld(t, k)
      BY <1>2, <2>1, <2>5, <2>7, <3>1, <3>2 DEF CallIsHeld, i
    <3>4. LightsAreShort(t, k)
      BY <2>5, <2>9 DEF LightsAreShort
    <3> QED
      BY <2>5, <2>9, <3>3, <3>4
  <2> QED
    BY <1>2, <2>5, <2>6, <2>7, <2>8, <2>9, CallMoves
<1> QED
  BY <1>1, <1>2 DEF Client!Record

\* The page alone changes.
LEMMA PageChanges ==
    ASSUME NEW st, Sound(st), NEW p \in Pages, p.session = st.page.session
    PROVE  LET t == [page |-> p, sess |-> st.sess, source |-> st.source]
           IN  Sound(t) /\ Follows(st, t)
<1> DEFINE t == [page |-> p, sess |-> st.sess, source |-> st.source]
<1>1. t \in Views
  BY DEF Sound, Views
<1>2. t.page = p /\ t.sess = st.sess /\ t.source = st.source
  OBVIOUS
<1> HIDE DEF t
<1>3. Sound(t)
  BY <1>1, <1>2 DEF Sound
<1>4. Follows(st, t)
  BY <1>2 DEF Follows
<1> QED
  BY <1>3, <1>4 DEF t

\* The sessions after stop() up to its await.
LEMMA HaltedSessions ==
    ASSUME NEW st, st \in Views, NEW i \in Client!SessionIds
    PROVE  LET t == Client!Halt(st, i)
           IN  /\ t.sess[i].status = st.sess[i].status
               /\ \A j \in Client!SessionIds : j # i => t.sess[j] = st.sess[j]
<1> DEFINE v == [st.sess[i] EXCEPT !.draining = FALSE, !.recording = FALSE]
           u == [v EXCEPT !.worklet = 0]
           t == Client!Halt(st, i)
<1>1. t = Stopped(st, i, v)
  BY HaltIs
<1>2. /\ u.status = st.sess[i].status
      /\ st.sess \in [Client!SessionIds -> PageSessions]
  BY DEF Views, PageSessions
<1>3. t.sess = [st.sess EXCEPT ![i] = u]
  <2> HIDE DEF t, v
  <2> QED
    BY <1>1 DEF Stopped
<1> HIDE DEF u, t
<1> QED
  BY <1>2, <1>3 DEF t

\* Stopping one session leaves the others alone.
LEMMA OthersStay ==
    ASSUME NEW st, Sound(st), NEW i \in Client!SessionIds,
           NEW j \in Client!SessionIds, j # i
    PROVE  /\ Client!Halt(st, i).sess[j] = st.sess[j]
           /\ Client!Finish(st, i).sess[j] = st.sess[j]
<1>1. /\ st \in Views /\ st.sess[i] \in PageSessions /\ KeepsFrames(st.sess[i])
      /\ st.sess \in [Client!SessionIds -> PageSessions]
  BY DEF Sound, Views
<1>2. Client!Halt(st, i).sess[j] = st.sess[j]
  BY <1>1, HaltedSessions
<1>3. Client!Finish(st, i).sess[j] = st.sess[j]
  <2> DEFINE src == IF st.sess[i].stream = 0 THEN st.source
                    ELSE [st.source EXCEPT ![st.sess[i].stream].on = FALSE]
  <2>1. PICK x \in ClientStatuses, y \in ClientStatuses, u \in PageSessions :
          /\ u = [st.sess[i] EXCEPT !.stream = 0, !.socket = Client!Shut(@),
                                    !.status = x, !.wasOver = TRUE]
          /\ x \in {"ended", "failed"}
          /\ Client!Finish(st, i)
               = [page |-> [st.page EXCEPT !.session = 0, !.status = y],
                  sess |-> [st.sess EXCEPT ![i] = u], source |-> src]
    BY <1>1, FinishIs
  <2> HIDE DEF src
  <2>2. Client!Finish(st, i).sess = [st.sess EXCEPT ![i] = u]
    BY <2>1
  <2> QED
    BY <1>1, <2>2
<1> QED
  BY <1>2, <1>3

\* What a handler does after stopSession.
LEMMA ContinueMoves ==
    ASSUME ClientInv, NEW c \in Client!Calls, NEW st, Sound(st),
           Follows(Client!state, st), NEW next, Client!Continue(c, st, next),
           overlapped' \in BOOLEAN,
           next \in {"start", "record"} =>
             \E k \in Client!SessionIds : st.sess[k].status = "idle",
           ~overlapped' =>
             Alone(c) /\ Closed(st) /\ (next # "endfile" => ~st.page.fileActive)
    PROVE  ClientInv'
<1>1. CASE next = "nothing" /\ Client!Become(st) /\ Client!Free(c)
  BY <1>1, ClosedIsHeld, FreeMoves
<1> DEFINE new == Client!StartSession(st)
<1>2. ASSUME next \in {"start", "record"}
      PROVE  /\ Sound(new) /\ Follows(Client!state, new)
             /\ ~overlapped' =>
                  /\ Held(new) /\ ~new.page.fileActive
                  /\ \A j \in Client!SessionIds : new.sess[j].stream = 0
  <2>1. Sound(new) /\ Follows(st, new)
    BY <1>2, StartIsSound
  <2>2. Follows(Client!state, new)
    BY <2>1, FollowsOn
  <2>3. ASSUME ~overlapped'
        PROVE  /\ Held(new) /\ ~new.page.fileActive
               /\ \A j \in Client!SessionIds : new.sess[j].stream = 0
    BY <1>2, <2>3, StartHolds
  <2> QED
    BY <2>1, <2>2, <2>3
<1>3. CASE next = "start" /\ Client!Become(new) /\ Client!Free(c)
  <2> HIDE DEF new
  <2> QED
    BY <1>2, <1>3, FreeMoves
<1>4. CASE next = "record" /\ Client!Record(c, new, new.page.session)
  <2> HIDE DEF new
  <2> QED
    BY <1>2, <1>4, RecordMoves
<1> DEFINE t == [st EXCEPT !.page.fileActive = FALSE]
           p == [st.page EXCEPT !.fileActive = FALSE]
<1>5. CASE next = "endfile" /\ Client!Become(t) /\ Client!Free(c)
  <2>1. /\ st = [page |-> st.page, sess |-> st.sess, source |-> st.source]
        /\ st.page \in Pages
    BY DEF Sound, Views
  <2>2. /\ p \in Pages /\ p.session = st.page.session /\ p.grace = st.page.grace
        /\ ~p.fileActive
    BY <2>1 DEF Pages
  <2>3. t = [page |-> p, sess |-> st.sess, source |-> st.source]
    <3>1. t = [st EXCEPT !.page = p]
      OBVIOUS
    <3> HIDE DEF t, p
    <3> QED
      BY <2>1, <3>1
  <2> HIDE DEF t, p
  <2>4. Sound(t) /\ Follows(st, t)
    BY <2>2, <2>3, PageChanges
  <2>5. Follows(Client!state, t)
    BY <2>4, FollowsOn
  <2>6. ~overlapped' => Closed(t) /\ ~t.page.fileActive
    BY <2>2, <2>3 DEF Closed, HasAll
  <2> QED
    BY <1>5, <2>4, <2>5, <2>6, ClosedIsHeld, FreeMoves
<1> QED
  BY <1>1, <1>3, <1>4, <1>5 DEF Client!Continue

\* stopSession of what the page has.
LEMMA StopMoves ==
    ASSUME ClientInv, NEW c \in Client!Calls, NEW st, Sound(st),
           Follows(Client!state, st), NEW next \in {"nothing", "start", "record", "endfile"},
           Client!StopSession(c, st, next), overlapped' \in BOOLEAN,
           next \in {"start", "record"} =>
             \E k \in Client!SessionIds : st.sess[k].status = "idle",
           ~overlapped' =>
             /\ Alone(c) /\ HasAll(st) /\ ShowsStatus(st) /\ KnowsFile(st)
             /\ ~st.page.grace /\ (next = "endfile" <=> st.page.fileActive)
             /\ \A j \in Client!SessionIds : st.sess[j].stream # 0 => st.sess[j].recording
    PROVE  ClientInv'
<1> DEFINE i == st.page.session
           halted == Client!Halt(st, i)
           t == Client!Finish(halted, i)
<1>1. CASE i = 0 /\ Client!Continue(c, st, next)
  <2>1. ~overlapped' => Closed(st)
    BY <1>1 DEF Closed
  <2> QED
    BY <1>1, <2>1, ContinueMoves
<1>2. i # 0 => i \in Client!SessionIds
  BY PageAssumption DEF Sound, Views, Pages, Client!SessionIds
<1> HIDE DEF i
<1>3. ASSUME i # 0
      PROVE  /\ Sound(halted) /\ Follows(Client!state, halted)
             /\ halted.sess[i].status = st.sess[i].status
             /\ st.sess[i].status # "idle"
             /\ ~overlapped' =>
                  /\ HasAll(halted) /\ halted.page = st.page
                  /\ halted.sess[i].file = st.sess[i].file
                  /\ halted.sess[i].captured = st.sess[i].captured
                  /\ ~halted.sess[i].recording /\ halted.sess[i].worklet = 0
                  /\ \A m \in Client!SourceIds : ~halted.source[m].runs
  <2>1. Sound(halted) /\ Follows(st, halted)
    BY <1>2, <1>3, HaltIsSound
  <2>2. Follows(Client!state, halted)
    BY <2>1, FollowsOn
  <2>3. st.sess[i].status # "idle"
    BY <1>3 DEF Sound, i
  <2>4. halted.sess[i].status = st.sess[i].status
    BY <1>2, <1>3, HaltedSessions DEF Sound
  <2>5. ASSUME ~overlapped'
        PROVE  /\ HasAll(halted) /\ halted.page = st.page
               /\ halted.sess[i].file = st.sess[i].file
               /\ halted.sess[i].captured = st.sess[i].captured
               /\ ~halted.sess[i].recording /\ halted.sess[i].worklet = 0
               /\ \A m \in Client!SourceIds : ~halted.source[m].runs
    BY <1>3, <2>5, HaltHolds DEF i
  <2> QED
    BY <2>1, <2>2, <2>3, <2>4, <2>5
<1>4. CASE /\ i # 0 /\ st.sess[i].worklet # 0 /\ st.sess[i].file = 0
           /\ Client!Become(halted) /\ Client!Await(c, "stopping", i, 0, next)
  <2> DEFINE k == [at |-> "stopping", sid |-> i, src |-> 0, next |-> next]
  <2> HIDE DEF halted
  <2>1. /\ k \in PageCalls /\ call' = [call EXCEPT ![c] = k]
        /\ k.at = "stopping" /\ k.sid = i /\ k.next = next
    <3>1. 0 \in 0 .. MaxSources /\ i \in 0 .. MaxSessions
      BY <1>2, <1>4, PageAssumption DEF Client!SessionIds
    <3> QED
      BY <1>4, <3>1 DEF PageCalls, Client!Await
  <2> HIDE DEF k
  <2>2. CallIsSound(halted, k)
    BY <1>3, <1>4, <2>1 DEF CallIsSound
  <2>3. ASSUME ~overlapped'
        PROVE  Held(halted) /\ CallIsHeld(halted, k) /\ LightsAreShort(halted, k)
    <3>1. ~st.page.fileActive /\ next # "endfile"
      BY <1>4, <2>3 DEF KnowsFile, i
    <3>2. ShowsStatus(halted)
      BY <1>3, <1>4, <2>3 DEF ShowsStatus, i
    <3>3. KnowsFile(halted)
      BY <1>3, <1>4, <2>3, <3>1 DEF KnowsFile, i
    <3>4. Held(halted)
      BY <1>3, <1>4, <2>3, <3>2, <3>3 DEF Held, GraceIsEarned
    <3>5. CallIsHeld(halted, k)
      BY <1>3, <1>4, <2>1, <2>3, <3>1 DEF CallIsHeld, i
    <3>6. LightsAreShort(halted, k)
      BY <2>1 DEF LightsAreShort
    <3> QED
      BY <3>4, <3>5, <3>6
  <2> QED
    BY <1>3, <1>4, <2>1, <2>2, <2>3, CallMoves
<1>5. CASE i # 0 /\ Client!Continue(c, t, next)
  <2>1. Sound(t) /\ Follows(halted, t)
    <3> HIDE DEF halted
    <3> QED
      BY <1>2, <1>3, <1>5, FinishIsSound
  <2>2. Follows(Client!state, t)
    <3> HIDE DEF halted, t
    <3> QED
      BY <1>3, <1>5, <2>1, FollowsOn
  <2>3. ~overlapped' => Closed(t) /\ t.page.fileActive = st.page.fileActive
    <3> HIDE DEF halted
    <3> SUFFICES ASSUME ~overlapped'
                 PROVE  Closed(t) /\ t.page.fileActive = st.page.fileActive
      OBVIOUS
    <3>1. /\ Sound(halted) /\ HasAll(halted) /\ ~halted.page.grace
          /\ halted.page.session = i /\ i # 0 /\ halted.sess[i].worklet = 0
      BY <1>3, <1>5 DEF i
    <3>2. t = Client!Finish(halted, halted.page.session)
      BY <3>1
    <3>3. halted.page.fileActive = st.page.fileActive
      BY <1>3, <1>5
    <3> HIDE DEF t
    <3> QED
      BY <3>1, <3>2, <3>3, FinishCloses
  <2>4. next \in {"start", "record"} =>
          \E k \in Client!SessionIds : t.sess[k].status = "idle"
    <3> SUFFICES ASSUME next \in {"start", "record"}
                 PROVE  \E k \in Client!SessionIds : t.sess[k].status = "idle"
      OBVIOUS
    <3>1. PICK k \in Client!SessionIds : st.sess[k].status = "idle"
      OBVIOUS
    <3>2. k # i
      BY <1>3, <1>5, <3>1
    <3>3. halted.sess[k] = st.sess[k]
      BY <1>2, <1>5, <3>2, OthersStay
    <3>4. t.sess[k] = halted.sess[k]
      <4> HIDE DEF halted
      <4> QED
        BY <1>2, <1>3, <1>5, <3>2, OthersStay
    <3> QED
      BY <3>1, <3>3, <3>4
  <2> HIDE DEF t
  <2> QED
    BY <1>5, <2>1, <2>2, <2>3, <2>4, ContinueMoves
<1> QED
  BY <1>1, <1>4, <1>5 DEF Client!StopSession, i

-----------------------------------------------------------------------------
(* The user, and the end of the grace period.                              *)

\* What the invariant says of the state, without its history.
LEMMA StateIsSound ==
    ASSUME ClientInv
    PROVE  /\ Sound(Client!state) /\ Follows(Client!state, Client!state)
           /\ Client!state.page = page /\ Client!state.sess = sess
           /\ Client!state.source = source
           /\ page \in Pages /\ sess \in [Client!SessionIds -> PageSessions]
           /\ source \in [Client!SourceIds -> FrameSources]
           /\ call \in [Client!Calls -> PageCalls] /\ overlapped \in BOOLEAN
<1>1. Client!state.page = page /\ Client!state.sess = sess /\ Client!state.source = source
  BY DEF Client!state
<1>2. Follows(Client!state, Client!state)
  BY DEF Follows
<1> QED
  BY <1>1, <1>2 DEF ClientInv, Sound, Views

\* Unless it overlaps, a handler begins when nothing is awaited.
LEMMA BeginsAlone ==
    ASSUME ClientInv, NEW c \in Client!Calls, Client!Begin(c)
    PROVE  /\ overlapped' \in BOOLEAN
           /\ ~overlapped' =>
                /\ Alone(c) /\ Held(Client!state)
                /\ \A j \in Client!SessionIds : sess[j].stream # 0 => sess[j].recording
<1>1. overlapped \in BOOLEAN
  BY DEF ClientInv
<1>2. overlapped' = (overlapped \/ Client!Busy)
  BY DEF Client!Begin
<1>3. ~Client!Busy => \A d \in Client!Calls : call[d].at = "idle"
  BY DEF Client!Busy
<1>4. overlapped' \in BOOLEAN
  BY <1>1, <1>2 DEF Client!Busy
<1>5. ASSUME ~overlapped'
      PROVE  /\ Alone(c) /\ Held(Client!state)
             /\ \A j \in Client!SessionIds : sess[j].stream # 0 => sess[j].recording
  <2>1. ~overlapped /\ \A d \in Client!Calls : call[d].at = "idle"
    BY <1>2, <1>3, <1>5
  <2> QED
    BY <2>1 DEF ClientInv, Alone
<1> QED
  BY <1>4, <1>5

\* endFileSession begins by clearing the timer.
LEMMA NoGraceIsSound ==
    ASSUME ClientInv
    PROVE  LET st == [Client!state EXCEPT !.page.grace = FALSE]
           IN  /\ Sound(st) /\ Follows(Client!state, st)
               /\ ~st.page.grace /\ st.page.fileActive = page.fileActive
               /\ st.sess = sess
               /\ Held(Client!state) => HasAll(st) /\ ShowsStatus(st) /\ KnowsFile(st)
<1> DEFINE st == [Client!state EXCEPT !.page.grace = FALSE]
           p == [page EXCEPT !.grace = FALSE]
<1>1. /\ p \in Pages /\ ~p.grace /\ p.session = page.session
      /\ p.status = page.status /\ p.fileActive = page.fileActive
      /\ p.complete = page.complete
  BY StateIsSound DEF Pages
<1>2. st = [page |-> p, sess |-> sess, source |-> source]
  <2>1. st = [Client!state EXCEPT !.page = [Client!state.page EXCEPT !.grace = FALSE]]
    OBVIOUS
  <2>2. [Client!state.page EXCEPT !.grace = FALSE] = p
    BY StateIsSound
  <2> HIDE DEF st, p
  <2>3. Client!state = [page |-> page, sess |-> sess, source |-> source]
    BY DEF Client!state
  <2> QED
    BY <2>1, <2>2, <2>3
<1> HIDE DEF st, p
<1>3. Sound(st) /\ Follows(Client!state, st)
  BY <1>1, <1>2, StateIsSound, PageChanges
<1>4. st.page = p /\ st.sess = sess /\ st.source = source
  BY <1>2
<1>5. ASSUME Held(Client!state) PROVE HasAll(st) /\ ShowsStatus(st) /\ KnowsFile(st)
  BY <1>1, <1>4, <1>5, StateIsSound DEF Held, HasAll, ShowsStatus, KnowsFile
<1> QED
  BY <1>1, <1>3, <1>4, <1>5 DEF st

\* The handlers of the clicks and of the timer.
LEMMA ClickSessionKeeps ==
    ASSUME ClientInv, NEW c \in Client!Calls, Client!ClickSession(c)
    PROVE  ClientInv'
<1> DEFINE st == [Client!state EXCEPT !.page.grace = FALSE]
<1>1. Client!Begin(c)
  BY DEF Client!ClickSession
<1>2. Client!CanStart => \E k \in Client!SessionIds : Client!state.sess[k].status = "idle"
  BY StateIsSound DEF Client!CanStart
<1>3. CASE page.fileActive /\ Client!StopSession(c, st, "endfile")
  <2>1. /\ Sound(st) /\ Follows(Client!state, st)
        /\ ~overlapped' =>
             /\ Alone(c) /\ HasAll(st) /\ ShowsStatus(st) /\ KnowsFile(st)
             /\ ~st.page.grace /\ st.page.fileActive
             /\ \A j \in Client!SessionIds : st.sess[j].stream # 0 => st.sess[j].recording
        /\ overlapped' \in BOOLEAN
    BY <1>1, <1>3, BeginsAlone, NoGraceIsSound
  <2> HIDE DEF st
  <2> QED
    BY <1>3, <2>1, StopMoves
<1>4. CASE ~page.fileActive /\ Client!StopSession(c, Client!state, "nothing")
  <2>1. /\ overlapped' \in BOOLEAN
        /\ ~overlapped' =>
             /\ Alone(c) /\ Held(Client!state) /\ ~Client!state.page.fileActive
             /\ \A j \in Client!SessionIds :
                  Client!state.sess[j].stream # 0 => Client!state.sess[j].recording
    BY <1>1, <1>4, BeginsAlone, StateIsSound
  <2> QED
    BY <1>4, <2>1, StateIsSound, StopMoves DEF Held, GraceIsEarned
<1>5. CASE /\ ~page.fileActive /\ Client!CanStart
           /\ Client!StopSession(c, Client!state, "start")
  <2>1. /\ overlapped' \in BOOLEAN
        /\ ~overlapped' =>
             /\ Alone(c) /\ Held(Client!state) /\ ~Client!state.page.fileActive
             /\ \A j \in Client!SessionIds :
                  Client!state.sess[j].stream # 0 => Client!state.sess[j].recording
    BY <1>1, <1>5, BeginsAlone, StateIsSound
  <2> QED
    BY <1>2, <1>5, <2>1, StateIsSound, StopMoves DEF Held, GraceIsEarned
<1> QED
  BY <1>3, <1>4, <1>5 DEF Client!ClickSession

\* The grace period that ends stops the session it was earned for.
LEMMA GraceEndsKeeps ==
    ASSUME ClientInv, NEW c \in Client!Calls, Client!GraceEnds(c)
    PROVE  ClientInv'
<1> DEFINE st == [Client!state EXCEPT !.page.grace = FALSE]
<1>1. Client!Begin(c) /\ page.grace /\ Client!StopSession(c, st, "endfile")
  BY DEF Client!GraceEnds
<1>2. Held(Client!state) => page.fileActive
  BY <1>1, StateIsSound DEF Held, GraceIsEarned
<1>3. /\ Sound(st) /\ Follows(Client!state, st)
      /\ ~overlapped' =>
           /\ Alone(c) /\ HasAll(st) /\ ShowsStatus(st) /\ KnowsFile(st)
           /\ ~st.page.grace /\ st.page.fileActive
           /\ \A j \in Client!SessionIds : st.sess[j].stream # 0 => st.sess[j].recording
      /\ overlapped' \in BOOLEAN
  BY <1>1, <1>2, BeginsAlone, NoGraceIsSound
<1> HIDE DEF st
<1> QED
  BY <1>1, <1>3, StopMoves

\* A file is decoded only when the page has no session.
LEMMA ClickFileKeeps ==
    ASSUME ClientInv, NEW c \in Client!Calls, Client!ClickFile(c)
    PROVE  ClientInv'
<1> DEFINE p == [page EXCEPT !.status = "idle", !.complete = FALSE, !.decoding = TRUE]
           t == [page |-> p, sess |-> sess, source |-> source]
           k == [at |-> "decoding", sid |-> 0, src |-> 0, next |-> "nothing"]
<1>1. /\ Client!Begin(c) /\ ~page.fileActive /\ page.session = 0
      /\ page' = p /\ call' = [call EXCEPT ![c] = k]
      /\ sess' = sess /\ source' = source
  BY DEF Client!ClickFile, Client!Await
<1>2. /\ p \in Pages /\ ~p.complete /\ p.session = page.session
      /\ p.fileActive = page.fileActive /\ p.grace = page.grace
  BY StateIsSound DEF Pages, ClientStatuses
<1>3. k \in PageCalls /\ k.at = "decoding"
  <2>1. 0 \in 0 .. MaxSessions /\ 0 \in 0 .. MaxSources
    BY PageAssumption
  <2> QED
    BY <2>1 DEF PageCalls
<1> HIDE DEF p, k
<1>4. t.page = p /\ t.sess = sess /\ t.source = source /\ Client!Become(t)
  BY <1>1 DEF Client!Become
<1>5. Sound(t) /\ Follows(Client!state, t)
  BY <1>2, StateIsSound, PageChanges
<1> HIDE DEF t
<1>6. CallIsSound(t, k)
  BY <1>3 DEF CallIsSound
<1>7. ASSUME ~overlapped'
      PROVE  Alone(c) /\ Held(t) /\ CallIsHeld(t, k) /\ LightsAreShort(t, k)
  <2>1. /\ Alone(c) /\ Held(Client!state)
        /\ \A j \in Client!SessionIds : sess[j].stream # 0 => sess[j].recording
    BY <1>1, <1>7, BeginsAlone
  <2>2. ~page.grace
    BY <1>1, <2>1, StateIsSound DEF Held, GraceIsEarned
  <2>3. HasAll(t)
    BY <1>2, <1>4, <2>1, StateIsSound DEF Held, HasAll
  <2>4. Closed(t)
    BY <1>1, <1>2, <1>4, <2>2, <2>3 DEF Closed
  <2>5. Held(t)
    BY <1>1, <1>2, <1>4, <1>5, <2>4, ClosedIsHeld
  <2>6. CallIsHeld(t, k)
    BY <1>1, <1>2, <1>3, <1>4 DEF CallIsHeld
  <2>7. LightsAreShort(t, k)
    BY <1>4, <2>1 DEF LightsAreShort
  <2> QED
    BY <2>1, <2>5, <2>6, <2>7
<1>8. overlapped' \in BOOLEAN
  BY <1>1, BeginsAlone
<1> QED
  BY <1>1, <1>3, <1>4, <1>5, <1>6, <1>7, <1>8, CallMoves

\* A pause, up to its await.
LEMMA PauseIs ==
    ASSUME NEW st, st \in Views, NEW i \in Client!SessionIds
    PROVE  LET v == [st.sess[i] EXCEPT !.recording = FALSE]
           IN  /\ v \in PageSessions
               /\ Client!StopWorklet([st EXCEPT !.sess[i].recording = FALSE], i)
                    = Stopped(st, i, v)
<1> DEFINE v == [st.sess[i] EXCEPT !.recording = FALSE]
           x == [st.sess EXCEPT ![i].recording = FALSE]
           mid == [st EXCEPT !.sess[i].recording = FALSE]
<1>1. /\ st = [page |-> st.page, sess |-> st.sess, source |-> st.source]
      /\ st.sess[i] \in PageSessions
  BY DEF Views
<1>2. v \in PageSessions /\ v.worklet = st.sess[i].worklet
  BY <1>1 DEF PageSessions
<1>3. mid = [st EXCEPT !.sess = x]
  OBVIOUS
<1>4. x = [st.sess EXCEPT ![i] = v]
  OBVIOUS
<1> HIDE DEF v, x, mid
<1>5. mid = [page |-> st.page, sess |-> [st.sess EXCEPT ![i] = v], source |-> st.source]
  BY <1>1, <1>3, <1>4
<1>6. Client!StopWorklet(mid, i) = Stopped(st, i, v)
  BY <1>2, <1>5, StopWorkletIs
<1> QED
  BY <1>2, <1>6 DEF v, mid

\* The microphone button starts, pauses, resumes or starts over.
LEMMA ClickMicKeeps ==
    ASSUME ClientInv, NEW c \in Client!Calls, Client!ClickMic(c)
    PROVE  ClientInv'
<1> DEFINE i == page.session
           t == Client!StopWorklet([Client!state EXCEPT !.sess[i].recording = FALSE], i)
           v == [sess[i] EXCEPT !.recording = FALSE]
<1>1. Client!Begin(c) /\ ~page.fileActive
  BY DEF Client!ClickMic
<1>2. /\ overlapped' \in BOOLEAN
      /\ ~overlapped' =>
           /\ Alone(c) /\ Held(Client!state) /\ ~Client!state.page.fileActive
           /\ \A j \in Client!SessionIds :
                Client!state.sess[j].stream # 0 => Client!state.sess[j].recording
  BY <1>1, BeginsAlone, StateIsSound
<1>3. CASE Client!CanStart /\ Client!StopSession(c, Client!state, "record")
  <2>1. \E k \in Client!SessionIds : Client!state.sess[k].status = "idle"
    BY <1>3, StateIsSound DEF Client!CanStart
  <2> QED
    BY <1>2, <1>3, <2>1, StateIsSound, StopMoves DEF Held, GraceIsEarned
<1>4. CASE Client!Record(c, Client!state, i)
  BY <1>2, <1>4, StateIsSound, RecordMoves
<1>5. CASE i # 0 /\ Client!Become(t) /\ Client!Await(c, "pausing", i, 0, "nothing")
  <2> DEFINE k == [at |-> "pausing", sid |-> i, src |-> 0, next |-> "nothing"]
  <2>1. i \in Client!SessionIds /\ i \in 0 .. MaxSessions /\ 0 \in 0 .. MaxSources
    BY <1>5, StateIsSound, PageAssumption DEF Pages, Client!SessionIds
  <2>2. v \in PageSessions /\ t = Stopped(Client!state, i, v)
    BY <2>1, StateIsSound, PauseIs DEF Sound
  <2>3. Quieter(sess[i], v) /\ ~v.recording
    <3>1. sess[i] \in PageSessions
      BY <2>1, StateIsSound
    <3> HIDE DEF i
    <3> QED
      BY <3>1 DEF Quieter, PageSessions
  <2> HIDE DEF i, t, v
  <2>4. Sound(t) /\ Follows(Client!state, t)
    BY <2>1, <2>2, <2>3, StateIsSound, StoppedIsSound
  <2>5. /\ k \in PageCalls /\ call' = [call EXCEPT ![c] = k]
        /\ k.at = "pausing" /\ k.sid = i /\ k.next = "nothing"
    BY <1>5, <2>1 DEF PageCalls, Client!Await
  <2> HIDE DEF k
  <2>6. sess[i].status # "idle"
    BY <1>5, StateIsSound DEF Sound, i
  <2>7. CallIsSound(t, k)
    BY <1>5, <2>1, <2>4, <2>5, <2>6, StateIsSound DEF CallIsSound, Follows
  <2>8. ASSUME ~overlapped'
        PROVE  Alone(c) /\ Held(t) /\ CallIsHeld(t, k) /\ LightsAreShort(t, k)
    <3>1. /\ HasAll(t) /\ t.page = page
          /\ t.sess[i].status = sess[i].status
          /\ t.sess[i].file = sess[i].file
          /\ t.sess[i].captured = sess[i].captured
          /\ ~t.sess[i].recording
          /\ \A m \in Client!SourceIds : ~t.source[m].runs
      <4>1. HasAll(Client!state) /\ i = Client!state.page.session
        BY <1>2, <2>8, StateIsSound DEF Held, i
      <4> QED
        BY <1>5, <2>2, <2>3, <4>1, StateIsSound, StoppedHolds
    <3>2. Held(Client!state)
      BY <1>2, <2>8
    <3>3. ShowsStatus(t)
      BY <3>1, <3>2, StateIsSound DEF Held, ShowsStatus, i
    <3>4. KnowsFile(t)
      BY <1>1, <3>1, <3>2, StateIsSound DEF Held, KnowsFile, i
    <3>5. GraceIsEarned(t)
      BY <1>1, <3>1, <3>2, StateIsSound DEF Held, GraceIsEarned
    <3>6. sess[i].file = 0
      BY <1>1, <1>5, <3>2, StateIsSound DEF Held, KnowsFile, i
    <3>7. CallIsHeld(t, k)
      BY <2>5, <3>1, <3>6 DEF CallIsHeld, i
    <3>8. LightsAreShort(t, k)
      BY <2>5 DEF LightsAreShort
    <3> QED
      BY <1>2, <2>8, <3>1, <3>3, <3>4, <3>5, <3>7, <3>8 DEF Held
  <2> QED
    BY <1>2, <1>5, <2>4, <2>5, <2>7, <2>8, CallMoves
<1> QED
  BY <1>1, <1>3, <1>4, <1>5 DEF Client!ClickMic

-----------------------------------------------------------------------------
(* Awaits that return.                                                     *)

\* While no two calls overlap, the one that returns finds what it left.
LEMMA ReturnsAlone ==
    ASSUME ClientInv, NEW c \in Client!Calls, call[c].at # "idle"
    PROVE  /\ call[c] \in PageCalls /\ CallIsSound(Client!state, call[c])
           /\ call[c].sid \in Client!SessionIds \cup {0}
           /\ call[c].src \in Client!SourceIds \cup {0}
           /\ ~overlapped =>
                /\ Alone(c) /\ Held(Client!state) /\ CallIsHeld(Client!state, call[c])
                /\ \A j \in Client!SessionIds :
                     sess[j].stream # 0 =>
                       sess[j].recording \/ call[c].at \in {"worklet", "pausing", "stopping"}
<1>1. call[c] \in PageCalls /\ CallIsSound(Client!state, call[c])
  BY DEF ClientInv
<1>2. /\ call[c].sid \in Client!SessionIds \cup {0}
      /\ call[c].src \in Client!SourceIds \cup {0}
  BY <1>1, PageAssumption DEF PageCalls, Client!SessionIds, Client!SourceIds
<1>3. ASSUME ~overlapped
      PROVE  /\ Alone(c) /\ Held(Client!state) /\ CallIsHeld(Client!state, call[c])
             /\ \A j \in Client!SessionIds :
                  sess[j].stream # 0 =>
                    sess[j].recording \/ call[c].at \in {"worklet", "pausing", "stopping"}
  <2>1. Alone(c)
    BY <1>3 DEF ClientInv, Alone
  <2>2. ASSUME NEW j \in Client!SessionIds, sess[j].stream # 0
        PROVE  sess[j].recording \/ call[c].at \in {"worklet", "pausing", "stopping"}
    <3>1. \/ sess[j].recording
          \/ \E d \in Client!Calls : call[d].at \in {"worklet", "pausing", "stopping"}
      BY <1>3, <2>2 DEF ClientInv
    <3> QED
      BY <2>1, <3>1 DEF Alone
  <2> QED
    BY <1>3, <2>1, <2>2 DEF ClientInv
<1> QED
  BY <1>1, <1>2, <1>3

\* The microphone goes on for the session that asked for it.
LEMMA MicGrantedKeeps ==
    ASSUME ClientInv, NEW c \in Client!Calls, Client!MicGranted(c)
    PROVE  ClientInv'
<1> DEFINE i == call[c].sid
           s == sess[i]
<1>1. /\ call[c].at = "mic" /\ overlapped' = overlapped /\ page' = page
      /\ \E m \in Client!SourceIds :
           /\ source[m].of = 0
           /\ source' = [source EXCEPT ![m] = [of |-> i, on |-> TRUE, runs |-> FALSE]]
           /\ sess' = [sess EXCEPT ![i].stream = m]
           /\ Client!Await(c, "worklet", i, m, "nothing")
  BY DEF Client!MicGranted, Client!Returns
<1>2. PICK m \in Client!SourceIds :
        /\ source[m].of = 0
        /\ source' = [source EXCEPT ![m] = [of |-> i, on |-> TRUE, runs |-> FALSE]]
        /\ sess' = [sess EXCEPT ![i].stream = m]
        /\ Client!Await(c, "worklet", i, m, "nothing")
  BY <1>1
<1> DEFINE u == [s EXCEPT !.stream = m]
           src == [source EXCEPT ![m] = [of |-> i, on |-> TRUE, runs |-> FALSE]]
           t == [page |-> page, sess |-> [sess EXCEPT ![i] = u], source |-> src]
           k == [at |-> "worklet", sid |-> i, src |-> m, next |-> "nothing"]
<1>3. /\ i \in Client!SessionIds /\ i \in 0 .. MaxSessions
      /\ m \in 0 .. MaxSources /\ m # 0 /\ i # 0
  <2>1. i \in Client!SessionIds
    BY <1>1, ReturnsAlone DEF CallIsSound
  <2> QED
    BY <2>1, PageAssumption DEF Client!SessionIds, Client!SourceIds
<1>4. /\ s \in PageSessions /\ KeepsFrames(s) /\ s.status # "idle"
      /\ overlapped \in BOOLEAN
  BY <1>1, <1>3, StateIsSound, ReturnsAlone DEF Sound, CallIsSound
<1> HIDE DEF i
<1>5. /\ u \in PageSessions /\ u.status = s.status /\ u.socket = s.socket
      /\ u.stream = m /\ u.worklet = s.worklet /\ u.file = s.file
      /\ u.captured = s.captured /\ u.pending = s.pending /\ u.sent = s.sent
      /\ u.wasOver = s.wasOver /\ u.recording = s.recording /\ u.ready = s.ready
      /\ u.draining = s.draining
  BY <1>3, <1>4 DEF PageSessions
<1>6. sess' = [sess EXCEPT ![i] = u] /\ source' = src
  BY <1>2
<1> HIDE DEF u
<1>7. KeepsFrames(u)
  BY <1>4, <1>5 DEF KeepsFrames
<1>8. /\ src \in [Client!SourceIds -> FrameSources]
      /\ src[m] = [of |-> i, on |-> TRUE, runs |-> FALSE]
      /\ \A n \in Client!SourceIds : n # m => src[n] = source[n]
  <2>1. [of |-> i, on |-> TRUE, runs |-> FALSE] \in FrameSources
    BY <1>3 DEF FrameSources
  <2> QED
    BY <1>2, <2>1, StateIsSound
<1> HIDE DEF src
<1>9. t.page = page /\ t.sess = [sess EXCEPT ![i] = u] /\ t.source = src
  OBVIOUS
<1>10. Sound(t) /\ Follows(Client!state, t)
  <2>1. \A n \in Client!SourceIds :
          /\ src[n].on \/ src[n].runs => src[n].of # 0
          /\ \/ src[n].of = source[n].of
             \/ source[n].of = 0 /\ src[n].of = i /\ u.status # "idle"
    BY <1>2, <1>3, <1>4, <1>5, <1>8, StateIsSound DEF Sound
  <2>2. u.status # "idle"
    BY <1>4, <1>5
  <2> QED
    BY <1>3, <1>5, <1>7, <1>8, <2>1, <2>2, StateIsSound, SessionChanges
<1>11. Client!Become(t)
  BY <1>1, <1>6, <1>9 DEF Client!Become
<1> HIDE DEF t
<1>12. /\ t.sess[i] = u
       /\ \A j \in Client!SessionIds : j # i => t.sess[j] = sess[j]
  BY <1>3, <1>9, StateIsSound
<1>13. /\ k \in PageCalls /\ call' = [call EXCEPT ![c] = k]
       /\ k.at = "worklet" /\ k.sid = i /\ k.src = m /\ k.next = "nothing"
  BY <1>2, <1>3 DEF PageCalls, Client!Await
<1> HIDE DEF k
<1>14. CallIsSound(t, k)
  BY <1>3, <1>4, <1>5, <1>8, <1>9, <1>12, <1>13 DEF CallIsSound
<1>15. ASSUME ~overlapped
       PROVE  Alone(c) /\ Held(t) /\ CallIsHeld(t, k) /\ LightsAreShort(t, k)
  <2>1. /\ Alone(c) /\ Held(Client!state)
        /\ page.session = i /\ s.file = 0 /\ ~s.recording /\ s.stream = 0
    BY <1>1, <1>15, StateIsSound, ReturnsAlone DEF CallIsHeld, i
  <2>2. \A n \in Client!SourceIds : ~source[n].on
    <3> TAKE n \in Client!SourceIds
    <3>1. n # 0
      BY PageAssumption DEF Client!SourceIds
    <3> QED
      BY <2>1, <3>1, StateIsSound DEF Held, HasAll
  <2>3. \A n \in Client!SourceIds : src[n].runs => source[n].runs /\ n # m
    BY <1>8
  <2>4. HasAll(t)
    <3>1. \A j \in Client!SessionIds :
            j # t.page.session =>
               /\ t.sess[j].status \in {"idle", "ended", "failed"}
               /\ t.sess[j].socket \notin {"connecting", "open"}
               /\ t.sess[j].stream = 0 /\ t.sess[j].worklet = 0
      BY <1>9, <1>12, <2>1, StateIsSound DEF Held, HasAll
    <3>2. ASSUME NEW n \in Client!SourceIds, t.source[n].on
          PROVE  t.page.session = t.source[n].of /\ t.sess[t.source[n].of].stream = n
      BY <1>5, <1>8, <1>9, <1>12, <2>1, <2>2, <3>2
    <3>3. ASSUME NEW n \in Client!SourceIds, t.source[n].runs
          PROVE  t.page.session = t.source[n].of /\ t.sess[t.source[n].of].worklet = n
      <4>1. source[n].runs /\ t.source[n] = source[n]
        BY <1>8, <1>9, <2>3, <3>3
      <4>2. page.session = source[n].of /\ sess[source[n].of].worklet = n
        BY <2>1, <4>1, StateIsSound DEF Held, HasAll
      <4> QED
        BY <1>5, <1>9, <1>12, <2>1, <4>1, <4>2
    <3> QED
      BY <3>1, <3>2, <3>3 DEF HasAll
  <2>5. ShowsStatus(t)
    BY <1>5, <1>9, <1>12, <2>1, StateIsSound DEF Held, ShowsStatus
  <2>6. ~page.fileActive
    BY <2>1, StateIsSound DEF Held, KnowsFile
  <2>7. KnowsFile(t)
    <3>1. \A n \in Client!SourceIds : t.source[n].runs => t.sess[t.source[n].of].file = 0
      BY <1>5, <1>9, <1>12, <2>1, <2>4 DEF HasAll
    <3> QED
      BY <1>5, <1>9, <1>12, <2>1, <2>6, <3>1 DEF KnowsFile
  <2>8. GraceIsEarned(t)
    BY <1>9, <2>1, <2>6, StateIsSound DEF Held, GraceIsEarned
  <2>9. CallIsHeld(t, k)
    BY <1>5, <1>9, <1>12, <1>13, <2>1 DEF CallIsHeld
  <2>10. LightsAreShort(t, k)
    BY <1>13 DEF LightsAreShort
  <2> QED
    BY <2>1, <2>4, <2>5, <2>7, <2>8, <2>9, <2>10 DEF Held
<1> QED
  BY <1>1, <1>4, <1>10, <1>11, <1>13, <1>14, <1>15, CallMoves

\* The user refuses: nothing was opened.
LEMMA MicRefusedKeeps ==
    ASSUME ClientInv, NEW c \in Client!Calls, Client!MicRefused(c)
    PROVE  ClientInv'
<1> DEFINE i == call[c].sid
           u == [sess[i] EXCEPT !.starting = FALSE]
           t == [page |-> page, sess |-> [sess EXCEPT ![i] = u], source |-> source]
<1>1. /\ call[c].at = "mic" /\ overlapped' = overlapped /\ page' = page
      /\ source' = source /\ sess' = [sess EXCEPT ![i] = u]
      /\ Client!Free(c)
  BY DEF Client!MicRefused, Client!Returns
<1>2. i \in Client!SessionIds
  BY <1>1, ReturnsAlone DEF CallIsSound
<1> HIDE DEF i
<1>3. u \in PageSessions /\ Alike(sess[i], u)
  <2>1. sess[i] \in PageSessions
    BY <1>2, StateIsSound
  <2> QED
    BY <2>1 DEF PageSessions, Alike
<1> HIDE DEF u
<1>4. Client!Become(t)
  BY <1>1 DEF Client!Become
<1>5. /\ Sound(t) /\ Follows(Client!state, t) /\ (Held(Client!state) => Held(t))
      /\ \A j \in Client!SessionIds :
           /\ t.sess[j].stream = sess[j].stream
           /\ t.sess[j].recording = sess[j].recording
  BY <1>2, <1>3, StateIsSound, StartingChanges
<1> HIDE DEF t
<1>6. ~overlapped =>
        /\ Alone(c) /\ Held(t)
        /\ \A j \in Client!SessionIds : t.sess[j].stream # 0 => t.sess[j].recording
  BY <1>1, <1>5, ReturnsAlone
<1> QED
  BY <1>1, <1>4, <1>5, <1>6, StateIsSound, FreeMoves

\* The session records: its microphone may stay on.
LEMMA WorkletStartedKeeps ==
    ASSUME ClientInv, NEW c \in Client!Calls, Client!WorkletStarted(c)
    PROVE  ClientInv'
<1> DEFINE i == call[c].sid
           m == call[c].src
           s == sess[i]
           u == [s EXCEPT !.worklet = m, !.recording = TRUE, !.starting = FALSE]
           src == [source EXCEPT ![m].runs = TRUE]
           t == [page |-> page, sess |-> [sess EXCEPT ![i] = u], source |-> src]
<1>1. /\ call[c].at = "worklet" /\ overlapped' = overlapped /\ page' = page
      /\ source' = src /\ sess' = [sess EXCEPT ![i] = u] /\ Client!Free(c)
  BY DEF Client!WorkletStarted, Client!Returns
<1>2. /\ i \in Client!SessionIds /\ i # 0 /\ m \in Client!SourceIds /\ m # 0
      /\ m \in 0 .. MaxSources
  <2>1. i \in Client!SessionIds /\ m \in Client!SourceIds
    BY <1>1, ReturnsAlone DEF CallIsSound
  <2> QED
    BY <2>1, PageAssumption DEF Client!SessionIds, Client!SourceIds
<1>3. /\ s \in PageSessions /\ KeepsFrames(s) /\ s.status # "idle"
      /\ source[m].of = i /\ overlapped \in BOOLEAN
  BY <1>1, <1>2, StateIsSound, ReturnsAlone DEF Sound, CallIsSound
<1>4. Client!Become(t)
  BY <1>1 DEF Client!Become
<1>5. ~overlapped =>
        /\ Alone(c) /\ Held(Client!state)
        /\ page.session = i /\ s.file = 0 /\ ~s.recording
  BY <1>1, StateIsSound, ReturnsAlone DEF CallIsHeld
<1> HIDE DEF i, m
<1>6. /\ u \in PageSessions /\ u.status = s.status /\ u.socket = s.socket
      /\ u.stream = s.stream /\ u.worklet = m /\ u.file = s.file
      /\ u.captured = s.captured /\ u.pending = s.pending /\ u.sent = s.sent
      /\ u.wasOver = s.wasOver /\ u.recording = TRUE /\ u.ready = s.ready
      /\ u.draining = s.draining
  BY <1>2, <1>3 DEF PageSessions
<1> HIDE DEF u
<1>7. KeepsFrames(u)
  BY <1>3, <1>6 DEF KeepsFrames
<1>8. /\ src \in [Client!SourceIds -> FrameSources]
      /\ src[m].of = i /\ src[m].on = source[m].on /\ src[m].runs
      /\ \A n \in Client!SourceIds : n # m => src[n] = source[n]
  <2>1. source[m] \in FrameSources
    BY <1>2, StateIsSound
  <2>2. [source[m] EXCEPT !.runs = TRUE] \in FrameSources
    BY <2>1 DEF FrameSources
  <2>3. src = [source EXCEPT ![m] = [source[m] EXCEPT !.runs = TRUE]]
    OBVIOUS
  <2> HIDE DEF src
  <2> QED
    BY <1>2, <1>3, <2>1, <2>2, <2>3, StateIsSound DEF FrameSources
<1> HIDE DEF src
<1>9. t.page = page /\ t.sess = [sess EXCEPT ![i] = u] /\ t.source = src
  OBVIOUS
<1>10. Sound(t) /\ Follows(Client!state, t)
  <2>1. \A n \in Client!SourceIds :
          /\ src[n].on \/ src[n].runs => src[n].of # 0
          /\ src[n].of = source[n].of
    BY <1>2, <1>3, <1>8, StateIsSound DEF Sound
  <2> QED
    BY <1>2, <1>3, <1>6, <1>7, <1>8, <2>1, StateIsSound, SessionChanges
<1> HIDE DEF t
<1>11. /\ t.sess[i] = u
       /\ \A j \in Client!SessionIds : j # i => t.sess[j] = sess[j]
  BY <1>2, <1>9, StateIsSound
<1>12. ASSUME ~overlapped
       PROVE  /\ Held(t)
              /\ \A j \in Client!SessionIds : t.sess[j].stream # 0 => t.sess[j].recording
  <2>1. Alone(c) /\ Held(Client!state) /\ page.session = i /\ s.file = 0 /\ ~s.recording
    BY <1>5, <1>12
  <2>2. \A n \in Client!SourceIds : ~source[n].runs
    <3>1. s.worklet = 0
      BY <1>3, <2>1 DEF KeepsFrames
    <3> TAKE n \in Client!SourceIds
    <3>2. n # 0
      BY PageAssumption DEF Client!SourceIds
    <3> QED
      BY <2>1, <3>1, <3>2, StateIsSound DEF Held, HasAll
  <2>3. HasAll(t)
    <3>1. \A j \in Client!SessionIds :
            j # t.page.session =>
               /\ t.sess[j].status \in {"idle", "ended", "failed"}
               /\ t.sess[j].socket \notin {"connecting", "open"}
               /\ t.sess[j].stream = 0 /\ t.sess[j].worklet = 0
      BY <1>9, <1>11, <2>1, StateIsSound DEF Held, HasAll
    <3>2. ASSUME NEW n \in Client!SourceIds, t.source[n].on
          PROVE  t.page.session = t.source[n].of /\ t.sess[t.source[n].of].stream = n
      <4>1. source[n].on /\ t.source[n].of = source[n].of
        BY <1>3, <1>8, <1>9, <3>2
      <4>2. page.session = source[n].of /\ sess[source[n].of].stream = n
        BY <2>1, <4>1, StateIsSound DEF Held, HasAll
      <4> QED
        BY <1>6, <1>9, <1>11, <2>1, <4>1, <4>2
    <3>3. ASSUME NEW n \in Client!SourceIds, t.source[n].runs
          PROVE  t.page.session = t.source[n].of /\ t.sess[t.source[n].of].worklet = n
      <4>1. n = m
        BY <1>8, <1>9, <2>2, <3>3
      <4> QED
        BY <1>6, <1>8, <1>9, <1>11, <2>1, <4>1
    <3> QED
      BY <3>1, <3>2, <3>3 DEF HasAll
  <2>4. ShowsStatus(t)
    BY <1>6, <1>9, <1>11, <2>1, StateIsSound DEF Held, ShowsStatus
  <2>5. ~page.fileActive
    BY <2>1, StateIsSound DEF Held, KnowsFile
  <2>6. KnowsFile(t)
    <3>1. \A n \in Client!SourceIds : t.source[n].runs => t.sess[t.source[n].of].file = 0
      BY <1>6, <1>9, <1>11, <2>1, <2>3 DEF HasAll
    <3> QED
      BY <1>6, <1>9, <1>11, <2>1, <2>5, <3>1 DEF KnowsFile
  <2>7. GraceIsEarned(t)
    BY <1>9, <2>1, <2>5, StateIsSound DEF Held, GraceIsEarned
  <2>8. \A j \in Client!SessionIds : t.sess[j].stream # 0 => t.sess[j].recording
    BY <1>6, <1>9, <1>11, <2>1, <2>3 DEF HasAll
  <2> QED
    BY <2>3, <2>4, <2>6, <2>7, <2>8 DEF Held
<1> QED
  BY <1>1, <1>3, <1>4, <1>5, <1>10, <1>12, FreeMoves

\* The microphone goes off.
LEMMA ReleaseKeeps ==
    ASSUME NEW st, Sound(st), NEW i \in Client!SessionIds
    PROVE  LET t == Client!ReleaseStream(st, i)
           IN  /\ Sound(t) /\ Follows(st, t)
               /\ Held(st) /\ st.page.session = i =>
                    /\ Held(t)
                    /\ \A j \in Client!SessionIds : t.sess[j].stream = 0
<1> DEFINE s == st.sess[i]
           u == [s EXCEPT !.stream = 0]
           src == IF s.stream = 0 THEN st.source
                  ELSE [st.source EXCEPT ![s.stream].on = FALSE]
           t == Client!ReleaseStream(st, i)
<1>1. /\ st \in Views /\ s \in PageSessions /\ KeepsFrames(s) /\ st.page \in Pages
      /\ st.source \in [Client!SourceIds -> FrameSources]
      /\ st.sess \in [Client!SessionIds -> PageSessions]
  BY DEF Sound, Views
<1>2. /\ t = [page |-> st.page, sess |-> [st.sess EXCEPT ![i] = u], source |-> src]
      /\ u \in PageSessions /\ src \in [Client!SourceIds -> FrameSources]
  BY <1>1, ReleaseIs
<1>3. /\ u.status = s.status /\ u.socket = s.socket
      /\ u.stream = 0 /\ u.worklet = s.worklet /\ u.file = s.file
      /\ u.captured = s.captured /\ u.pending = s.pending /\ u.sent = s.sent
      /\ u.wasOver = s.wasOver /\ u.recording = s.recording /\ u.ready = s.ready
      /\ u.draining = s.draining
  <2> HIDE DEF s
  <2> QED
    BY <1>1 DEF PageSessions
<1>4. \A m \in Client!SourceIds :
        /\ src[m].of = st.source[m].of /\ src[m].runs = st.source[m].runs
        /\ src[m].on => st.source[m].on /\ m # s.stream
  <2> TAKE m \in Client!SourceIds
  <2>1. m # 0 /\ st.source[m] \in FrameSources
    BY <1>1, PageAssumption DEF Client!SourceIds
  <2> QED
    BY <1>1, <2>1 DEF FrameSources
<1> HIDE DEF u, src, t
<1>5. KeepsFrames(u)
  BY <1>1, <1>3 DEF KeepsFrames
<1>6. Sound(t) /\ Follows(st, t)
  <2>1. \A m \in Client!SourceIds :
          src[m].on \/ src[m].runs => src[m].of # 0
    BY <1>4 DEF Sound
  <2> QED
    BY <1>1, <1>2, <1>3, <1>4, <1>5, <2>1, SessionChanges
<1>7. ASSUME Held(st), st.page.session = i
      PROVE  Held(t) /\ \A j \in Client!SessionIds : t.sess[j].stream = 0
  <2>1. /\ t.page = st.page /\ t.source = src /\ t.sess[i] = u /\ i # 0
        /\ \A j \in Client!SessionIds : j # i => t.sess[j] = st.sess[j]
    BY <1>1, <1>2, PageAssumption DEF Client!SessionIds
  <2>2. \A m \in Client!SourceIds : ~src[m].on
    BY <1>4, <1>7 DEF Held, HasAll
  <2>3. /\ \A m \in Client!SourceIds :
             src[m].runs => st.source[m].of = i /\ st.sess[i].worklet = m
    BY <1>4, <1>7 DEF Held, HasAll
  <2>4. HasAll(t)
    BY <1>3, <1>4, <1>7, <2>1, <2>2, <2>3 DEF Held, HasAll
  <2>5. ShowsStatus(t)
    BY <1>3, <1>7, <2>1 DEF Held, ShowsStatus
  <2>6. KnowsFile(t)
    <3>1. KnowsFile(st)
      BY <1>7 DEF Held
    <3>2. ASSUME NEW m \in Client!SourceIds, t.source[m].runs
          PROVE  t.source[m].of = i /\ st.source[m].of = i /\ st.source[m].runs
      BY <1>4, <2>1, <2>3, <3>2
    <3>3. ASSUME NEW m \in Client!SourceIds, t.source[m].runs,
                 t.sess[t.source[m].of].file # 0
          PROVE  t.sess[t.source[m].of].captured < t.sess[t.source[m].of].file
      <4>1. t.source[m].of = i /\ st.source[m].of = i /\ st.source[m].runs
        BY <3>2, <3>3
      <4>2. st.sess[i].file # 0 => st.sess[i].captured < st.sess[i].file
        BY <3>1, <4>1 DEF KnowsFile
      <4>3. t.sess[t.source[m].of] = u
        BY <2>1, <4>1
      <4> QED
        BY <1>3, <3>3, <4>2, <4>3
    <3> QED
      BY <1>3, <1>7, <2>1, <3>1, <3>3 DEF KnowsFile
  <2>7. GraceIsEarned(t)
    BY <1>3, <1>7, <2>1 DEF Held, GraceIsEarned
  <2>8. \A j \in Client!SessionIds : t.sess[j].stream = 0
    BY <1>3, <1>7, <2>1 DEF Held, HasAll
  <2> QED
    BY <2>4, <2>5, <2>6, <2>7, <2>8 DEF Held
<1> QED
  BY <1>6, <1>7 DEF t

\* A pause releases the microphone.
LEMMA PauseDoneKeeps ==
    ASSUME ClientInv, NEW c \in Client!Calls, Client!PauseDone(c)
    PROVE  ClientInv'
<1> DEFINE i == call[c].sid
           t == Client!ReleaseStream(Client!state, i)
<1>1. /\ call[c].at = "pausing" /\ overlapped' = overlapped
      /\ Client!Become(t) /\ Client!Free(c)
  BY DEF Client!PauseDone, Client!Returns
<1>2. i \in Client!SessionIds /\ overlapped \in BOOLEAN
  BY <1>1, StateIsSound, ReturnsAlone DEF CallIsSound
<1>3. ~overlapped => Alone(c) /\ Held(Client!state) /\ Client!state.page.session = i
  BY <1>1, ReturnsAlone DEF CallIsHeld
<1> HIDE DEF i
<1>4. /\ Sound(t) /\ Follows(Client!state, t)
      /\ ~overlapped =>
           /\ Alone(c) /\ Held(t)
           /\ \A j \in Client!SessionIds : t.sess[j].stream = 0
  BY <1>2, <1>3, StateIsSound, ReleaseKeeps
<1> HIDE DEF t
<1> QED
  BY <1>1, <1>2, <1>4, FreeMoves

\* So does a worklet that does not load.
LEMMA WorkletFailsKeeps ==
    ASSUME ClientInv, NEW c \in Client!Calls, Client!WorkletFails(c)
    PROVE  ClientInv'
<1> DEFINE i == call[c].sid
           u == [sess[i] EXCEPT !.starting = FALSE]
           st == [Client!state EXCEPT !.sess[i].starting = FALSE]
           t == Client!ReleaseStream(st, i)
<1>1. /\ call[c].at = "worklet" /\ overlapped' = overlapped
      /\ Client!Become(t) /\ Client!Free(c)
  BY DEF Client!WorkletFails, Client!Returns
<1>2. i \in Client!SessionIds /\ overlapped \in BOOLEAN
  BY <1>1, StateIsSound, ReturnsAlone DEF CallIsSound
<1>3. ~overlapped => Alone(c) /\ Held(Client!state) /\ page.session = i
  BY <1>1, StateIsSound, ReturnsAlone DEF CallIsHeld
<1> HIDE DEF i
<1>4. u \in PageSessions /\ Alike(sess[i], u)
  <2>1. sess[i] \in PageSessions
    BY <1>2, StateIsSound
  <2> QED
    BY <2>1 DEF PageSessions, Alike
<1>5. st = [page |-> page, sess |-> [sess EXCEPT ![i] = u], source |-> source]
  <2> DEFINE x == [Client!state.sess EXCEPT ![i].starting = FALSE]
  <2>1. st = [Client!state EXCEPT !.sess = x]
    OBVIOUS
  <2>2. x = [sess EXCEPT ![i] = u]
    BY StateIsSound
  <2> HIDE DEF st, u, x
  <2>3. Client!state = [page |-> page, sess |-> sess, source |-> source]
    BY DEF Client!state
  <2> QED
    BY <2>1, <2>2, <2>3
<1> HIDE DEF u, st
<1>6. /\ Sound(st) /\ Follows(Client!state, st) /\ (Held(Client!state) => Held(st))
      /\ st.page = page
  BY <1>2, <1>4, <1>5, StateIsSound, StartingChanges
<1>7. /\ Sound(t) /\ Follows(st, t)
      /\ ~overlapped =>
           /\ Alone(c) /\ Held(t)
           /\ \A j \in Client!SessionIds : t.sess[j].stream = 0
  BY <1>2, <1>3, <1>6, ReleaseKeeps
<1> HIDE DEF t
<1>8. Follows(Client!state, t)
  BY <1>6, <1>7, FollowsOn
<1> QED
  BY <1>1, <1>2, <1>7, <1>8, FreeMoves

\* The worklet has stopped: the rest of stopSession, and what was to follow it.
LEMMA StopDoneKeeps ==
    ASSUME ClientInv, NEW c \in Client!Calls, Client!StopDone(c)
    PROVE  ClientInv'
<1> DEFINE i == call[c].sid
           next == call[c].next
           t == Client!Finish(Client!state, i)
<1>1. /\ call[c].at = "stopping" /\ overlapped' = overlapped
      /\ next \in {"start", "record"} => Client!CanStart
      /\ Client!Continue(c, t, next)
  BY DEF Client!StopDone, Client!Returns
<1>2. /\ i \in Client!SessionIds /\ i # 0 /\ overlapped \in BOOLEAN
      /\ sess[i].status # "idle"
  BY <1>1, StateIsSound, ReturnsAlone DEF CallIsSound
<1>3. ~overlapped =>
        /\ Alone(c) /\ Held(Client!state) /\ page.session = i
        /\ sess[i].file = 0 /\ ~sess[i].recording
  BY <1>1, StateIsSound, ReturnsAlone DEF CallIsHeld
<1> HIDE DEF i, next
<1>4. Sound(t) /\ Follows(Client!state, t)
  BY <1>2, StateIsSound, FinishIsSound
<1>5. ASSUME ~overlapped
      PROVE  Alone(c) /\ Closed(t) /\ ~t.page.fileActive
  <2>1. ~page.fileActive
    BY <1>3, <1>5, StateIsSound DEF Held, KnowsFile
  <2>2. ~page.grace
    BY <1>3, <1>5, <2>1, StateIsSound DEF Held, GraceIsEarned
  <2>3. sess[i].worklet = 0
    BY <1>2, <1>3, <1>5, StateIsSound DEF Sound, KeepsFrames
  <2>4. HasAll(Client!state)
    BY <1>3, <1>5 DEF Held
  <2>5. Client!state.page.session = i
    BY <1>3, <1>5, StateIsSound
  <2>6. t = Client!Finish(Client!state, Client!state.page.session)
    BY <2>5
  <2> HIDE DEF t
  <2>7. Closed(t) /\ t.page.fileActive = Client!state.page.fileActive
    BY <1>2, <2>2, <2>3, <2>4, <2>5, <2>6, StateIsSound, FinishCloses
  <2> QED
    BY <1>3, <1>5, <2>1, <2>7, StateIsSound
<1>6. ASSUME next \in {"start", "record"}
      PROVE  \E k \in Client!SessionIds : t.sess[k].status = "idle"
  <2>1. PICK k \in Client!SessionIds : sess[k].status = "idle"
    BY <1>1, <1>6 DEF Client!CanStart
  <2>2. k # i
    BY <1>2, <2>1
  <2>3. t.sess[k] = sess[k]
    BY <1>2, <2>2, StateIsSound, OthersStay
  <2> QED
    BY <2>1, <2>3
<1> HIDE DEF t
<1> QED
  BY <1>1, <1>2, <1>4, <1>5, <1>6, ContinueMoves

\* A file that cannot be decoded leaves no session.
LEMMA DecodeFailsKeeps ==
    ASSUME ClientInv, NEW c \in Client!Calls, Client!DecodeFails(c)
    PROVE  ClientInv'
<1> DEFINE p == [page EXCEPT !.decoding = FALSE]
           t == [page |-> p, sess |-> sess, source |-> source]
<1>1. /\ call[c].at = "decoding" /\ overlapped' = overlapped
      /\ Client!Become(t) /\ Client!Free(c)
  BY DEF Client!DecodeFails, Client!Returns, Client!Become
<1>2. /\ p \in Pages /\ p.session = page.session /\ p.status = page.status
      /\ p.fileActive = page.fileActive /\ p.complete = page.complete
      /\ p.grace = page.grace
  BY StateIsSound DEF Pages
<1> HIDE DEF p
<1>3. Sound(t) /\ Follows(Client!state, t)
  BY <1>2, StateIsSound, PageChanges
<1>4. t.page = p /\ t.sess = sess /\ t.source = source
  OBVIOUS
<1> HIDE DEF t
<1>5. Held(Client!state) => Held(t)
  BY <1>2, <1>4, StateIsSound
     DEF Held, HasAll, ShowsStatus, KnowsFile, GraceIsEarned
<1>6. ~overlapped =>
        /\ Alone(c) /\ Held(t)
        /\ \A j \in Client!SessionIds : t.sess[j].stream # 0 => t.sess[j].recording
  BY <1>1, <1>4, <1>5, ReturnsAlone
<1> QED
  BY <1>1, <1>3, <1>6, StateIsSound, FreeMoves

\* The page when a file has been decoded.
LEMMA FileBegins ==
    ASSUME ClientInv
    PROVE  LET st == [Client!state EXCEPT !.page = [@ EXCEPT !.decoding = FALSE,
                                                             !.fileActive = TRUE]]
           IN  /\ Sound(st) /\ Follows(Client!state, st)
               /\ st.sess = sess /\ st.source = source
               /\ st.page.fileActive /\ st.page.session = page.session
               /\ st.page.complete = page.complete /\ st.page.grace = page.grace
<1> DEFINE p == [page EXCEPT !.decoding = FALSE, !.fileActive = TRUE]
           st == [Client!state EXCEPT !.page = [@ EXCEPT !.decoding = FALSE,
                                                         !.fileActive = TRUE]]
<1>1. /\ p \in Pages /\ p.session = page.session /\ p.fileActive
      /\ p.complete = page.complete /\ p.grace = page.grace
  BY StateIsSound DEF Pages
<1>2. st = [Client!state EXCEPT !.page = p]
  BY StateIsSound
<1> HIDE DEF p, st
<1>3. st = [page |-> p, sess |-> sess, source |-> source]
  BY <1>2 DEF Client!state
<1>4. Sound(st) /\ Follows(Client!state, st)
  BY <1>1, <1>3, StateIsSound, PageChanges
<1>5. st.page = p /\ st.sess = sess /\ st.source = source
  BY <1>3
<1> QED
  BY <1>1, <1>4, <1>5 DEF st

\* The decoded file gets a session, which the page has, unless calls overlapped.
LEMMA DecodedKeeps ==
    ASSUME ClientInv, NEW c \in Client!Calls, NEW length \in 1 .. MaxFrames,
           Client!Decoded(c, length)
    PROVE  ClientInv'
<1> DEFINE begun == [Client!state EXCEPT !.page = [@ EXCEPT !.decoding = FALSE,
                                                            !.fileActive = TRUE]]
           st == Client!Open(begun, length)
           i == st.page.session
<1>1. /\ call[c].at = "decoding" /\ overlapped' = overlapped /\ Client!CanStart
      /\ \E m \in Client!SourceIds :
           /\ source[m].of = 0
           /\ Client!Become([st EXCEPT
                !.source[m] = [of |-> i, on |-> FALSE, runs |-> TRUE],
                !.sess[i] = [@ EXCEPT !.worklet = m, !.recording = TRUE]])
      /\ Client!Free(c)
  BY DEF Client!Decoded, Client!Returns
<1>2. /\ Sound(begun) /\ Follows(Client!state, begun)
      /\ begun.sess = sess /\ begun.source = source
      /\ begun.page.fileActive /\ begun.page.session = page.session
      /\ begun.page.complete = page.complete /\ begun.page.grace = page.grace
  BY FileBegins
<1>3. ~overlapped => Alone(c) /\ Held(Client!state) /\ page.session = 0 /\ ~page.complete
  BY <1>1, StateIsSound, ReturnsAlone DEF CallIsHeld
<1> HIDE DEF begun
<1>4. length \in Nat /\ length # 0
  BY PageAssumption
<1>5. \E k \in Client!SessionIds : begun.sess[k].status = "idle"
  BY <1>1, <1>2 DEF Client!CanStart
<1>6. /\ Sound(st) /\ Follows(begun, st) /\ st.source = source
      /\ i \in Client!SessionIds /\ st.sess[i].status = "connecting"
  <2>1. Sound(st) /\ Follows(begun, st)
    BY <1>2, <1>4, <1>5, OpenIsSound
  <2>2. PICK k \in Client!SessionIds, v \in PageSessions :
          /\ begun.sess[k].status = "idle"
          /\ v = [begun.sess[k] EXCEPT !.socket = "connecting", !.file = length,
                                       !.status = "connecting"]
          /\ KeepsFrames(v)
          /\ st = [page |-> [begun.page EXCEPT !.session = k, !.status = "connecting"],
                   sess |-> [begun.sess EXCEPT ![k] = v], source |-> begun.source]
    BY <1>2, <1>4, <1>5, OpenIs
  <2>3. v.status = "connecting"
    <3>1. begun.sess[k] \in PageSessions
      BY <1>2, StateIsSound
    <3> QED
      BY <2>2, <3>1 DEF PageSessions
  <2>4. i = k /\ st.source = source /\ st.sess[k] = v
    <3> HIDE DEF st
    <3>1. begun.page \in Pages /\ begun.sess \in [Client!SessionIds -> PageSessions]
      BY <1>2 DEF Sound, Views
    <3> QED
      BY <1>2, <2>2, <3>1 DEF Pages
  <2> QED
    BY <2>1, <2>3, <2>4
<1>7. ASSUME ~overlapped
      PROVE  /\ HasAll(st) /\ ShowsStatus(st) /\ ~st.page.grace
             /\ st.page.fileActive /\ ~st.page.complete
             /\ st.sess[i].file = length /\ st.sess[i].captured = 0
             /\ \A j \in Client!SessionIds : st.sess[j].stream = 0
             /\ \A m \in Client!SourceIds : ~source[m].on /\ ~source[m].runs
  <2>1. ~page.fileActive
    BY <1>3, <1>7, StateIsSound DEF Held, KnowsFile
  <2>2. ~page.grace
    BY <1>3, <1>7, <2>1, StateIsSound DEF Held, GraceIsEarned
  <2>3. HasAll(begun)
    BY <1>2, <1>3, <1>7, StateIsSound DEF Held, HasAll
  <2>4. Closed(begun)
    BY <1>2, <1>3, <1>7, <2>2, <2>3 DEF Closed
  <2>5. \A m \in Client!SourceIds : ~source[m].on /\ ~source[m].runs
    BY <1>2, <2>4, ClosedIsHeld
  <2>6. /\ HasAll(st) /\ ShowsStatus(st) /\ ~st.page.grace
        /\ st.page.fileActive = begun.page.fileActive
        /\ st.page.complete = begun.page.complete
        /\ st.sess[i].file = length /\ st.sess[i].captured = 0
        /\ \A j \in Client!SessionIds : st.sess[j].stream = 0
    <3>1. Sound(begun)
      BY <1>2
    <3> QED
      BY <1>4, <1>5, <2>4, <3>1, OpenHolds
  <2> QED
    BY <1>2, <1>3, <1>7, <2>5, <2>6
<1> HIDE DEF st
<1>8. PICK m \in Client!SourceIds :
        /\ source[m].of = 0
        /\ Client!Become([st EXCEPT
             !.source[m] = [of |-> i, on |-> FALSE, runs |-> TRUE],
             !.sess[i] = [@ EXCEPT !.worklet = m, !.recording = TRUE]])
  BY <1>1
<1> DEFINE s == st.sess[i]
           u == [s EXCEPT !.worklet = m, !.recording = TRUE]
           src == [source EXCEPT ![m] = [of |-> i, on |-> FALSE, runs |-> TRUE]]
           t == [page |-> st.page, sess |-> [st.sess EXCEPT ![i] = u], source |-> src]
<1>9. /\ i # 0 /\ i \in 0 .. MaxSessions /\ m # 0 /\ m \in 0 .. MaxSources
      /\ s \in PageSessions /\ KeepsFrames(s) /\ st.page \in Pages
      /\ st.sess \in [Client!SessionIds -> PageSessions]
      /\ st = [page |-> st.page, sess |-> st.sess, source |-> st.source]
  BY <1>6, PageAssumption DEF Sound, Views, Client!SessionIds, Client!SourceIds
<1> HIDE DEF i
<1>10. /\ u \in PageSessions /\ u.status = s.status /\ u.socket = s.socket
       /\ u.stream = s.stream /\ u.worklet = m /\ u.file = s.file
       /\ u.captured = s.captured /\ u.pending = s.pending /\ u.sent = s.sent
       /\ u.wasOver = s.wasOver /\ u.recording = TRUE /\ u.ready = s.ready
       /\ u.draining = s.draining
  BY <1>9 DEF PageSessions
<1>11. Client!Become(t)
  <2> DEFINE x == [st EXCEPT
                !.source[m] = [of |-> i, on |-> FALSE, runs |-> TRUE],
                !.sess[i] = [@ EXCEPT !.worklet = m, !.recording = TRUE]]
  <2>1. x.page = st.page /\ x.sess = [st.sess EXCEPT ![i] = u] /\ x.source = src
    BY <1>6, <1>9
  <2> HIDE DEF x, u, src
  <2>2. t.page = st.page /\ t.sess = [st.sess EXCEPT ![i] = u] /\ t.source = src
    OBVIOUS
  <2>3. Client!Become(x)
    BY <1>8 DEF x, u
  <2> HIDE DEF t
  <2> QED
    BY <2>1, <2>2, <2>3 DEF Client!Become
<1> HIDE DEF u
<1>12. KeepsFrames(u)
  BY <1>6, <1>9, <1>10 DEF KeepsFrames
<1>13. /\ src \in [Client!SourceIds -> FrameSources]
       /\ src[m] = [of |-> i, on |-> FALSE, runs |-> TRUE]
       /\ \A n \in Client!SourceIds : n # m => src[n] = source[n]
  <2>1. [of |-> i, on |-> FALSE, runs |-> TRUE] \in FrameSources
    BY <1>9 DEF FrameSources
  <2> QED
    BY <2>1, StateIsSound
<1> HIDE DEF src
<1>14. t.page = st.page /\ t.sess = [st.sess EXCEPT ![i] = u] /\ t.source = src
  OBVIOUS
<1>15. Sound(t) /\ Follows(st, t)
  <2>1. \A n \in Client!SourceIds :
          /\ src[n].on \/ src[n].runs => src[n].of # 0
          /\ \/ src[n].of = st.source[n].of
             \/ st.source[n].of = 0 /\ src[n].of = i /\ u.status # "idle"
    BY <1>6, <1>8, <1>9, <1>10, <1>13, StateIsSound DEF Sound, i
  <2>2. u.status # "idle"
    BY <1>6, <1>10 DEF i
  <2>3. i \in Client!SessionIds
    BY <1>6 DEF i
  <2> QED
    BY <1>6, <1>9, <1>10, <1>12, <1>13, <2>1, <2>2, <2>3, SessionChanges
<1> HIDE DEF t
<1>16. /\ t.sess[i] = u
       /\ \A j \in Client!SessionIds : j # i => t.sess[j] = st.sess[j]
  BY <1>6, <1>9, <1>14 DEF i
<1>17. Follows(Client!state, t)
  BY <1>2, <1>6, <1>15, FollowsOn
<1>18. ASSUME ~overlapped
       PROVE  /\ Held(t)
              /\ \A j \in Client!SessionIds : t.sess[j].stream = 0
  <2>1. \A n \in Client!SourceIds : ~src[n].on /\ (src[n].runs => n = m)
    BY <1>7, <1>13, <1>18
  <2>2. HasAll(t)
    <3>1. \A j \in Client!SessionIds :
            j # t.page.session =>
               /\ t.sess[j].status \in {"idle", "ended", "failed"}
               /\ t.sess[j].socket \notin {"connecting", "open"}
               /\ t.sess[j].stream = 0 /\ t.sess[j].worklet = 0
      BY <1>7, <1>14, <1>16, <1>18 DEF HasAll, i
    <3>2. \A n \in Client!SourceIds :
            /\ ~t.source[n].on
            /\ t.source[n].runs =>
                 t.page.session = t.source[n].of /\ t.sess[t.source[n].of].worklet = n
      BY <1>10, <1>13, <1>14, <1>16, <2>1 DEF i
    <3> QED
      BY <3>1, <3>2 DEF HasAll
  <2>3. ShowsStatus(t)
    BY <1>7, <1>10, <1>14, <1>16, <1>18 DEF ShowsStatus, i
  <2>4. KnowsFile(t)
    <3>1. /\ t.page.session = i /\ t.page.fileActive /\ ~t.page.complete
          /\ t.sess[i].file = length /\ t.sess[i].captured = 0
      BY <1>7, <1>10, <1>14, <1>16, <1>18 DEF i
    <3>2. \A n \in Client!SourceIds : t.source[n].runs => t.source[n].of = i
      BY <2>2, <3>1 DEF HasAll
    <3>3. 0 < length
      BY <1>4
    <3> QED
      BY <1>4, <1>9, <3>1, <3>2, <3>3 DEF KnowsFile
  <2>5. GraceIsEarned(t)
    BY <1>7, <1>14, <1>18 DEF GraceIsEarned
  <2>6. \A j \in Client!SessionIds : t.sess[j].stream = 0
    BY <1>6, <1>7, <1>10, <1>16, <1>18 DEF i
  <2> QED
    BY <2>2, <2>3, <2>4, <2>5, <2>6 DEF Held
<1> QED
  BY <1>1, <1>3, <1>11, <1>15, <1>17, <1>18, StateIsSound, FreeMoves

-----------------------------------------------------------------------------
(* Events of a session.                                                    *)

\* An event changes a session, and what the page shows of it.
LEMMA EventMoves ==
    ASSUME ClientInv, NEW i \in Client!SessionIds, NEW u \in PageSessions, KeepsFrames(u),
           u.status = "idle" => sess[i].status = "idle",
           u.stream = sess[i].stream, u.worklet = sess[i].worklet,
           u.recording = sess[i].recording, u.file = sess[i].file,
           u.captured = sess[i].captured,
           NEW p \in Pages, p.session = page.session, p.fileActive = page.fileActive,
           p.complete = page.complete,
           Client!Become([page |-> p, sess |-> [sess EXCEPT ![i] = u], source |-> source]),
           UNCHANGED <<call, overlapped>>,
           ~overlapped =>
             /\ i # page.session =>
                  /\ u.status \in {"idle", "ended", "failed"}
                  /\ u.socket \notin {"connecting", "open"}
                  /\ p = page
             /\ i = page.session => p.status = u.status
             /\ i = page.session /\ p.grace =>
                  /\ page.fileActive /\ page.complete
                  /\ u.wasOver \/ (u.pending = <<>> /\ u.sent = Client!Numbers(u.file))
    PROVE  ClientInv'
<1> DEFINE t == [page |-> p, sess |-> [sess EXCEPT ![i] = u], source |-> source]
           s == sess[i]
<1>1. t.page = p /\ t.sess = [sess EXCEPT ![i] = u] /\ t.source = source
  OBVIOUS
<1>2. Client!Become(t)
  OBVIOUS
<1>3. Sound(t) /\ Follows(Client!state, t)
  <2>1. \A m \in Client!SourceIds :
          source[m].on \/ source[m].runs => source[m].of # 0
    BY StateIsSound DEF Sound
  <2> QED
    BY <2>1, StateIsSound, SessionChanges
<1> HIDE DEF t
<1>4. /\ t.sess[i] = u
      /\ \A j \in Client!SessionIds : j # i => t.sess[j] = sess[j]
  BY <1>1, StateIsSound
<1>5. \A j \in Client!SessionIds :
        /\ t.sess[j].stream = sess[j].stream
        /\ t.sess[j].worklet = sess[j].worklet
        /\ t.sess[j].recording = sess[j].recording
        /\ t.sess[j].file = sess[j].file
        /\ t.sess[j].captured = sess[j].captured
  BY <1>4
<1>6. /\ page.session # 0 => page.session \in Client!SessionIds
      /\ \A m \in Client!SourceIds :
           source[m].on \/ source[m].runs => source[m].of \in Client!SessionIds
  BY PageAssumption, StateIsSound DEF Sound, Pages, FrameSources, Client!SessionIds
<1>7. ASSUME ~overlapped PROVE Held(t)
  <2>1. Held(Client!state)
    BY <1>7 DEF ClientInv
  <2>2. HasAll(t)
    <3>1. ASSUME NEW j \in Client!SessionIds, j # page.session
          PROVE  /\ t.sess[j].status \in {"idle", "ended", "failed"}
                 /\ t.sess[j].socket \notin {"connecting", "open"}
                 /\ t.sess[j].stream = 0 /\ t.sess[j].worklet = 0
      BY <1>4, <1>5, <1>7, <2>1, <3>1, StateIsSound DEF Held, HasAll
    <3>2. \A m \in Client!SourceIds :
            /\ source[m].on =>
                 page.session = source[m].of /\ t.sess[source[m].of].stream = m
            /\ source[m].runs =>
                 page.session = source[m].of /\ t.sess[source[m].of].worklet = m
      BY <1>5, <1>6, <2>1, StateIsSound DEF Held, HasAll
    <3> QED
      BY <1>1, <3>1, <3>2 DEF HasAll
  <2>3. ShowsStatus(t)
    BY <1>1, <1>4, <1>6, <1>7, <2>1, StateIsSound DEF Held, ShowsStatus
  <2>4. KnowsFile(t)
    BY <1>1, <1>5, <1>6, <2>1, StateIsSound DEF Held, KnowsFile
  <2>5. GraceIsEarned(t)
    BY <1>1, <1>4, <1>6, <1>7, <2>1, StateIsSound DEF Held, GraceIsEarned, KnowsFile
  <2> QED
    BY <2>2, <2>3, <2>4, <2>5 DEF Held
<1> QED
  BY <1>1, <1>2, <1>3, <1>5, <1>7, StateIsSound, EventKeeps

\* An event of an open socket, or of a timer, that sets the status of its session.
LEMMA StatusMoves ==
    ASSUME ClientInv, NEW i \in Client!SessionIds, NEW v \in PageSessions,
           NEW x \in ClientStatuses \ {"idle"},
           v.status = sess[i].status, v.wasOver = sess[i].wasOver,
           v.stream = sess[i].stream, v.worklet = sess[i].worklet,
           v.recording = sess[i].recording, v.file = sess[i].file,
           v.captured = sess[i].captured,
           v.pending = sess[i].pending, v.sent = sess[i].sent,
           KeepsFrames([v EXCEPT !.status = x,
                                 !.wasOver = v.wasOver \/ x \in {"ended", "failed"}]),
           Client!Become(Client!Status([page |-> page, sess |-> [sess EXCEPT ![i] = v],
                                        source |-> source], i, x)),
           UNCHANGED <<call, overlapped>>,
           ~overlapped => i = page.session,
           x = "transcribing" => v.wasOver \/ v.pending = <<>>
    PROVE  ClientInv'
<1> DEFINE st == [page |-> page, sess |-> [sess EXCEPT ![i] = v], source |-> source]
           u == [v EXCEPT !.status = x,
                          !.wasOver = v.wasOver \/ x \in {"ended", "failed"}]
           p == [page EXCEPT
                   !.status = IF v.status = x THEN @ ELSE x,
                   !.grace = @ \/ (/\ v.status # x
                                   /\ page.fileActive /\ page.complete
                                   /\ x = "transcribing")]
           t == [page |-> p, sess |-> [sess EXCEPT ![i] = u], source |-> source]
<1>1. /\ st \in Views /\ st.page = page /\ st.sess = [sess EXCEPT ![i] = v]
      /\ st.source = source /\ st.sess[i] = v
  BY StateIsSound DEF Views
<1>2. st.sess[i].status = x /\ x \in {"ended", "failed"} => st.sess[i].wasOver
  <2>1. sess[i].status \in {"ended", "failed"} => sess[i].wasOver
    BY StateIsSound DEF Sound, KeepsFrames
  <2> HIDE DEF st
  <2> QED
    BY <1>1, <2>1
<1>3. Client!Status(st, i, x) = t /\ u \in PageSessions /\ p \in Pages
  <2> HIDE DEF st
  <2>1. LET s == st.sess[i]
            w == [s EXCEPT !.status = x,
                           !.wasOver = s.wasOver \/ x \in {"ended", "failed"}]
            q == [st.page EXCEPT
                    !.status = IF s.status = x THEN @ ELSE x,
                    !.grace = @ \/ (/\ s.status # x
                                    /\ st.page.fileActive /\ st.page.complete
                                    /\ x = "transcribing")]
        IN  /\ Client!Status(st, i, x)
                 = [page |-> q, sess |-> [st.sess EXCEPT ![i] = w], source |-> st.source]
            /\ w \in PageSessions /\ q \in Pages
    BY <1>1, <1>2, StatusIs
  <2>2. [st.sess EXCEPT ![i] = u] = [sess EXCEPT ![i] = u]
    BY <1>1, StateIsSound
  <2> QED
    BY <1>1, <2>1, <2>2
<1>4. /\ u.status = x /\ u.wasOver = (v.wasOver \/ x \in {"ended", "failed"})
      /\ u.stream = v.stream /\ u.worklet = v.worklet /\ u.recording = v.recording
      /\ u.file = v.file /\ u.captured = v.captured /\ u.pending = v.pending
      /\ u.sent = v.sent /\ KeepsFrames(u)
  BY DEF PageSessions
<1>5. /\ p.session = page.session /\ p.fileActive = page.fileActive
      /\ p.complete = page.complete
      /\ p.status = IF v.status = x THEN page.status ELSE x
      /\ p.grace => page.grace \/ (page.fileActive /\ page.complete /\ x = "transcribing")
  BY StateIsSound DEF Pages
<1> HIDE DEF st, u, p
<1>6. Client!Become(t)
  BY <1>3 DEF st
<1>7. ASSUME ~overlapped
      PROVE  /\ i = page.session /\ p.status = u.status
             /\ p.grace =>
                  /\ page.fileActive /\ page.complete
                  /\ u.wasOver \/ (u.pending = <<>> /\ u.sent = Client!Numbers(u.file))
  <2>1. Held(Client!state) /\ i = page.session /\ i # 0
    BY <1>7, PageAssumption DEF ClientInv, Client!SessionIds
  <2>2. p.status = u.status
    BY <1>4, <1>5, <2>1, StateIsSound DEF Held, ShowsStatus
  <2>3. ASSUME page.grace
        PROVE  /\ page.fileActive /\ page.complete
               /\ v.wasOver \/ (v.pending = <<>> /\ v.sent = Client!Numbers(v.file))
    BY <2>1, <2>3, StateIsSound DEF Held, GraceIsEarned
  <2>4. ASSUME page.fileActive, page.complete, x = "transcribing", ~v.wasOver
        PROVE  v.pending = <<>> /\ v.sent = Client!Numbers(v.file)
    <3>1. v.captured = v.file
      BY <2>1, <2>4, StateIsSound DEF Held, KnowsFile
    <3>2. /\ v.sent \o v.pending = Client!Numbers(v.captured)
          /\ v.pending = <<>> /\ v.sent \in Seq(Nat)
      BY <2>4, StateIsSound DEF Sound, KeepsFrames, PageSessions
    <3>3. v.sent \o <<>> = v.sent
      BY <3>2, ConcatEmptySeq
    <3> QED
      BY <3>1, <3>2, <3>3
  <2> QED
    BY <1>4, <1>5, <2>1, <2>2, <2>3, <2>4
<1> HIDE DEF t
<1>8. Client!Become([page |-> p, sess |-> [sess EXCEPT ![i] = u], source |-> source])
  BY <1>6 DEF t
<1>9. u.status = "idle" => sess[i].status = "idle"
  BY <1>4
<1> QED
  BY <1>3, <1>4, <1>5, <1>7, <1>8, <1>9, EventMoves

\* The socket of the session that the page has opens.
LEMMA SocketOpensKeeps ==
    ASSUME ClientInv, NEW i \in Client!SessionIds, Client!SocketOpens(i)
    PROVE  ClientInv'
<1> DEFINE s == sess[i]
           v == [s EXCEPT !.socket = "open"]
           x == "spawning-gpu"
           u == [v EXCEPT !.status = x,
                          !.wasOver = v.wasOver \/ x \in {"ended", "failed"}]
           st == [Client!state EXCEPT !.sess[i].socket = "open"]
<1>1. /\ s.socket = "connecting" /\ Client!Become(Client!Status(st, i, x))
      /\ UNCHANGED <<call, overlapped>>
  BY DEF Client!SocketOpens, Client!Event
<1>2. s \in PageSessions /\ KeepsFrames(s)
  BY StateIsSound DEF Sound
<1>3. st = [page |-> page, sess |-> [sess EXCEPT ![i] = v], source |-> source]
  <2> DEFINE y == [Client!state.sess EXCEPT ![i].socket = "open"]
  <2>1. st = [Client!state EXCEPT !.sess = y]
    OBVIOUS
  <2>2. y = [sess EXCEPT ![i] = v]
    BY StateIsSound
  <2> HIDE DEF st, v, y
  <2>3. Client!state = [page |-> page, sess |-> sess, source |-> source]
    BY DEF Client!state
  <2> QED
    BY <2>1, <2>2, <2>3
<1>4. /\ v \in PageSessions /\ v.status = s.status /\ v.wasOver = s.wasOver
      /\ v.stream = s.stream /\ v.worklet = s.worklet
      /\ v.recording = s.recording /\ v.file = s.file
      /\ v.captured = s.captured /\ v.pending = s.pending /\ v.sent = s.sent
      /\ v.socket = "open" /\ v.ready = s.ready /\ v.draining = s.draining
  BY <1>2 DEF PageSessions
<1> HIDE DEF v, st
<1>5. KeepsFrames(u)
  <2>1. /\ u.status = x /\ u.wasOver = v.wasOver /\ u.socket = "open"
        /\ u.ready = v.ready /\ u.draining = v.draining /\ u.pending = v.pending
        /\ u.sent = v.sent /\ u.captured = v.captured /\ u.recording = v.recording
        /\ u.worklet = v.worklet
    BY <1>4 DEF PageSessions
  <2> HIDE DEF u
  <2> QED
    BY <1>2, <1>4, <2>1 DEF KeepsFrames
<1>6. ~overlapped => i = page.session
  BY <1>1, StateIsSound DEF ClientInv, Held, HasAll
<1>7. Client!Become(Client!Status([page |-> page, sess |-> [sess EXCEPT ![i] = v],
                                   source |-> source], i, x))
  BY <1>1, <1>3
<1>8. x \in ClientStatuses \ {"idle"} /\ x # "transcribing"
  BY DEF ClientStatuses
<1> HIDE DEF x
<1> QED
  BY <1>1, <1>4, <1>5, <1>6, <1>7, <1>8, StatusMoves

\* "ready" sends the frames that waited first.
LEMMA ReadyKeeps ==
    ASSUME ClientInv, NEW i \in Client!SessionIds, Client!Ready(i)
    PROVE  ClientInv'
<1> DEFINE s == sess[i]
           v == [s EXCEPT !.ready = TRUE, !.draining = s.pending # <<>>]
           x == Client!StatusWhenReady(s.pending)
           u == [v EXCEPT !.status = x,
                          !.wasOver = v.wasOver \/ x \in {"ended", "failed"}]
           st == [Client!state EXCEPT !.sess[i] =
                    [@ EXCEPT !.ready = TRUE, !.draining = s.pending # <<>>]]
<1>1. /\ s.socket = "open" /\ Client!Become(Client!Status(st, i, x))
      /\ UNCHANGED <<call, overlapped>>
  BY DEF Client!Ready, Client!Event
<1>2. s \in PageSessions /\ KeepsFrames(s)
  BY StateIsSound DEF Sound
<1>3. st = [page |-> page, sess |-> [sess EXCEPT ![i] = v], source |-> source]
  <2> DEFINE y == [Client!state.sess EXCEPT ![i] =
                     [@ EXCEPT !.ready = TRUE, !.draining = s.pending # <<>>]]
  <2>1. st = [Client!state EXCEPT !.sess = y]
    OBVIOUS
  <2>2. y = [sess EXCEPT ![i] = v]
    BY StateIsSound
  <2> HIDE DEF st, v, y
  <2>3. Client!state = [page |-> page, sess |-> sess, source |-> source]
    BY DEF Client!state
  <2> QED
    BY <2>1, <2>2, <2>3
<1>4. /\ v \in PageSessions /\ v.status = s.status /\ v.wasOver = s.wasOver
      /\ v.stream = s.stream /\ v.worklet = s.worklet
      /\ v.recording = s.recording /\ v.file = s.file
      /\ v.captured = s.captured /\ v.pending = s.pending /\ v.sent = s.sent
      /\ v.socket = "open" /\ v.ready = TRUE /\ (v.draining => s.pending # <<>>)
  BY <1>1, <1>2 DEF PageSessions
<1>5. /\ x \in {"transcribing", "catching-up"}
      /\ x = "transcribing" => s.pending = <<>>
  BY DEF Client!StatusWhenReady
<1> HIDE DEF v, st, x
<1>6. KeepsFrames(u)
  <2>1. /\ u.status = x /\ u.wasOver = v.wasOver /\ u.socket = "open"
        /\ u.ready = v.ready /\ u.draining = v.draining /\ u.pending = v.pending
        /\ u.sent = v.sent /\ u.captured = v.captured /\ u.recording = v.recording
        /\ u.worklet = v.worklet
    BY <1>4, <1>5 DEF PageSessions
  <2> HIDE DEF u
  <2> QED
    BY <1>1, <1>2, <1>4, <1>5, <2>1 DEF KeepsFrames
<1>7. ~overlapped => i = page.session
  BY <1>1, StateIsSound DEF ClientInv, Held, HasAll
<1>8. Client!Become(Client!Status([page |-> page, sess |-> [sess EXCEPT ![i] = v],
                                   source |-> source], i, x))
  BY <1>1, <1>3
<1>9. x \in ClientStatuses \ {"idle"}
  BY <1>5 DEF ClientStatuses
<1> QED
  BY <1>1, <1>4, <1>5, <1>6, <1>7, <1>8, <1>9, StatusMoves

\* The server ends the session.
LEMMA ServerEndsKeeps ==
    ASSUME ClientInv, NEW i \in Client!SessionIds, Client!ServerEnds(i)
    PROVE  ClientInv'
<1> DEFINE s == sess[i]
<1>1. PICK x \in {"ended", "failed"} : Client!Become(Client!Status(Client!state, i, x))
  BY DEF Client!ServerEnds, Client!Over
<1>2. s.socket = "open" /\ UNCHANGED <<call, overlapped>>
  BY DEF Client!ServerEnds, Client!Event
<1>3. s \in PageSessions /\ KeepsFrames(s)
  BY StateIsSound DEF Sound
<1> DEFINE u == [s EXCEPT !.status = x, !.wasOver = s.wasOver \/ x \in {"ended", "failed"}]
<1>4. Client!state = [page |-> page, sess |-> [sess EXCEPT ![i] = s], source |-> source]
  <2>1. sess = [sess EXCEPT ![i] = s]
    BY StateIsSound
  <2> HIDE DEF s
  <2> QED
    BY <2>1 DEF Client!state
<1>5. KeepsFrames(u)
  <2>1. /\ u.status = x /\ u.wasOver
        /\ u.ready = s.ready /\ u.draining = s.draining /\ u.pending = s.pending
        /\ u.sent = s.sent /\ u.captured = s.captured /\ u.recording = s.recording
        /\ u.worklet = s.worklet
    BY <1>3 DEF PageSessions
  <2> HIDE DEF u
  <2> QED
    BY <1>3, <2>1 DEF KeepsFrames
<1>6. ~overlapped => i = page.session
  BY <1>2, StateIsSound DEF ClientInv, Held, HasAll
<1>7. Client!Become(Client!Status([page |-> page, sess |-> [sess EXCEPT ![i] = s],
                                   source |-> source], i, x))
  BY <1>1, <1>4
<1>8. x \in ClientStatuses \ {"idle"} /\ x # "transcribing"
  BY DEF ClientStatuses
<1> QED
  BY <1>2, <1>3, <1>5, <1>6, <1>7, <1>8, StatusMoves

\* A socket that closes ends its session, or finds it over.
LEMMA SocketClosesKeeps ==
    ASSUME ClientInv, NEW i \in Client!SessionIds, Client!SocketCloses(i)
    PROVE  ClientInv'
<1> DEFINE s == sess[i]
           v == [s EXCEPT !.socket = "closed", !.draining = FALSE]
           st == [Client!state EXCEPT !.sess[i] =
                    [@ EXCEPT !.socket = "closed", !.draining = FALSE]]
           u == [v EXCEPT !.status = "ended",
                          !.wasOver = v.wasOver \/ "ended" \in {"ended", "failed"}]
<1>1. /\ s.socket \in {"connecting", "open", "closing"}
      /\ Client!Become(Client!End(st, i)) /\ UNCHANGED <<call, overlapped>>
  BY DEF Client!SocketCloses, Client!Event
<1>2. s \in PageSessions /\ KeepsFrames(s)
  BY StateIsSound DEF Sound
<1>3. st = [page |-> page, sess |-> [sess EXCEPT ![i] = v], source |-> source]
  <2> DEFINE y == [Client!state.sess EXCEPT ![i] =
                     [@ EXCEPT !.socket = "closed", !.draining = FALSE]]
  <2>1. st = [Client!state EXCEPT !.sess = y]
    OBVIOUS
  <2>2. y = [sess EXCEPT ![i] = v]
    BY StateIsSound
  <2> HIDE DEF st, v, y
  <2>3. Client!state = [page |-> page, sess |-> sess, source |-> source]
    BY DEF Client!state
  <2> QED
    BY <2>1, <2>2, <2>3
<1>4. /\ v \in PageSessions /\ v.status = s.status /\ v.wasOver = s.wasOver
      /\ v.stream = s.stream /\ v.worklet = s.worklet
      /\ v.recording = s.recording /\ v.file = s.file
      /\ v.captured = s.captured /\ v.pending = s.pending /\ v.sent = s.sent
      /\ v.socket = "closed" /\ v.ready = s.ready /\ v.draining = FALSE
  BY <1>2 DEF PageSessions
<1>5. s.status # "idle" /\ (s.status \in {"ended", "failed"} => s.wasOver)
  BY <1>1, <1>2 DEF KeepsFrames
<1> HIDE DEF v, st
<1>6. st.sess[i] = v
  BY <1>3, StateIsSound
<1>7. CASE s.status \in {"ended", "failed"}
  <2>1. Client!Become([page |-> page, sess |-> [sess EXCEPT ![i] = v], source |-> source])
    BY <1>1, <1>3, <1>4, <1>6, <1>7 DEF Client!End, Client!Over
  <2>2. KeepsFrames(v)
    BY <1>2, <1>4, <1>5, <1>7 DEF KeepsFrames
  <2>3. ASSUME ~overlapped
        PROVE  /\ i # page.session =>
                    /\ v.status \in {"idle", "ended", "failed"}
                    /\ v.socket \notin {"connecting", "open"}
               /\ i = page.session => page.status = v.status
               /\ i = page.session /\ page.grace =>
                    /\ page.fileActive /\ page.complete
                    /\ \/ v.wasOver
                       \/ v.pending = <<>> /\ v.sent = Client!Numbers(v.file)
    <3>1. Held(Client!state) /\ i # 0
      BY <2>3, PageAssumption DEF ClientInv, Client!SessionIds
    <3> QED
      BY <1>4, <1>5, <1>7, <3>1, StateIsSound DEF Held, ShowsStatus, GraceIsEarned
  <2> QED
    BY <1>1, <1>4, <1>5, <2>1, <2>2, <2>3, StateIsSound, EventMoves
<1>8. CASE s.status \notin {"ended", "failed"}
  <2>1. Client!Become(Client!Status([page |-> page, sess |-> [sess EXCEPT ![i] = v],
                                     source |-> source], i, "ended"))
    BY <1>1, <1>3, <1>4, <1>6, <1>8 DEF Client!End, Client!Over
  <2>2. KeepsFrames(u)
    <3>1. /\ u.status = "ended" /\ u.wasOver
          /\ u.ready = v.ready /\ u.draining = v.draining /\ u.pending = v.pending
          /\ u.sent = v.sent /\ u.captured = v.captured /\ u.recording = v.recording
          /\ u.worklet = v.worklet
      BY <1>4 DEF PageSessions
    <3> HIDE DEF u
    <3> QED
      BY <1>2, <1>4, <3>1 DEF KeepsFrames
  <2>3. ~overlapped => i = page.session
    BY <1>5, <1>8, StateIsSound DEF ClientInv, Held, HasAll
  <2>4. "ended" \in ClientStatuses \ {"idle"}
    BY DEF ClientStatuses
  <2> QED
    BY <1>1, <1>4, <2>1, <2>2, <2>3, <2>4, StatusMoves
<1> QED
  BY <1>7, <1>8

\* The timer sends the frames that waited, in order, and then shows "transcribing".
LEMMA ReplayKeeps ==
    ASSUME ClientInv, NEW i \in Client!SessionIds, Client!Replay(i)
    PROVE  ClientInv'
<1> DEFINE s == sess[i]
<1>1. s.draining /\ UNCHANGED <<call, overlapped>>
  BY DEF Client!Replay, Client!Event
<1>2. /\ s \in PageSessions /\ KeepsFrames(s)
      /\ s.pending \in Seq(Nat) /\ s.sent \in Seq(Nat)
  BY StateIsSound DEF Sound, PageSessions
<1>3. s.status # "idle" /\ s.ready /\ (s.status \in {"ended", "failed"} => s.wasOver)
  BY <1>1, <1>2 DEF KeepsFrames
<1>4. ASSUME ~overlapped
      PROVE  /\ i # page.session =>
                  /\ s.status \in {"ended", "failed"}
                  /\ s.socket \notin {"connecting", "open"}
             /\ i = page.session => page.status = s.status
             /\ i = page.session /\ page.grace =>
                  /\ page.fileActive /\ page.complete
                  /\ \/ s.wasOver
                     \/ s.pending = <<>> /\ s.sent = Client!Numbers(s.file)
  <2>1. Held(Client!state) /\ i # 0
    BY <1>4, PageAssumption DEF ClientInv, Client!SessionIds
  <2> QED
    BY <1>3, <2>1, StateIsSound DEF Held, HasAll, ShowsStatus, GraceIsEarned
<1>5. CASE /\ s.pending # <<>>
           /\ sess' = [sess EXCEPT ![i] =
                Client!Transmit([@ EXCEPT !.pending = Tail(s.pending)], Head(s.pending))]
           /\ UNCHANGED <<page, source>>
  <2> DEFINE left == [s EXCEPT !.pending = Tail(s.pending)]
             u == Client!Transmit(left, Head(s.pending))
  <2>1. Head(s.pending) \in Nat /\ Tail(s.pending) \in Seq(Nat)
    BY <1>2, <1>5, HeadTailProperties
  <2>2. /\ left \in PageSessions /\ left.pending = Tail(s.pending)
        /\ left.sent = s.sent /\ left.socket = s.socket
        /\ left.status = s.status /\ left.wasOver = s.wasOver
        /\ left.stream = s.stream /\ left.worklet = s.worklet
        /\ left.recording = s.recording /\ left.file = s.file
        /\ left.captured = s.captured /\ left.ready = s.ready
        /\ left.draining = s.draining
    BY <1>2, <2>1 DEF PageSessions
  <2>3. sess' = [sess EXCEPT ![i] = u]
    <3>1. sess[i] = s
      OBVIOUS
    <3> HIDE DEF s
    <3> QED
      BY <1>5, <3>1, Zenon
  <2> HIDE DEF left
  <2>4. /\ u \in PageSessions /\ u.pending = Tail(s.pending)
        /\ u.sent = IF s.socket = "open" THEN Append(s.sent, Head(s.pending)) ELSE s.sent
        /\ u.socket = s.socket
        /\ u.status = s.status /\ u.wasOver = s.wasOver
        /\ u.stream = s.stream /\ u.worklet = s.worklet
        /\ u.recording = s.recording /\ u.file = s.file
        /\ u.captured = s.captured /\ u.ready = s.ready
        /\ u.draining = s.draining
    <3>1. CASE s.socket = "open"
      <4> DEFINE more == Append(s.sent, Head(s.pending))
      <4>1. more \in Seq(Nat)
        BY <1>2, <2>1
      <4>2. u = [left EXCEPT !.sent = more]
        BY <2>2, <3>1 DEF Client!Transmit
      <4> HIDE DEF more, u
      <4>3. u.sent = more /\ u \in PageSessions
        BY <2>2, <4>1, <4>2 DEF PageSessions
      <4>4. u.sent = Append(s.sent, Head(s.pending))
        BY <4>3 DEF more
      <4> QED
        BY <2>2, <3>1, <4>2, <4>3, <4>4
    <3>2. CASE s.socket # "open"
      <4>1. u = left
        BY <2>2, <3>2 DEF Client!Transmit
      <4> HIDE DEF u
      <4> QED
        BY <2>2, <3>2, <4>1
    <3> QED
      BY <3>1, <3>2
  <2> HIDE DEF u
  <2>5. KeepsFrames(u)
    <3>1. ASSUME ~s.wasOver
          PROVE  /\ u.sent \o u.pending = Client!Numbers(u.captured)
                 /\ s.socket = "open" /\ s.status # "transcribing"
      <4>1. /\ s.socket = "open" /\ s.status # "transcribing"
            /\ s.sent \o s.pending = Client!Numbers(s.captured)
        BY <1>1, <1>2, <1>5, <3>1 DEF KeepsFrames
      <4>2. Append(s.sent, Head(s.pending)) \o Tail(s.pending) = s.sent \o s.pending
        BY <1>2, <1>5, HeadMoves
      <4> QED
        BY <2>4, <4>1, <4>2
    <3> QED
      BY <1>1, <1>2, <1>3, <2>4, <3>1 DEF KeepsFrames
  <2>6. Client!Become([page |-> page, sess |-> [sess EXCEPT ![i] = u], source |-> source])
    BY <1>5, <2>3 DEF Client!Become
  <2>7. ~overlapped =>
          /\ i # page.session =>
               /\ u.status \in {"idle", "ended", "failed"}
               /\ u.socket \notin {"connecting", "open"}
          /\ i = page.session => page.status = u.status
          /\ i = page.session /\ page.grace =>
               /\ page.fileActive /\ page.complete
               /\ u.wasOver \/ (u.pending = <<>> /\ u.sent = Client!Numbers(u.file))
    BY <1>4, <1>5, <2>4
  <2> QED
    BY <1>1, <2>4, <2>5, <2>6, <2>7, StateIsSound, EventMoves
<1>6. CASE /\ s.pending = <<>>
           /\ LET st == [Client!state EXCEPT !.sess[i].draining = FALSE]
              IN  Client!Become(IF s.status = "catching-up"
                                THEN Client!Status(st, i, "transcribing") ELSE st)
  <2> DEFINE v == [s EXCEPT !.draining = FALSE]
             st == [Client!state EXCEPT !.sess[i].draining = FALSE]
             u == [v EXCEPT !.status = "transcribing",
                            !.wasOver = v.wasOver \/ "transcribing" \in {"ended", "failed"}]
  <2>1. st = [page |-> page, sess |-> [sess EXCEPT ![i] = v], source |-> source]
    <3> DEFINE y == [Client!state.sess EXCEPT ![i].draining = FALSE]
    <3>1. st = [Client!state EXCEPT !.sess = y]
      OBVIOUS
    <3>2. y = [sess EXCEPT ![i] = v]
      BY StateIsSound
    <3> HIDE DEF st, v, y
    <3>3. Client!state = [page |-> page, sess |-> sess, source |-> source]
      BY DEF Client!state
    <3> QED
      BY <3>1, <3>2, <3>3
  <2>2. /\ v \in PageSessions /\ v.status = s.status /\ v.wasOver = s.wasOver
        /\ v.stream = s.stream /\ v.worklet = s.worklet
        /\ v.recording = s.recording /\ v.file = s.file
        /\ v.captured = s.captured /\ v.pending = s.pending /\ v.sent = s.sent
        /\ v.socket = s.socket /\ v.ready = s.ready /\ v.draining = FALSE
    BY <1>2 DEF PageSessions
  <2> HIDE DEF v
  <2>3. ASSUME s.status = "catching-up" PROVE ClientInv'
    <3>1. Client!Become(Client!Status([page |-> page, sess |-> [sess EXCEPT ![i] = v],
                                       source |-> source], i, "transcribing"))
      BY <1>6, <2>1, <2>3
    <3>2. KeepsFrames(u)
      <4>1. /\ u.status = "transcribing" /\ u.wasOver = v.wasOver
            /\ u.ready = v.ready /\ u.draining = v.draining /\ u.pending = v.pending
            /\ u.sent = v.sent /\ u.captured = v.captured /\ u.recording = v.recording
            /\ u.worklet = v.worklet /\ u.socket = v.socket
        BY <2>2 DEF PageSessions
      <4> HIDE DEF u
      <4> QED
        BY <1>1, <1>2, <1>3, <1>6, <2>2, <4>1 DEF KeepsFrames
    <3>3. ~overlapped => i = page.session
      BY <1>4, <2>3
    <3>4. "transcribing" \in ClientStatuses \ {"idle"}
      BY DEF ClientStatuses
    <3> QED
      BY <1>1, <1>6, <2>2, <3>1, <3>2, <3>3, <3>4, StatusMoves
  <2>4. ASSUME s.status # "catching-up" PROVE ClientInv'
    <3>1. Client!Become([page |-> page, sess |-> [sess EXCEPT ![i] = v], source |-> source])
      BY <1>6, <2>1, <2>4
    <3>2. KeepsFrames(v)
      BY <1>2, <1>3, <2>2 DEF KeepsFrames
    <3> QED
      BY <1>1, <1>3, <1>4, <2>2, <3>1, <3>2, StateIsSound, EventMoves
  <2> QED
    BY <2>3, <2>4
<1>7. \/ /\ s.pending # <<>>
         /\ sess' = [sess EXCEPT ![i] =
              Client!Transmit([@ EXCEPT !.pending = Tail(s.pending)], Head(s.pending))]
         /\ UNCHANGED <<page, source>>
      \/ /\ s.pending = <<>>
         /\ LET st == [Client!state EXCEPT !.sess[i].draining = FALSE]
            IN  Client!Become(IF s.status = "catching-up"
                              THEN Client!Status(st, i, "transcribing") ELSE st)
  BY Zenon DEF Client!Replay
<1> QED
  BY <1>5, <1>6, <1>7, Zenon

\* A frame goes out, waits, or is lost because its session is over.
LEMMA TakeKeeps ==
    ASSUME NEW s \in PageSessions, KeepsFrames(s), s.status # "idle"
    PROVE  LET u == Client!Take(s)
           IN  /\ u \in PageSessions /\ KeepsFrames(u)
               /\ u.captured = s.captured + 1
               /\ u.status = s.status /\ u.socket = s.socket /\ u.wasOver = s.wasOver
               /\ u.stream = s.stream /\ u.worklet = s.worklet
               /\ u.recording = s.recording /\ u.file = s.file
               /\ s.status = "transcribing" => u.pending = s.pending
<1> DEFINE frame == s.captured + 1
           t == [s EXCEPT !.captured = frame]
           waits == Append(s.pending, frame)
           goes == Append(s.sent, frame)
           u == Client!Take(s)
<1>1. /\ frame \in Nat /\ s.captured \in Nat
      /\ s.pending \in Seq(Nat) /\ s.sent \in Seq(Nat)
      /\ waits \in Seq(Nat) /\ goes \in Seq(Nat)
      /\ s.status \in ClientStatuses
      /\ s.status \in {"ended", "failed"} => s.wasOver
  BY DEF PageSessions, KeepsFrames
<1>2. ~s.wasOver =>
        /\ s.sent \o waits = Client!Numbers(frame)
        /\ s.pending = <<>> => goes \o s.pending = Client!Numbers(frame)
  <2> SUFFICES ASSUME ~s.wasOver
               PROVE  /\ s.sent \o waits = Client!Numbers(frame)
                      /\ s.pending = <<>> => goes \o s.pending = Client!Numbers(frame)
    OBVIOUS
  <2>1. s.sent \o s.pending = Client!Numbers(s.captured)
    BY DEF KeepsFrames
  <2>2. Append(Client!Numbers(s.captured), frame) = Client!Numbers(frame)
    BY <1>1, NumbersGrow
  <2>3. s.sent \o waits = Client!Numbers(frame)
    <3>1. s.sent \o Append(s.pending, frame) = Append(s.sent \o s.pending, frame)
      BY <1>1, FrameWaits
    <3> HIDE DEF frame
    <3> QED
      BY <2>1, <2>2, <3>1
  <2>4. ASSUME s.pending = <<>> PROVE goes \o s.pending = Client!Numbers(frame)
    <3>1. s.sent \o <<>> = s.sent /\ goes \o <<>> = goes
      BY <1>1, ConcatEmptySeq
    <3> QED
      BY <2>1, <2>2, <2>4, <3>1
  <2> QED
    BY <2>3, <2>4
<1>3. /\ t \in PageSessions /\ t.captured = frame
      /\ t.status = s.status /\ t.socket = s.socket /\ t.wasOver = s.wasOver
      /\ t.stream = s.stream /\ t.worklet = s.worklet
      /\ t.recording = s.recording /\ t.file = s.file /\ t.pending = s.pending
      /\ t.sent = s.sent /\ t.ready = s.ready /\ t.draining = s.draining
  BY <1>1 DEF PageSessions
<1>4. /\ s.status \in {"connecting", "spawning-gpu", "catching-up"} =>
           u = [t EXCEPT !.pending = waits]
      /\ s.status = "transcribing" =>
           u = IF s.socket = "open" THEN [t EXCEPT !.sent = goes] ELSE t
      /\ s.status \in {"ended", "failed"} => u = t
  BY <1>3 DEF Client!Take, Client!Transmit, Client!LiveStatuses
<1> HIDE DEF t, waits, goes, u, frame
<1>5. CASE s.status \in {"connecting", "spawning-gpu", "catching-up"}
  <2>1. u = [t EXCEPT !.pending = waits]
    BY <1>4, <1>5
  <2>2. /\ u \in PageSessions /\ u.captured = frame
        /\ u.status = s.status /\ u.socket = s.socket /\ u.wasOver = s.wasOver
        /\ u.stream = s.stream /\ u.worklet = s.worklet
        /\ u.recording = s.recording /\ u.file = s.file /\ u.pending = waits
        /\ u.sent = s.sent /\ u.ready = s.ready /\ u.draining = s.draining
    BY <1>1, <1>3, <2>1 DEF PageSessions
  <2>3. KeepsFrames(u)
    BY <1>1, <1>2, <1>5, <2>2 DEF KeepsFrames
  <2> QED
    BY <1>5, <2>2, <2>3 DEF u, frame
<1>6. CASE s.status = "transcribing" /\ s.socket = "open"
  <2>1. u = [t EXCEPT !.sent = goes]
    BY <1>4, <1>6
  <2>2. /\ u \in PageSessions /\ u.captured = frame
        /\ u.status = s.status /\ u.socket = s.socket /\ u.wasOver = s.wasOver
        /\ u.stream = s.stream /\ u.worklet = s.worklet
        /\ u.recording = s.recording /\ u.file = s.file /\ u.pending = s.pending
        /\ u.sent = goes /\ u.ready = s.ready /\ u.draining = s.draining
    BY <1>1, <1>3, <2>1 DEF PageSessions
  <2>3. KeepsFrames(u)
    BY <1>1, <1>2, <1>6, <2>2 DEF KeepsFrames
  <2> QED
    BY <1>6, <2>2, <2>3 DEF u, frame
<1>7. CASE \/ s.status = "transcribing" /\ s.socket # "open"
           \/ s.status \in {"ended", "failed"}
  <2>1. u = t
    BY <1>4, <1>7
  <2>2. s.wasOver
    BY <1>1, <1>7 DEF KeepsFrames
  <2>3. KeepsFrames(u)
    BY <1>1, <1>3, <1>7, <2>1, <2>2 DEF KeepsFrames
  <2> QED
    BY <1>3, <2>1, <2>3 DEF u, frame
<1> QED
  BY <1>1, <1>5, <1>6, <1>7 DEF ClientStatuses

\* A frame of the source that runs: the last one of a file may begin the grace period.
LEMMA FrameKeeps ==
    ASSUME ClientInv, NEW m \in Client!SourceIds, Client!Frame(m)
    PROVE  ClientInv'
<1> DEFINE i == source[m].of
           s == sess[i]
           u == Client!Take(s)
           last == s.captured + 1 = s.file
           src == [source EXCEPT ![m].runs = @ /\ ~last]
           p == IF last /\ ~page.complete
                THEN [page EXCEPT !.complete = TRUE,
                                  !.grace = @ \/ page.status = "transcribing"]
                ELSE page
           t == [page |-> p, sess |-> [sess EXCEPT ![i] = u], source |-> src]
<1>1. /\ source[m].runs /\ Client!Become(t) /\ UNCHANGED <<call, overlapped>>
  <2>1. sess' = [sess EXCEPT ![i] = u] /\ source' = src /\ page' = p
    BY DEF Client!Frame
  <2>2. source[m].runs /\ UNCHANGED <<call, overlapped>>
    BY DEF Client!Frame, Client!Event
  <2>3. t.page = p /\ t.sess = [sess EXCEPT ![i] = u] /\ t.source = src
    OBVIOUS
  <2> HIDE DEF t
  <2> QED
    BY <2>1, <2>2, <2>3 DEF Client!Become
<1>2. /\ i \in Client!SessionIds /\ i # 0 /\ source[m] \in FrameSources
      /\ m # 0 /\ s.status # "idle"
  BY <1>1, PageAssumption, StateIsSound
     DEF Sound, FrameSources, Client!SessionIds, Client!SourceIds
<1>3. s \in PageSessions /\ KeepsFrames(s)
  BY <1>2, StateIsSound DEF Sound
<1>4. /\ p \in Pages /\ p.session = page.session /\ p.fileActive = page.fileActive
      /\ p.status = page.status
      /\ p.complete = (page.complete \/ last)
      /\ p.grace => page.grace \/ (last /\ page.status = "transcribing")
  BY StateIsSound DEF Pages
<1>5. /\ src \in [Client!SourceIds -> FrameSources]
      /\ src[m].of = i /\ src[m].on = source[m].on /\ src[m].runs = ~last
      /\ \A n \in Client!SourceIds : n # m => src[n] = source[n]
  <2> DEFINE w == [source[m] EXCEPT !.runs = source[m].runs /\ ~last]
  <2>1. w \in FrameSources /\ w.of = i /\ w.on = source[m].on /\ w.runs = ~last
    BY <1>1, <1>2 DEF FrameSources
  <2>2. src = [source EXCEPT ![m] = w]
    OBVIOUS
  <2> HIDE DEF w, src
  <2> QED
    BY <2>1, <2>2, StateIsSound
<1> HIDE DEF i
<1>6. /\ u \in PageSessions /\ KeepsFrames(u)
      /\ u.captured = s.captured + 1
      /\ u.status = s.status /\ u.socket = s.socket /\ u.wasOver = s.wasOver
      /\ u.stream = s.stream /\ u.worklet = s.worklet
      /\ u.recording = s.recording /\ u.file = s.file
      /\ s.status = "transcribing" => u.pending = s.pending
  BY <1>2, <1>3, TakeKeeps
<1>7. t.page = p /\ t.sess = [sess EXCEPT ![i] = u] /\ t.source = src
  OBVIOUS
<1> HIDE DEF u, p, src
<1>8. Sound(t) /\ Follows(Client!state, t)
  <2>1. \A n \in Client!SourceIds :
          /\ src[n].on \/ src[n].runs => src[n].of # 0
          /\ src[n].of = source[n].of
    BY <1>2, <1>5, StateIsSound DEF Sound, i
  <2> QED
    BY <1>2, <1>3, <1>4, <1>5, <1>6, <2>1, StateIsSound, SessionChanges
<1> HIDE DEF t
<1>9. /\ t.sess[i] = u
      /\ \A j \in Client!SessionIds : j # i => t.sess[j] = sess[j]
  BY <1>2, <1>7, StateIsSound
<1>10. ASSUME ~overlapped
       PROVE  Held(t) /\ page.session = i
  <2>1. Held(Client!state)
    BY <1>10 DEF ClientInv
  <2>2. page.session = i /\ s.worklet = m
    BY <1>1, <2>1, StateIsSound DEF Held, HasAll, i
  <2>3. \A n \in Client!SourceIds : src[n].runs => n = m /\ ~last
    <3> TAKE n \in Client!SourceIds
    <3>1. n # m => ~source[n].runs
      BY <2>1, <2>2, StateIsSound DEF Held, HasAll
    <3> QED
      BY <1>5, <3>1
  <2>4. HasAll(t)
    <3>1. \A j \in Client!SessionIds :
            j # t.page.session =>
               /\ t.sess[j].status \in {"idle", "ended", "failed"}
               /\ t.sess[j].socket \notin {"connecting", "open"}
               /\ t.sess[j].stream = 0 /\ t.sess[j].worklet = 0
      BY <1>4, <1>7, <1>9, <2>1, <2>2, StateIsSound DEF Held, HasAll
    <3>2. ASSUME NEW n \in Client!SourceIds, t.source[n].on
          PROVE  t.page.session = t.source[n].of /\ t.sess[t.source[n].of].stream = n
      <4>1. source[n].on /\ t.source[n].of = source[n].of
        BY <1>5, <1>7, <3>2 DEF i
      <4>2. page.session = source[n].of /\ sess[source[n].of].stream = n
        BY <2>1, <4>1, StateIsSound DEF Held, HasAll
      <4> QED
        BY <1>4, <1>6, <1>7, <1>9, <2>2, <4>1, <4>2
    <3>3. ASSUME NEW n \in Client!SourceIds, t.source[n].runs
          PROVE  t.page.session = t.source[n].of /\ t.sess[t.source[n].of].worklet = n
      BY <1>4, <1>5, <1>6, <1>7, <1>9, <2>2, <2>3, <3>3
    <3> QED
      BY <3>1, <3>2, <3>3 DEF HasAll
  <2>5. ShowsStatus(t)
    BY <1>4, <1>6, <1>7, <1>9, <2>1, <2>2, StateIsSound DEF Held, ShowsStatus
  <2>6. /\ page.fileActive <=> s.file # 0
        /\ page.fileActive /\ page.complete => s.captured = s.file
        /\ s.file # 0 => s.captured < s.file
        /\ s.captured \in Nat /\ s.file \in Nat
    <3>1. s.captured \in Nat /\ s.file \in Nat
      BY <1>3 DEF PageSessions
    <3>2. KnowsFile(Client!state)
      BY <2>1 DEF Held
    <3>3. /\ page.fileActive <=> s.file # 0
          /\ page.fileActive /\ page.complete => s.captured = s.file
      BY <1>2, <2>2, <3>2, StateIsSound DEF KnowsFile
    <3>4. s.file # 0 => s.captured < s.file
      BY <1>1, <3>2, StateIsSound DEF KnowsFile, i
    <3> QED
      BY <3>1, <3>3, <3>4
  <2>7. KnowsFile(t)
    <3>1. ASSUME NEW n \in Client!SourceIds, t.source[n].runs,
                 t.sess[t.source[n].of].file # 0
          PROVE  t.sess[t.source[n].of].captured < t.sess[t.source[n].of].file
      <4>1. t.source[n].of = i /\ ~last
        BY <1>5, <1>7, <2>3, <3>1
      <4> QED
        <5>1. t.sess[t.source[n].of] = u
          BY <1>9, <4>1
        <5>2. u.file # 0
          BY <3>1, <5>1
        <5>3. s.file # 0 /\ s.captured < s.file /\ s.captured + 1 # s.file
          BY <1>6, <2>6, <4>1, <5>2
        <5>4. u.captured < u.file
          BY <1>6, <2>6, <5>3
        <5> QED
          BY <5>1, <5>4
    <3>2. ASSUME p.fileActive, p.complete PROVE u.captured = u.file
      <4>1. page.fileActive /\ (page.complete \/ last)
        BY <1>4, <3>2, Zenon
      <4>2. ~page.complete
        BY <2>6, <4>1
      <4> QED
        BY <1>6, <4>1, <4>2
    <3>3. p.fileActive <=> u.file # 0
      BY <1>4, <1>6, <2>6
    <3> QED
      BY <1>2, <1>4, <1>7, <1>9, <2>2, <3>1, <3>2, <3>3 DEF KnowsFile
  <2>8. GraceIsEarned(t)
    <3>1. ~page.grace
      BY <2>1, <2>2, <2>6, StateIsSound DEF Held, GraceIsEarned
    <3>2. ASSUME p.grace
          PROVE  /\ p.fileActive /\ p.complete
                 /\ u.wasOver \/ (u.pending = <<>> /\ u.sent = Client!Numbers(u.file))
      <4>1. last /\ page.status = "transcribing"
        BY <1>4, <3>1, <3>2
      <4>2. s.status = "transcribing" /\ page.fileActive
        BY <1>2, <2>1, <2>2, <2>6, <4>1, StateIsSound DEF Held, ShowsStatus
      <4>3. ASSUME ~u.wasOver
            PROVE  u.pending = <<>> /\ u.sent = Client!Numbers(u.file)
        <5>1. u.pending = <<>> /\ u.sent \o u.pending = Client!Numbers(u.captured)
          BY <1>6, <4>2, <4>3 DEF KeepsFrames
        <5>2. u.sent \o <<>> = u.sent
          <6>1. u.sent \in Seq(Nat)
            BY <1>6 DEF PageSessions
          <6> QED
            BY <6>1, ConcatEmptySeq
        <5>3. u.captured = u.file
          BY <1>6, <4>1
        <5> QED
          BY <5>1, <5>2, <5>3
      <4> QED
        BY <1>4, <4>1, <4>2, <4>3
    <3> QED
      BY <1>4, <1>7, <1>9, <2>2, <3>2 DEF GraceIsEarned
  <2> QED
    BY <2>2, <2>4, <2>5, <2>7, <2>8 DEF Held
<1>11. \A j \in Client!SessionIds :
         /\ t.sess[j].stream = sess[j].stream
         /\ t.sess[j].recording = sess[j].recording
         /\ t.sess[j].file = sess[j].file
  BY <1>6, <1>9
<1> QED
  BY <1>1, <1>2, <1>4, <1>7, <1>8, <1>10, <1>11, EventKeeps

-----------------------------------------------------------------------------
(* The invariant of the live page.                                         *)

\* Nothing is open at first.
LEMMA InitEstablishesClientInv == Client!Init => ClientInv
<1> SUFFICES ASSUME Client!Init PROVE ClientInv
  OBVIOUS
<1> DEFINE none == Client!NoSession
<1>1. /\ none \in PageSessions /\ none.status = "idle" /\ none.socket = "none"
      /\ none.stream = 0 /\ none.worklet = 0
  <2>1. 0 \in 0 .. MaxSources
    BY PageAssumption
  <2>2. <<>> \in Seq(Nat)
    OBVIOUS
  <2> QED
    BY <2>1, <2>2 DEF Client!NoSession, PageSessions, ClientStatuses
<1>2. KeepsFrames(none)
  <2>1. <<>> \o <<>> = Client!Numbers(0)
    BY DEF Client!Numbers
  <2> QED
    BY <2>1 DEF Client!NoSession, KeepsFrames
<1>3. /\ page \in Pages /\ page.session = 0 /\ ~page.fileActive /\ ~page.grace
      /\ ~page.complete
  <2>1. 0 \in 0 .. MaxSessions
    BY PageAssumption
  <2> QED
    BY <2>1 DEF Client!Init, Pages, ClientStatuses
<1>4. sess = [j \in Client!SessionIds |-> none]
  BY DEF Client!Init
<1> HIDE DEF none
<1>5. /\ source \in [Client!SourceIds -> FrameSources]
      /\ \A m \in Client!SourceIds :
           source[m].of = 0 /\ ~source[m].on /\ ~source[m].runs
  <2>1. 0 \in 0 .. MaxSessions
    BY PageAssumption
  <2> QED
    BY <2>1 DEF Client!Init, Client!NoSource, FrameSources
<1>6. /\ call \in [Client!Calls -> PageCalls] /\ ~overlapped /\ overlapped \in BOOLEAN
      /\ \A c \in Client!Calls : call[c].at = "idle"
  <2>1. 0 \in 0 .. MaxSessions /\ 0 \in 0 .. MaxSources
    BY PageAssumption
  <2> QED
    BY <2>1 DEF Client!Init, Client!NoCall, PageCalls
<1>7. Client!state.page = page /\ Client!state.sess = sess /\ Client!state.source = source
  BY DEF Client!state
<1>8. Client!state \in Views
  BY <1>1, <1>3, <1>4, <1>5 DEF Views, Client!state
<1>9. Sound(Client!state)
  BY <1>1, <1>2, <1>3, <1>4, <1>5, <1>7, <1>8 DEF Sound
<1>10. Held(Client!state)
  BY <1>1, <1>3, <1>4, <1>5, <1>7
     DEF Held, HasAll, ShowsStatus, KnowsFile, GraceIsEarned
<1> QED
  BY <1>1, <1>4, <1>6, <1>9, <1>10 DEF ClientInv, CallIsSound, CallIsHeld

\* Every step of the page keeps the invariant.
LEMMA NextKeepsClientInv == ClientInv /\ [Client!Next]_clientVars => ClientInv'
<1> SUFFICES ASSUME ClientInv, [Client!Next]_clientVars PROVE ClientInv'
  OBVIOUS
<1>1. ASSUME NEW c \in Client!Calls,
             \/ Client!ClickSession(c) \/ Client!ClickMic(c) \/ Client!ClickFile(c)
             \/ Client!GraceEnds(c) \/ Client!MicGranted(c) \/ Client!MicRefused(c)
             \/ Client!WorkletStarted(c) \/ Client!WorkletFails(c)
             \/ Client!PauseDone(c) \/ Client!StopDone(c) \/ Client!DecodeFails(c)
             \/ \E length \in 1 .. MaxFrames : Client!Decoded(c, length)
      PROVE  ClientInv'
  BY <1>1, ClickSessionKeeps, ClickMicKeeps, ClickFileKeeps, GraceEndsKeeps,
     MicGrantedKeeps, MicRefusedKeeps, WorkletStartedKeeps, WorkletFailsKeeps,
     PauseDoneKeeps, StopDoneKeeps, DecodeFailsKeeps, DecodedKeeps
<1>2. ASSUME NEW i \in Client!SessionIds,
             \/ Client!SocketOpens(i) \/ Client!SocketCloses(i) \/ Client!Ready(i)
             \/ Client!ServerEnds(i) \/ Client!Replay(i)
      PROVE  ClientInv'
  BY <1>2, SocketOpensKeeps, SocketClosesKeeps, ReadyKeeps, ServerEndsKeeps, ReplayKeeps
<1>3. ASSUME NEW m \in Client!SourceIds, Client!Frame(m)
      PROVE  ClientInv'
  BY <1>3, FrameKeeps
<1>4. CASE UNCHANGED clientVars
  <2>1. UNCHANGED <<page, sess, source, call, overlapped>>
    BY <1>4 DEF clientVars
  <2>2. Client!state' = Client!state
    BY <2>1 DEF Client!state
  <2> QED
    BY <2>1, <2>2 DEF ClientInv
<1> QED
  BY <1>1, <1>2, <1>3, <1>4 DEF Client!Next

\* The invariant gives both properties.
LEMMA ClientInvKeepsAudio == ClientInv => AudioIsKept
<1> SUFFICES ASSUME ClientInv, NEW i \in Client!SessionIds
             PROVE  /\ sess[i].status \in Client!LiveStatuses /\ ~sess[i].wasOver =>
                         sess[i].sent \o sess[i].pending
                           = Client!Numbers(sess[i].captured)
                    /\ sess[i].sent # <<>> => sess[i].ready
  BY DEF AudioIsKept, Client!AudioIsKept
<1>1. KeepsFrames(sess[i])
  BY StateIsSound DEF Sound
<1> QED
  BY <1>1 DEF KeepsFrames

\* And what is open can be ended from the page.
LEMMA ClientInvIsInControl == ClientInv => PageIsInControl
<1> SUFFICES ASSUME ClientInv, ~overlapped
             PROVE  Client!SocketsAreHeld /\ Client!MicsAreHeld /\ Client!FileIsWhole
  BY DEF PageIsInControl, Client!PageIsInControl
<1>1. Held(Client!state)
  BY DEF ClientInv
<1>2. Client!SocketsAreHeld
  BY <1>1, StateIsSound DEF Held, HasAll, Client!SocketsAreHeld
<1>3. Client!MicsAreHeld
  <2> SUFFICES ASSUME ~Client!Busy, NEW m \in Client!SourceIds, source[m].on
               PROVE  /\ page.session = source[m].of
                      /\ sess[source[m].of].recording
                      /\ sess[source[m].of].stream = m
    BY DEF Client!MicsAreHeld
  <2>1. /\ page.session = source[m].of /\ sess[source[m].of].stream = m
        /\ source[m].of \in Client!SessionIds /\ m # 0
    BY <1>1, StateIsSound, PageAssumption
       DEF Held, HasAll, Sound, FrameSources, Client!SessionIds, Client!SourceIds
  <2>2. \A c \in Client!Calls : call[c].at = "idle"
    BY DEF Client!Busy
  <2>3. sess[source[m].of].recording
    BY <2>1, <2>2 DEF ClientInv
  <2> QED
    BY <2>1, <2>3
<1>4. Client!FileIsWhole
  BY <1>1, StateIsSound DEF Held, KnowsFile, GraceIsEarned, Client!FileIsWhole
<1> QED
  BY <1>2, <1>3, <1>4

-----------------------------------------------------------------------------
(* The components side by side.                                            *)

\* A step of Records is a step of each of its components, or leaves it alone.
LEMMA StepsAreOfTheComponents ==
    [RecordsNext]_recordsVars =>
        /\ [Notice!Next]_notificationVars
        /\ [Summary!Next]_summaryVars
        /\ [Portal!Next]_portalVars
        /\ [Admin!AdminNext]_adminVars
        /\ [Client!Next]_clientVars
BY DEF RecordsNext, recordsVars, ListingStep, ManagerStep, AdminStep, SummaryStep,
       NoticeStep, PortalStep, ClientStep

\* NoticeInv holds in every reachable state of Records.
LEMMA NoticeInvHolds == RecordsSpec => []NoticeInv
BY InitEstablishesNoticeInv, NextKeepsNoticeInv, StepsAreOfTheComponents, PTL
   DEF RecordsSpec, RecordsInit

\* The record notification keeps is never better than what happened: a message recorded
\* as sent was taken by its target, and none was taken more often than it says it was
\* tried, whatever the targets answer and whichever answers are lost.
THEOREM SendsAreTruthfullyRecorded == RecordsSpec => []RecordsAreTrue
BY NoticeInvHolds, PTL DEF NoticeInv

\* SummaryInv holds in every reachable state of Records.
LEMMA SummaryInvHolds == RecordsSpec => []SummaryInv
BY InitEstablishesSummaryInv, NextKeepsSummaryInv, StepsAreOfTheComponents, PTL
   DEF RecordsSpec, RecordsInit

\* A reader of summarization meets no row without its object and no row with another
\* request's object, as long as no two requests wrote, or wrote and read, in between.
THEOREM ReadersMeetWholeSummaries == RecordsSpec => []SummariesAreWhole
BY SummaryInvHolds, PTL DEF SummaryInv

\* PortalInv holds in every reachable state of Records.
LEMMA PortalInvHolds == RecordsSpec => []PortalInv
BY InitEstablishesPortalInv, NextKeepsPortalInv, StepsAreOfTheComponents, PTL
   DEF RecordsSpec, RecordsInit

\* billing-api's portal opens for the customer who paid, unless a portal request was
\* half done then, and portal requests that do not overlap share one customer.
THEOREM PortalFindsItsCustomer == RecordsSpec => []CustomersAreFound
BY PortalInvHolds, PortalInvFindsCustomers, PTL DEF PortalInv

\* AdminInv holds in every reachable state of Records.
LEMMA AdminInvHolds == RecordsSpec => []AdminInv
BY InitEstablishesAdminInv, NextKeepsAdminInv, StepsAreOfTheComponents, PTL
   DEF RecordsSpec, RecordsInit

\* When admin-api reports a user blocked, the sessions it found have ended and stay so,
\* unless a request of the owner wrote in between; and of the operators who flagged a
\* record, one saw it active.
THEOREM OperatorsAreToldTheTruth == RecordsSpec => []ReportsAreTrue
BY AdminInvHolds, AdminInvReportsTruly, PTL DEF AdminInv

\* ClientInv holds in every reachable state of Records.
LEMMA ClientInvHolds == RecordsSpec => []ClientInv
BY InitEstablishesClientInv, NextKeepsClientInv, StepsAreOfTheComponents, PTL
   DEF RecordsSpec, RecordsInit

\* Until a session of the live page is over, each frame captured for it has been sent or
\* waits, in the order of capture and once, and nothing is sent before "ready", whatever
\* the order of clicks, timers, socket and audio events.
THEOREM PageKeepsEveryFrame == RecordsSpec => []AudioIsKept
BY ClientInvHolds, ClientInvKeepsAudio, PTL

\* Unless two calls of the live page were pending at once, every open socket is that of
\* the session the page can end, a microphone is on only for a session that records, and
\* a file's grace period begins when the file was sent whole.
THEOREM PageStaysInControl == RecordsSpec => []PageIsInControl
BY ClientInvHolds, ClientInvIsInControl, PTL
=============================================================================
