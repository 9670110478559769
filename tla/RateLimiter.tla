------------------------------- MODULE RateLimiter -------------------------------
(***************************************************************************)
(* RateLimitMiddleware of middleware-lib, for one key, over either store:  *)
(* a deque in the process, whose hit runs without an await, or a sorted    *)
(* set in Redis, where a hit takes its timestamp first and its pipeline is *)
(* executed later.  An instant of the clock is one microsecond, the        *)
(* precision of the member a hit adds to the set.                          *)
(***************************************************************************)
EXTENDS Naturals, Sequences, FiniteSets

CONSTANTS
    Callers,
    Limit,     \* requests_per_minute
    Window,    \* window_seconds
    Second,    \* a second
    MaxDelay,  \* how long a pipeline is under way
    MaxClock,  \* bound: the clock
    MaxHits    \* bound: requests answered

VARIABLES
    now,
    bucket,    \* InMemoryStore._buckets[key]
    zset,      \* the sorted set: its members are their scores
    zexpiry,   \* when Redis drops the key
    stamp,     \* the timestamp of a Redis hit not yet executed, 0 if none
    answers    \* history: store, timestamp and verdict of each request

vars == <<now, bucket, zset, zexpiry, stamp, answers>>

Init ==
    /\ now = 1
    /\ bucket = <<>> /\ zset = {} /\ zexpiry = 0
    /\ stamp = [c \in Callers |-> 0]
    /\ answers = <<>>

Tick ==
    /\ now < MaxClock
    /\ \A c \in Callers : stamp[c] # 0 => now < stamp[c] + MaxDelay
    /\ now' = now + 1
    /\ UNCHANGED <<bucket, zset, zexpiry, stamp, answers>>

\* A faulty variant: the request at hand is not counted.
CountOthers(count) == count <= Limit + 1

\* dispatch: the count includes the request itself.
Admits(count) == count <= Limit

\* A request is answered: admitted, or 429 with the time until the oldest
\* timestamp in the window leaves it, a second more, and at least one.
Answer(store, at, count, oldest) ==
    /\ Len(answers) < MaxHits
    /\ answers' = Append(answers,
         [store |-> store, at |-> at, admitted |-> Admits(count),
          retry |-> IF Admits(count) THEN 0 ELSE oldest + Window + Second])

\* Both stores drop what is as old as the window.
Outside(at, t) == t + Window <= at

\* InMemoryStore.hit: n timestamps leave at the left, up to the first one that is in
\* the window, and the new one enters at the right.
MemoryHit ==
    /\ \E n \in 0 .. Len(bucket) :
         /\ \A i \in 1 .. n : Outside(now, bucket[i])
         /\ n < Len(bucket) => ~Outside(now, bucket[n + 1])
         /\ bucket' = Append(SubSeq(bucket, n + 1, Len(bucket)), now)
    /\ Answer("memory", now, Len(bucket'), Head(bucket'))
    /\ UNCHANGED <<now, zset, zexpiry, stamp>>

\* RedisStore.hit up to the await of the pipeline.
RedisStamp(c) ==
    /\ stamp[c] = 0
    /\ stamp' = [stamp EXCEPT ![c] = now]
    /\ UNCHANGED <<now, bucket, zset, zexpiry, answers>>

\* The pipeline, a transaction: trim, add, read the oldest, count, set the expiry.
\* A member that is there already is not added again.
RedisExecute(c) ==
    /\ stamp[c] # 0
    /\ LET at == stamp[c]
           live == IF zexpiry <= now THEN {} ELSE zset
           kept == {t \in live : ~Outside(at, t)}
       IN  /\ zset' = kept \cup {at}
           /\ Answer("redis", at, Cardinality(zset'),
                     CHOOSE t \in zset' : \A u \in zset' : t <= u)
    /\ zexpiry' = now + Window + Second
    /\ stamp' = [stamp EXCEPT ![c] = 0]
    /\ UNCHANGED <<now, bucket>>

Next ==
    \/ Tick
    \/ MemoryHit
    \/ \E c \in Callers : RedisStamp(c) \/ RedisExecute(c)

Spec == Init /\ [][Next]_vars

-----------------------------------------------------------------------------
(* Properties.                                                             *)

AdmittedWithin(store, last) ==
    {i \in DOMAIN answers :
        /\ answers[i].store = store /\ answers[i].admitted
        /\ answers[i].at \in (last - Window + 1) .. last}

Redis == {i \in DOMAIN answers : answers[i].store = "redis"}
Collided == \E i, j \in Redis : i # j /\ answers[i].at = answers[j].at
Overtaken == \E i, j \in Redis : i < j /\ answers[i].at > answers[j].at

\* No window holds more admitted requests than the budget; in Redis this takes
\* that no two hits had one timestamp, that none overtook another, and that none was
\* under way for longer than the second by which the key outlives the window.
BudgetHolds ==
    \A last \in 1 .. now :
        /\ Cardinality(AdmittedWithin("memory", last)) <= Limit
        /\ ~Collided /\ ~Overtaken /\ MaxDelay <= Second =>
             Cardinality(AdmittedWithin("redis", last)) <= Limit

-----------------------------------------------------------------------------
(* What docs and comments say, and the code does not do.                   *)

\* "two hits within the same second do not collide on member id".
RedisHitsAreDistinct ==
    \A i, j \in Redis : i # j => answers[i].at # answers[j].at

\* "the number of seconds until the next slot opens": a client that comes back
\* then is admitted.  Refused requests take slots, too, so it may be refused.
RetryAfterSuffices ==
    \A i, j \in DOMAIN answers :
        /\ i < j /\ answers[i].store = "memory" /\ answers[j].store = "memory"
        /\ ~answers[i].admitted
        /\ \A k \in DOMAIN answers : k > i => answers[k].at >= answers[i].retry
        /\ j = i + 1
        => answers[j].admitted
=============================================================================
