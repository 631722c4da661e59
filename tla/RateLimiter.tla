------------------------------ MODULE RateLimiter ----------------------------
(***************************************************************************)
(* The two limiters of core/ratelimit.py for one key, in whole seconds.    *)
(* The one in memory keeps the times of the hits it let through; the one   *)
(* in Redis a counter, which expires a window after the last attempt,      *)
(* admitted or not.  A client makes every attempt at both, so that what    *)
(* they let through can be compared.                                       *)
(***************************************************************************)
EXTENDS Integers, Sequences, FiniteSets

CONSTANTS Limit, Window,
          Waits,          \* how long a client may wait before the next attempt
          MaxAttempts     \* bound: attempts of a behaviour

ASSUME LimiterAssumption ==
    /\ Limit \in Nat \ {0} /\ Window \in Nat \ {0}
    /\ Waits \subseteq Nat /\ MaxAttempts \in Nat

VARIABLES elapsed, attempts,
          hits, counter,  \* what the limiters keep: the bucket, the key of Redis
          memory, redis   \* the times at which each let the client in
limiterVars == <<elapsed, attempts, hits, counter, memory, redis>>

-----------------------------------------------------------------------------
NoHits == {}
\* Times are distinct: two hits of one second are two members <<second, n>>.
InWindow(bucket, now) == {h \in bucket : h[1] > now - Window}
SameSecond(bucket, second) == {h \in bucket : h[1] = second}

MemoryAllows(bucket, now) == Cardinality(InWindow(bucket, now)) < Limit

MemoryHit(bucket, now) ==
    InWindow(bucket, now) \cup
        (IF MemoryAllows(bucket, now)
         THEN {<<now, Cardinality(SameSecond(InWindow(bucket, now), now))>>} ELSE {})

First(bucket) == CHOOSE h \in bucket : \A g \in bucket : h[1] <= g[1]
MemoryRetryAfter(bucket, now) ==
    IF bucket = {} \/ First(bucket)[1] + Window < now THEN 0
    ELSE First(bucket)[1] + Window - now

NoKey == [count |-> 0, expires |-> 0]

\* Mutant: the expiry is only set when the counter starts.
RedisHitOnce(key, now) ==
    IF now >= key.expires THEN [count |-> 1, expires |-> now + Window]
    ELSE [key EXCEPT !.count = @ + 1]
\* INCR and EXPIRE in one pipeline.
RedisHit(key, now) ==
    [count |-> 1 + IF now >= key.expires THEN 0 ELSE key.count, expires |-> now + Window]

RedisAllows(key, now) == RedisHit(key, now).count <= Limit

RedisRetryAfter(key, now) == IF now >= key.expires THEN Window ELSE key.expires - now

-----------------------------------------------------------------------------
LimiterInit ==
    /\ elapsed = 0 /\ attempts = 0
    /\ hits = NoHits /\ counter = NoKey
    /\ memory = << >> /\ redis = << >>

\* The same attempt at both limiters; the times they let somebody in are kept.
Attempt(now) ==
    /\ attempts < MaxAttempts
    /\ elapsed' = now /\ attempts' = attempts + 1
    /\ hits' = MemoryHit(hits, now)
    /\ memory' = IF MemoryAllows(hits, now) THEN Append(memory, now) ELSE memory
    /\ counter' = RedisHit(counter, now)
    /\ redis' = IF RedisAllows(counter, now) THEN Append(redis, now) ELSE redis

LimiterNext == \E wait \in Waits : Attempt(elapsed + wait)

LimiterSpec == LimiterInit /\ [][LimiterNext]_limiterVars

-----------------------------------------------------------------------------
\* What the limiters and the ghost histories hold, with their sizes: the bucket
\* never keeps more than the limit, and each history has at most one entry an attempt.
LimiterTypeOK ==
    /\ elapsed \in Nat /\ attempts \in 0..MaxAttempts
    /\ hits \in SUBSET (Nat \X Nat) /\ IsFiniteSet(hits) /\ Cardinality(hits) <= Limit
    /\ counter \in [count : Nat, expires : Nat]
    /\ memory \in Seq(Nat) /\ redis \in Seq(Nat)

\* Any Limit + 1 admissions in a row take at least a window.
Apart(times) ==
    \A i \in DOMAIN times : i + Limit \in DOMAIN times => times[i + Limit] - times[i] >= Window

\* Wherever a window begins, neither limiter lets more than the limit in; the one in
\* Redis, whose window every attempt renews, lets in nobody the other would not; and
\* who makes no attempt for as long as he was told to wait is let in by both (allow,
\* retry_after).
WindowsHold ==
    /\ Apart(memory) /\ Apart(redis)
    /\ \A wait \in 0..Window : RedisAllows(counter, elapsed + wait) => MemoryAllows(hits, elapsed + wait)
    /\ MemoryAllows(hits, elapsed + MemoryRetryAfter(hits, elapsed))
    /\ RedisAllows(counter, elapsed + RedisRetryAfter(counter, elapsed))

-----------------------------------------------------------------------------
(* Why: the parts of the inductive invariant.                              *)

\* Nothing the limiters remember lies in the future.
Past ==
    /\ \A i \in DOMAIN memory : memory[i] <= elapsed
    /\ \A i \in DOMAIN redis : redis[i] <= elapsed
    /\ \A h \in hits : h[1] <= elapsed

\* The members of one second are numbered without a gap at the end, so that the
\* next one is new.
Numbered == \A h \in hits : h[2] < Cardinality(SameSecond(hits, h[1]))

\* The bucket accounts for every admission that is still in the window.
Accounted ==
    \A i \in DOMAIN memory, t \in elapsed..(elapsed + Window) :
        memory[i] > t - Window => Cardinality(InWindow(hits, t)) > Len(memory) - i

\* The key outlives whatever was let in, and counts at least what the bucket keeps.
Outlived ==
    /\ \A i \in DOMAIN redis : redis[i] + Window <= counter.expires
    /\ \A h \in hits : h[1] + Window <= counter.expires
    /\ Cardinality(hits) <= counter.count

\* What was let in before the key began to count is a window old.
Counted ==
    \A i \in DOMAIN redis :
        (i + counter.count <= Len(redis) \/ i + Limit <= Len(redis)) => redis[i] + Window <= elapsed

LimiterInv ==
    LimiterTypeOK /\ Past /\ Numbered /\ Accounted /\ Outlived /\ Counted /\ Apart(memory) /\ Apart(redis)
=============================================================================
