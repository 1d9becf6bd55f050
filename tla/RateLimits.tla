----------------------------- MODULE RateLimits -----------------------------
(***************************************************************************)
(* How often a caller may ask: RateLimitMiddleware over RedisCache          *)
(* .increment, with the stand-in a process keeps in its memory when it      *)
(* finds no Redis at its start.                                             *)
(*                                                                         *)
(* A caller is the user AuthMiddleware found, or an address; a request that *)
(* it refused does not come here.  Both increments of a request are made    *)
(* without an await.  Time is in half seconds.                              *)
(***************************************************************************)
EXTENDS Integers

CONSTANTS
    Callers,
    Processes,
    Limits,       \* rate_limit_per_minute and _hour, by window
    Lengths,      \* of the windows, in half seconds
    LastMoment,   \* bound: the clock
    MaxCounted,   \* bound: requests of a caller
    MaxRestarts   \* bound: processes started again

Windows == {"minute", "hour"}

ASSUME RateLimitsAssumption ==
    /\ "redis" \notin Processes
    /\ Limits \in [Windows -> Nat \ {0}] /\ Limits["minute"] <= Limits["hour"]
    /\ Lengths \in [Windows -> {2 * n : n \in 1..1800}]
    /\ LastMoment \in Nat /\ MaxCounted \in Nat /\ MaxRestarts \in Nat

VARIABLES
    rtNow,       \* the clock
    rtInMemory,  \* processes without a Redis
    rtCount,     \* the counters of the windows, in Redis and in each process's memory
    rtRestarts,  \* history: processes started again
    rtSent,      \* history: requests of a caller
    rtPassed     \* history: requests let through in a window, by cache and caller

rtVars == <<rtNow, rtInMemory, rtCount, rtRestarts, rtSent, rtPassed>>

Caches  == {"redis"} \cup Processes
NoCount == [i \in Callers |-> [w \in Windows |-> [bucket |-> 0, n |-> 0, until |-> 0]]]

RtTypeOK ==
    /\ rtNow \in 0..LastMoment /\ rtInMemory \subseteq Processes /\ rtRestarts \in 0..MaxRestarts
    /\ rtSent \in [Callers -> 0..MaxCounted]
    /\ \A c \in Caches, i \in Callers, w \in Windows :
          /\ rtCount[c][i][w].n \in 0..MaxCounted /\ rtPassed[c][i][w].n \in 0..MaxCounted
          /\ rtCount[c][i][w].bucket \in 0..LastMoment /\ rtPassed[c][i][w].bucket \in 0..LastMoment

RtInit ==
    /\ rtNow = 0 /\ rtInMemory = {} /\ rtRestarts = 0
    /\ rtCount = [c \in Caches |-> NoCount] /\ rtPassed = [c \in Caches |-> NoCount]
    /\ rtSent = [i \in Callers |-> 0]

CacheOf(r) == IF r \in rtInMemory THEN r ELSE "redis"

Bucket(w) == rtNow \div Lengths[w]

(* _window_key's ttl: in whole seconds to the window's end, and one more.    *)
WindowTtl(w) == Lengths[w] - (((rtNow \div 2) * 2) % Lengths[w]) + 2

(* The window's counter after one more: incr and expire.  The key names the  *)
(* window, and the model forgets the counters of older ones.                 *)
OneMore(count, w, ttl) ==
    [bucket |-> Bucket(w), until |-> rtNow + ttl,
     n |-> IF count.bucket = Bucket(w) /\ count.until > rtNow THEN count.n + 1 ELSE 1]

(* The other way: a counter lives until the window's last second has begun.  *)
IncrementedBriefly(count, w) == OneMore(count, w, WindowTtl(w) - 4)

Incremented(count, w) == OneMore(count, w, WindowTtl(w))

(* RateLimitMiddleware.dispatch: a request is counted in both windows before *)
(* it is compared, so that refused ones count as well.                       *)
Counted(r, i) ==
    LET c == CacheOf(r)
        count == [w \in Windows |-> Incremented(rtCount[c][i][w], w)]
    IN  /\ rtSent[i] < MaxCounted /\ rtSent' = [rtSent EXCEPT ![i] = @ + 1]
        /\ rtCount' = [rtCount EXCEPT ![c][i] = count]
        /\ rtPassed' = IF \E w \in Windows : count[w].n > Limits[w] THEN rtPassed
                       ELSE [rtPassed EXCEPT ![c][i] = [w \in Windows |->
                              [bucket |-> Bucket(w), until |-> 0,
                               n |-> IF @[w].bucket = Bucket(w) THEN @[w].n + 1 ELSE 1]]]
        /\ UNCHANGED <<rtNow, rtInMemory, rtRestarts>>

(* Redis raises after some of the increments: the request passes.            *)
Uncounted(r, i) ==
    /\ r \notin rtInMemory /\ rtSent[i] < MaxCounted /\ rtSent' = [rtSent EXCEPT ![i] = @ + 1]
    /\ \E made \in {{}, {"minute"}, Windows} :
          rtCount' = [rtCount EXCEPT !["redis"][i] = [w \in Windows |-> IF w \in made THEN Incremented(@[w], w) ELSE @[w]]]
    /\ UNCHANGED <<rtNow, rtInMemory, rtRestarts, rtPassed>>

(* RedisCache._build_client: whether there is a Redis is found out once, at  *)
(* the start; what was in memory is gone.                                    *)
Restart(r) ==
    /\ rtRestarts < MaxRestarts /\ rtRestarts' = rtRestarts + 1
    /\ rtInMemory' \in {rtInMemory \ {r}, rtInMemory \cup {r}}
    /\ rtCount' = [rtCount EXCEPT ![r] = NoCount] /\ rtPassed' = [rtPassed EXCEPT ![r] = NoCount]
    /\ UNCHANGED <<rtNow, rtSent>>

RtTick == rtNow < LastMoment /\ rtNow' = rtNow + 1 /\ UNCHANGED <<rtInMemory, rtCount, rtRestarts, rtSent, rtPassed>>

RtNext ==
    \/ \E r \in Processes : Restart(r) \/ \E i \in Callers : Counted(r, i) \/ Uncounted(r, i)
    \/ RtTick

-----------------------------------------------------------------------------

(* No window lets more requests of a caller through than its limit, as far   *)
(* as one cache counts them: whatever the moments they come at, and although *)
(* the counters expire.                                                      *)
WindowsHold ==
    \A c \in Caches, i \in Callers, w \in Windows : rtPassed[c][i][w].n <= Limits[w]
=============================================================================
