---------------------------- MODULE RateLimiter ----------------------------
(***************************************************************************)
(* The limit on one client's requests: a sliding window kept in Redis for  *)
(* all processes, and a token bucket in each process for when Redis does   *)
(* not answer.                                                             *)
(*                                                                         *)
(*   utility/auth/redis_rate_limiter.go   slidingWindowScript, Allow       *)
(*   utility/auth/rate_limiter.go         CheckRateLimit, Allow, cleanup   *)
(*                                                                         *)
(* Time goes in ticks.  Each process reads its own clock, and the script   *)
(* takes the time from its caller.  A token is worth Window units and a    *)
(* tick refills Rate of them, so that the refill of a fraction of a token  *)
(* is a number.  Clients have keys and buckets of their own: one is enough.*)
(* Redis keeps a request as a member made of its time and a random suffix; *)
(* a suffix may come twice, and two requests of one time then are one      *)
(* member.                                                                 *)
(***************************************************************************)
EXTENDS Naturals, FiniteSets

CONSTANTS
  Processes,
  Rate,        \* auth.rate_limit_per_minute
  Capacity,    \* auth.rate_limit_burst
  Window,      \* a minute, in ticks
  Suffixes,    \* what math.random may give
  IdleLimit,   \* ten minutes, in ticks
  MaxSkew,     \* how far a process's clock may be ahead
  MaxTime      \* bound: the last tick

ASSUME RatesAssumption == {Rate, Capacity, Window} \subseteq Nat \ {0}
ASSUME TimesAssumption == {IdleLimit, MaxSkew, MaxTime} \subseteq Nat

\* The default limits: a bucket is full again long before it is idle.
ASSUME IdleAssumption == IdleLimit * Rate >= Capacity * Window

VARIABLES
  now,       \* the time that passes
  skew,      \* how far each process's clock is ahead of it
  useRedis,  \* the backend each process chose at its first request
  redisUp,   \* Redis answers
  zset,      \* the members Redis keeps
  bucket,    \* each process's token bucket
  granted,   \* history: the members Redis granted, with the time they came
  spent      \* history: what each process's bucket granted since each time

rlVars == <<now, skew, useRedis, redisUp, zset, bucket, granted, spent>>

Times == 0..MaxTime

Member == [time : Nat, suffix : Suffixes]

NoBucket == [tokens |-> 0, last |-> 0, exists |-> FALSE]

Clock(p) == now + skew[p]

----------------------------------------------------------------------------
(* The sliding window, one atomic script *)

Expired(m, time) == m.time + Window <= time

Pruned(time) == {m \in zset : ~Expired(m, time)}

BelowLimitM(count) == count <= Rate
BelowLimit(count) == count < Rate

\* The script at a time given by its caller.  The key expires a window after
\* its last grant on the server's clock, which is left out: of a caller whose
\* clock is ahead it may forget a grant that Pruned would keep a little longer.
\* No bound depends on it: two grants in one stretch of SharedLimit are less
\* than a window apart on any clock, so neither of the two forgets the first.
RedisGrants(time) == BelowLimit(Cardinality(Pruned(time)))

RunScript(m) ==
  zset' = Pruned(m.time) \cup (IF RedisGrants(m.time) THEN {m} ELSE {})

----------------------------------------------------------------------------
(* The token bucket *)

Min2(a, b) == IF a < b THEN a ELSE b

Refilled(b, time) == Min2(b.tokens + (time - b.last) * Rate, Capacity * Window)

Enough(tokens) == tokens >= Window

Tokens(p) == IF bucket[p].exists THEN Refilled(bucket[p], Clock(p))
             ELSE Capacity * Window

TouchedM(p) == bucket[p].last
Touched(p) == Clock(p)

TakeToken(p) ==
  /\ bucket' = [bucket EXCEPT ![p] =
       [tokens |-> IF Enough(Tokens(p)) THEN Tokens(p) - Window ELSE Tokens(p),
        last |-> Touched(p), exists |-> TRUE]]
  /\ spent' = IF Enough(Tokens(p))
              THEN [spent EXCEPT ![p] =
                     [t \in Times |-> IF t <= now THEN @[t] + 1 ELSE @[t]]]
              ELSE spent

----------------------------------------------------------------------------
(* CheckRateLimit *)

\* The first request of a process settles its backend for good.
ChooseBackend(p) ==
  /\ useRedis[p] = "unknown"
  /\ useRedis' = [useRedis EXCEPT ![p] = IF redisUp THEN "yes" ELSE "no"]
  /\ UNCHANGED <<now, skew, redisUp, zset, bucket, granted, spent>>

CheckInRedis(p) ==
  /\ useRedis[p] = "yes"
  /\ redisUp
  /\ \E s \in Suffixes :
       LET m == [time |-> Clock(p), suffix |-> s] IN
       /\ RunScript(m)
       /\ granted' = IF RedisGrants(m.time)
                     THEN granted \cup {[at |-> now, member |-> m]}
                     ELSE granted
  /\ UNCHANGED <<now, skew, useRedis, redisUp, bucket, spent>>

\* Redis fails, with the script run or not run: the bucket decides.
CheckInMemory(p) ==
  /\ \/ useRedis[p] = "no" /\ UNCHANGED zset
     \/ useRedis[p] = "yes" /\ ~redisUp /\ UNCHANGED zset
     \/ /\ useRedis[p] = "yes" /\ ~redisUp
        /\ \E s \in Suffixes : RunScript([time |-> Clock(p), suffix |-> s])
  /\ TakeToken(p)
  /\ UNCHANGED <<now, skew, useRedis, redisUp, granted>>

IdleBucket(p) == Clock(p) > bucket[p].last + IdleLimit

Cleanup(p) ==
  /\ bucket[p].exists
  /\ IdleBucket(p)
  /\ bucket' = [bucket EXCEPT ![p] = NoBucket]
  /\ UNCHANGED <<now, skew, useRedis, redisUp, zset, granted, spent>>

----------------------------------------------------------------------------

Tick ==
  /\ now < MaxTime
  /\ now' = now + 1
  /\ UNCHANGED <<skew, useRedis, redisUp, zset, bucket, granted, spent>>

RedisFlips ==
  /\ redisUp' = ~redisUp
  /\ UNCHANGED <<now, skew, useRedis, zset, bucket, granted, spent>>

RlInit ==
  /\ now = 0
  /\ skew \in [Processes -> 0..MaxSkew]
  /\ useRedis = [p \in Processes |-> "unknown"]
  /\ redisUp = TRUE
  /\ zset = {}
  /\ bucket = [p \in Processes |-> NoBucket]
  /\ granted = {}
  /\ spent = [p \in Processes |-> [t \in Times |-> 0]]

RlNext ==
  \/ \E p \in Processes :
       ChooseBackend(p) \/ CheckInRedis(p) \/ CheckInMemory(p) \/ Cleanup(p)
  \/ Tick
  \/ RedisFlips

RlSpec == RlInit /\ [][RlNext]_rlVars

----------------------------------------------------------------------------
(* Properties *)

\* The members Redis granted from time t on, for Window - MaxSkew ticks.
GrantedIn(t) ==
  {g.member : g \in {h \in granted : t <= h.at /\ h.at + MaxSkew < t + Window}}

\* The shared limit: whichever processes a client's requests reach, and
\* however far their clocks are apart up to MaxSkew, Redis grants at most
\* Rate of them that it can tell apart in any stretch of Window - MaxSkew
\* ticks.
SharedLimit == \A t \in 0..now : Cardinality(GrantedIn(t)) <= Rate

\* The fallback's limit: over any stretch of time a process's bucket grants
\* no more than its capacity and what flows in meanwhile, clean-ups included.
BurstLimit ==
  \A p \in Processes : \A t \in 0..now :
    spent[p][t] * Window <= Capacity * Window + (now - t) * Rate

=============================================================================
