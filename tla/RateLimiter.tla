---------------------------- MODULE RateLimiter -----------------------------
(***************************************************************************)
(* The per-client token buckets (server/rate_limit.rs), the sweeper that   *)
(* forgets idle clients and the SIGHUP loop that replaces the limiter      *)
(* (server/listen.rs).                                                     *)
(*                                                                         *)
(* A token is worth Minute units and a bucket gains `rpm` units per tick,  *)
(* so the arithmetic is exact where the code uses floating point.  The     *)
(* wall clock, which dates buckets for eviction, is taken to advance       *)
(* with the monotonic one, which refills them.                             *)
(***************************************************************************)
EXTENDS Integers, Sequences, FiniteSets

CONSTANTS
  Addresses,   \* client addresses
  Configs,     \* the (rpm, burst) pairs a configuration file may hold
  Minute,      \* 60_000 ms, the units of one token
  MaxRpm,      \* MAX_RPM
  EvictAfter,  \* age at which the sweeper forgets a bucket (300 s)
  MaxBuckets,  \* MAX_BUCKETS
  Sample,      \* buckets looked at to make room for a new one (100)
  Lag,         \* bound: how long a check waits for the lock of the map
  MaxTime      \* bound on the clock

ASSUME LimiterAssumption ==
  /\ Configs \subseteq [rpm : Nat, burst : Nat]
  /\ Minute \in Nat \ {0} /\ MaxRpm \in Nat \ {0} /\ EvictAfter \in Nat
  /\ MaxBuckets \in Nat \ {0} /\ Sample \in Nat \ {0} /\ Lag \in Nat /\ MaxTime \in Nat

VARIABLES
  now,        \* milliseconds
  limits,     \* the live RuntimeLimits
  installed,  \* the limiter layer exists: the rate was not 0 at boot
  limiter,    \* effective rate and burst of the live limiter
  buckets,    \* its map: address -> [tokens, last_refill, last_seen_ms]
  grants      \* history: the date of its bucket each time a client was let
              \* through, since it was last forgotten to make room or the
              \* limiter was replaced

limiterVars == <<now, limits, installed, limiter, buckets, grants>>

Lesser(a, b) == IF a < b THEN a ELSE b
Greater(a, b) == IF a > b THEN a ELSE b

\* RateLimiter::new clamps both numbers.
Effective(c) == [rpm |-> Greater(1, Lesser(c.rpm, MaxRpm)), burst |-> Greater(1, c.burst)]

Bucket == [tokens : Nat, refilled : Nat, seen : Nat]
Full == limiter.burst * Minute

LimiterTypeOK ==
  /\ now \in Nat /\ limits \in Configs /\ installed \in BOOLEAN
  /\ limiter \in [rpm : Nat \ {0}, burst : Nat \ {0}]
  /\ DOMAIN buckets \subseteq Addresses
  /\ \A ip \in DOMAIN buckets : buckets[ip] \in Bucket
  /\ grants \in [Addresses -> Seq(Nat)]

LimiterInit ==
  /\ now = 0
  /\ limits \in Configs
  /\ installed = (limits.rpm > 0)
  /\ limiter = Effective(limits)
  /\ buckets = <<>>
  /\ grants = [ip \in Addresses |-> <<>>]

----------------------------------------------------------------------------
\* TokenBucket::try_consume, by a check that read the time t: one that waited
\* for the lock may come after a later one, and then refills nothing.
Elapsed(b, t) == Greater(0, t - b.refilled)

\* Mutant: an idle bucket fills up beyond its burst.
RefillOver(b, t) == [tokens   |-> b.tokens + Elapsed(b, t) * limiter.rpm,
                     refilled |-> Greater(b.refilled, t), seen |-> t]

Refill(b, t) == [tokens   |-> IF t > b.refilled
                              THEN Lesser(b.tokens + Elapsed(b, t) * limiter.rpm, Full)
                              ELSE b.tokens,
                 refilled |-> Greater(b.refilled, t), seen |-> t]

Passes(b, t) == Refill(b, t).tokens >= Minute

TryConsume(b, t) == LET r == Refill(b, t)
                    IN IF Passes(b, t) THEN [r EXCEPT !.tokens = @ - Minute] ELSE r

Fresh(t) == [tokens |-> Full, refilled |-> t, seen |-> t]

\* evict_one: the stalest of some Sample buckets; the order of the map is
\* arbitrary.
Evictable == {v \in DOMAIN buckets : \E S \in SUBSET DOMAIN buckets :
                /\ Cardinality(S) = Lesser(Sample, Cardinality(DOMAIN buckets))
                /\ v \in S
                /\ \A u \in S : buckets[v].seen <= buckets[u].seen}

With(f, ip, b) == [x \in DOMAIN f \cup {ip} |-> IF x = ip THEN b ELSE f[x]]
Without(f, S) == [x \in DOMAIN f \ S |-> f[x]]

Grant(g, ip, b) == [g EXCEPT ![ip] = Append(@, b.refilled)]

\* rate_limit_middleware -> RateLimiter::check: the time is read, then the lock
\* of the map is taken for the rest.
CheckKnown(ip, t) ==
  /\ installed /\ ip \in DOMAIN buckets
  /\ LET b == TryConsume(buckets[ip], t)
     IN /\ buckets' = [buckets EXCEPT ![ip] = b]
        /\ grants' = IF Passes(buckets[ip], t) THEN Grant(grants, ip, b) ELSE grants
  /\ UNCHANGED <<now, limits, installed, limiter>>

CheckNew(ip, t) ==
  /\ installed /\ ip \notin DOMAIN buckets
  /\ LET b == TryConsume(Fresh(t), t)
     IN \/ /\ Cardinality(DOMAIN buckets) < MaxBuckets
           /\ buckets' = With(buckets, ip, b)
           /\ grants' = Grant(grants, ip, b)
        \/ /\ Cardinality(DOMAIN buckets) >= MaxBuckets
           /\ \E v \in Evictable :
                /\ buckets' = With(Without(buckets, {v}), ip, b)
                /\ grants' = Grant([grants EXCEPT ![v] = <<>>], ip, b)
  /\ UNCHANGED <<now, limits, installed, limiter>>

\* evict_stale, from the background task.
Stale == {ip \in DOMAIN buckets : buckets[ip].seen < Greater(0, now - EvictAfter)}

EvictStale ==
  /\ installed /\ Stale # {}
  /\ buckets' = Without(buckets, Stale)
  /\ UNCHANGED <<now, limits, installed, limiter, grants>>

\* SIGHUP: the limiter is replaced, with all its buckets, when its numbers
\* changed and it is still wanted.
ReloadLimits(c) ==
  /\ limits' = c
  /\ IF installed /\ c # limits /\ c.rpm > 0
     THEN /\ limiter' = Effective(c) /\ buckets' = <<>>
          /\ grants' = [ip \in Addresses |-> <<>>]
     ELSE UNCHANGED <<limiter, buckets, grants>>
  /\ UNCHANGED <<now, installed>>

LimiterTick == /\ now < MaxTime /\ now' = now + 1
               /\ UNCHANGED <<limits, installed, limiter, buckets, grants>>

LimiterNext == \/ \E ip \in Addresses, t \in Greater(0, now - Lag)..now :
                    CheckKnown(ip, t) \/ CheckNew(ip, t)
               \/ EvictStale \/ LimiterTick
               \/ \E c \in Configs : ReloadLimits(c)

LimiterSpec == LimiterInit /\ [][LimiterNext]_limiterVars

----------------------------------------------------------------------------
\* Whoever is idle for long enough to be forgotten has a full bucket again, even
\* if his last checks, and the next one, waited for the lock.
Amnesty == limiter.burst * Minute <= (EvictAfter + 1 - 2 * Lag) * limiter.rpm

\* Between any two requests that `check` lets through, and counting both, a
\* client gets at most its burst and what the rate yields in between, across
\* refills, refusals, checks that overtake each other on the way to the lock,
\* and stale buckets forgotten by `evict_stale` (if a bucket fills up within
\* that time).
RateHolds ==
  Amnesty => \A ip \in Addresses : \A i, j \in DOMAIN grants[ip] :
    i <= j => (j - i + 1) * Minute
                <= limiter.burst * Minute + (grants[ip][j] - grants[ip][i]) * limiter.rpm
=============================================================================
