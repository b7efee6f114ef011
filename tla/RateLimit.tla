------------------------------ MODULE RateLimit ------------------------------
(***************************************************************************)
(* Rate limiting of the submission endpoints.  With Redis the replicas of  *)
(* the API share one counter per tenant and window; a request first reads  *)
(* the clock and then runs the script that counts it, and time passes in   *)
(* between.  With the memory backend every request builds a limiter of its *)
(* own, as build_rate_limiter(settings).allow(tenant_id) does.             *)
(***************************************************************************)
EXTENDS Integers, Sequences, FiniteSets

CONSTANTS
  Requests, Tenants,
  Backends,           \* which of "redis" and "memory" is configured
  Limit, Window,      \* rate_limit_per_minute, window_seconds
  MaxTime,            \* bound: the clock stops here
  None

Verdicts == {"admitted", "refused"}
Buckets == 0 .. MaxTime \div Window

ASSUME RateAssumption ==
  /\ IsFiniteSet(Requests) /\ Backends \subseteq {"redis", "memory"}
  /\ Limit \in Nat \ {0} /\ Window \in Nat \ {0} /\ MaxTime \in Nat
  /\ None \notin Tenants \cup Verdicts \cup Int

VARIABLES
  backend,                      \* RATE_LIMIT_BACKEND; never changes
  now,                          \* the time, in the unit of the window
  tenant, stamp,                \* of each request: who asks, the clock it read
  verdict, decidedAt,           \* of each request: its answer and when the limiter gave it
  count, expires,               \* Redis: value and expiry of each key; 0 is no key
  events                        \* memory: the times admitted by each limiter

asked == <<tenant, stamp>>
answered == <<verdict, decidedAt>>
keys == <<count, expires>>
vars == <<backend, now, asked, answered, keys, events>>

Init ==
  /\ backend \in Backends
  /\ now = 0
  /\ tenant = [r \in Requests |-> None] /\ stamp = [r \in Requests |-> None]
  /\ verdict = [r \in Requests |-> None] /\ decidedAt = [r \in Requests |-> None]
  /\ count = [k \in Tenants \X Buckets |-> 0] /\ expires = [k \in Tenants \X Buckets |-> 0]
  /\ events = [r \in Requests |-> <<>>]

-----------------------------------------------------------------------------
\* allow: time.time() or time.monotonic().
ReadClock(r, t) ==
  /\ stamp[r] = None
  /\ tenant' = [tenant EXCEPT ![r] = t]
  /\ stamp' = [stamp EXCEPT ![r] = now]
  /\ UNCHANGED <<backend, now, answered, keys, events>>

Pending(r) == stamp[r] # None /\ verdict[r] = None

\* Faulty variants, named Bad..., stand before the definition they alter.
Answer(r, admit) ==
  /\ verdict' = [verdict EXCEPT ![r] = IF admit THEN "admitted" ELSE "refused"]
  /\ decidedAt' = [decidedAt EXCEPT ![r] = now]

BadKey(r) == <<CHOOSE t \in Tenants : TRUE, stamp[r] \div Window>>
Key(r) == <<tenant[r], stamp[r] \div Window>>
BadLifetime == IF Window > 1 THEN Window - 1 ELSE Window
Lifetime == Window
First(current) == current = 1

\* The script: INCR, EXPIRE if the key is new, and the comparison of its result.
CountInRedis(r) ==
  LET k == Key(r)
      current == count[k] + 1 IN
  /\ backend = "redis" /\ Pending(r)
  /\ count' = [count EXCEPT ![k] = current]
  /\ expires' = IF First(current) THEN [expires EXCEPT ![k] = now + Lifetime] ELSE expires
  /\ Answer(r, current <= Limit)
  /\ UNCHANGED <<backend, now, asked, events>>

\* Each handler builds its limiter, so no two requests share one.
LimiterOf(r) == r
\* popleft while the oldest is not after the cutoff.
Recent(s, cutoff) ==
  IF \E n \in DOMAIN s : s[n] > cutoff
  THEN SubSeq(s, CHOOSE n \in DOMAIN s : s[n] > cutoff /\ \A m \in 1 .. n - 1 : s[m] <= cutoff, Len(s))
  ELSE <<>>

\* RateLimiter.allow under its lock.
CountInProcess(r) ==
  LET recent == Recent(events[LimiterOf(r)], stamp[r] - Window)
      admit == Len(recent) < Limit IN
  /\ backend = "memory" /\ Pending(r)
  /\ events' = [events EXCEPT ![LimiterOf(r)] = IF admit THEN Append(recent, stamp[r]) ELSE recent]
  /\ Answer(r, admit)
  /\ UNCHANGED <<backend, now, asked, keys>>

\* Time passes, and Redis drops the keys whose time has come.
Tick ==
  /\ now < MaxTime
  /\ now' = now + 1
  /\ count' = [k \in DOMAIN count |-> IF expires[k] = now' THEN 0 ELSE count[k]]
  /\ UNCHANGED <<backend, asked, answered, expires, events>>

Next ==
  \/ \E r \in Requests, t \in Tenants : ReadClock(r, t)
  \/ \E r \in Requests : CountInRedis(r) \/ CountInProcess(r)
  \/ Tick

Spec == Init /\ [][Next]_vars

-----------------------------------------------------------------------------
TypeOK ==
  /\ backend \in Backends /\ now \in 0 .. MaxTime
  /\ tenant \in [Requests -> Tenants \cup {None}]
  /\ stamp \in [Requests -> (0 .. MaxTime) \cup {None}]
  /\ verdict \in [Requests -> Verdicts \cup {None}]
  /\ decidedAt \in [Requests -> (0 .. MaxTime) \cup {None}]
  /\ count \in [Tenants \X Buckets -> 0 .. Cardinality(Requests)]
  /\ expires \in [Tenants \X Buckets -> 0 .. MaxTime + Window]
  /\ events \in [Requests -> Seq(0 .. MaxTime)]

Admitted(S) == {r \in S : verdict[r] = "admitted"}
Asking(t, b) == {r \in Requests : tenant[r] = t /\ stamp[r] # None /\ stamp[r] \div Window = b}
OnTime(r) == decidedAt[r] # None /\ decidedAt[r] \div Window = stamp[r] \div Window

\* A window admits at most the limit of a tenant's requests that are counted before it is
\* over; those still under way when it ends are late, and may find the key expired.
WindowHolds ==
  backend = "redis" => \A t \in Tenants, b \in Buckets :
    Cardinality({r \in Admitted(Asking(t, b)) : OnTime(r)}) <= Limit

\* Whatever happens to a request, its key is not counted for ever: a key that holds a count
\* has an expiry still to come, no further away than a window.
KeysExpire == \A k \in DOMAIN count : count[k] # 0 => expires[k] \in now + 1 .. now + Window

\* Nobody is refused for the sake of others or of the past: the limit was used up by the
\* tenant's own requests in the same window, within the life of the key.
RefusalIsEarned ==
  \A r \in Requests : verdict[r] = "refused" =>
    Cardinality({q \in Admitted(Asking(tenant[r], stamp[r] \div Window)) :
                   decidedAt[q] > decidedAt[r] - Window /\ decidedAt[q] <= decidedAt[r]}) >= Limit

-----------------------------------------------------------------------------
(* What the tests say, and the code does not do.                              *)

\* tests/unit/test_rate_limit.py: the memory limiter enforces the limit of the window.
MemoryWindowHolds ==
  backend = "memory" => \A t \in Tenants, s \in 0 .. MaxTime :
    Cardinality({r \in Requests : /\ tenant[r] = t /\ verdict[r] = "admitted"
                                  /\ stamp[r] \in s .. s + Window - 1}) <= Limit
=============================================================================
