--------------------------- MODULE RateLimitProofs ---------------------------
(***************************************************************************)
(* The rate limiter for any number of requests and tenants, any limit and  *)
(* any window.                                                             *)
(***************************************************************************)
EXTENDS RateLimit, FiniteSetTheorems, SequenceTheorems, TLAPS

Keys == Tenants \X Buckets
Smaller(x, y) == IF x < y THEN x ELSE y

\* The requests of a key: counted so far, admitted in time, admitted
\* since some time.
Counted(k) == {r \in Asking(k[1], k[2]) : verdict[r] # None}
Timely(k) == {r \in Admitted(Asking(k[1], k[2])) : OnTime(r)}
AdmittedSince(k, s) == {r \in Admitted(Asking(k[1], k[2])) : decidedAt[r] >= s}

\* The values of the variables, without the bound on count.
Typed ==
  /\ backend \in Backends /\ now \in 0 .. MaxTime
  /\ tenant \in [Requests -> Tenants \cup {None}]
  /\ stamp \in [Requests -> (0 .. MaxTime) \cup {None}]
  /\ verdict \in [Requests -> Verdicts \cup {None}]
  /\ decidedAt \in [Requests -> (0 .. MaxTime) \cup {None}]
  /\ count \in [Keys -> Nat] /\ expires \in [Keys -> 0 .. MaxTime + Window]
  /\ events \in [Requests -> Seq(0 .. MaxTime)]

\* A request reads the clock before it is counted; until then its own limiter is empty.
Clocked ==
  \A r \in Requests :
    /\ stamp[r] # None => stamp[r] <= now /\ tenant[r] \in Tenants
    /\ verdict[r] # None => stamp[r] # None /\ decidedAt[r] # None /\ decidedAt[r] <= now
    /\ verdict[r] = None => decidedAt[r] = None /\ events[r] = <<>>

\* A live key has an expiry to come, and admitted up to the limit since it was set.
LiveKeys ==
  \A k \in Keys : count[k] # 0 =>
    /\ backend = "redis" /\ expires[k] \in now + 1 .. now + Window
    /\ \A s \in Int : s = expires[k] - Window =>
         Cardinality(AdmittedSince(k, s)) >= Smaller(count[k], Limit)

\* The key of the window that runs has counted all its requests and outlives the window;
\* an older one may have expired, a later one does not exist.
KeysCount ==
  \A k \in Keys :
    /\ count[k] <= Cardinality(Counted(k))
    /\ now \div Window = k[2] /\ backend = "redis" =>
         count[k] = Cardinality(Counted(k)) /\ (count[k] # 0 => expires[k] \div Window > k[2])
    /\ now \div Window < k[2] => count[k] = 0

RateInv == Typed /\ Clocked /\ LiveKeys /\ KeysCount /\ WindowHolds /\ RefusalIsEarned
-----------------------------------------------------------------------------
(* Arithmetic of windows                                                      *)

\* Later times are in the same window or a later one.
LEMMA WindowsAdvance ==
  ASSUME NEW x \in Nat, NEW y \in Nat, x <= y
  PROVE  x \div Window \in Nat /\ y \div Window \in Nat /\ x \div Window <= y \div Window
<1> DEFINE p == x \div Window
           q == y \div Window
<1>1. /\ p \in Nat /\ q \in Nat /\ Window * p <= x /\ y < Window * q + Window
  BY RateAssumption, SMTT(30)
<1> HIDE DEF p, q
<1>2. p < q + 1
  <2> SUFFICES ASSUME p >= q + 1 PROVE FALSE
    BY <1>1
  <2>1. Window * p >= Window * (q + 1) /\ Window * (q + 1) = Window * q + Window
    BY <1>1, RateAssumption, SMTT(30)
  <2>2. Window * p \in Nat /\ Window * q \in Nat
    BY <1>1, RateAssumption
  <2> QED BY <1>1, <2>1, <2>2, RateAssumption
<1>3. p \in Nat /\ q \in Nat /\ p <= q
  BY <1>1, <1>2
<1> QED BY <1>3 DEF p, q

\* A window later is the next window.
LEMMA NextWindow ==
  ASSUME NEW x \in Nat
  PROVE  (x + Window) \div Window > x \div Window
<1> DEFINE p == x \div Window
           q == (x + Window) \div Window
<1>1. p \in Nat /\ q \in Nat /\ Window * p <= x /\ x + Window < Window * q + Window
  BY RateAssumption, SMTT(30)
<1> HIDE DEF p, q
<1>2. q > p
  <2> SUFFICES ASSUME q <= p PROVE FALSE
    BY <1>1
  <2>1. Window * q <= Window * p
    BY <1>1, RateAssumption, SMTT(30)
  <2>2. Window * p \in Nat /\ Window * q \in Nat
    BY <1>1, RateAssumption
  <2> QED BY <1>1, <2>1, <2>2, RateAssumption
<1> QED BY <1>2 DEF p, q

-----------------------------------------------------------------------------
(* Sets of requests                                                           *)

LEMMA RequestsAreFinite ==
  ASSUME NEW S \in SUBSET Requests
  PROVE  IsFiniteSet(S) /\ Cardinality(S) \in Nat /\ Cardinality(S) <= Cardinality(Requests)
BY RateAssumption, FS_Subset, FS_CardinalityType

\* The key of a request that has read the clock, and who is counted under it.
LEMMA PendingKey ==
  ASSUME RateInv, NEW r \in Requests, Pending(r)
  PROVE  /\ Key(r) \in Keys /\ Key(r)[2] <= now \div Window
         /\ stamp[r] \in Nat /\ now \in Nat /\ stamp[r] <= now /\ tenant[r] \in Tenants
         /\ r \in Asking(Key(r)[1], Key(r)[2]) /\ r \notin Counted(Key(r))
         /\ \A k \in Keys : r \in Asking(k[1], k[2]) => k = Key(r)
<1>1. /\ stamp[r] \in 0 .. MaxTime /\ tenant[r] \in Tenants /\ stamp[r] <= now
      /\ now \in 0 .. MaxTime /\ verdict[r] = None
  BY DEF RateInv, Typed, Clocked, Pending
<1>2. /\ stamp[r] \div Window \in Nat /\ stamp[r] \div Window <= now \div Window
      /\ stamp[r] \div Window <= MaxTime \div Window /\ MaxTime \div Window \in Nat
  BY <1>1, WindowsAdvance, RateAssumption
<1>3. Key(r) = <<tenant[r], stamp[r] \div Window>> /\ Key(r) \in Keys
  BY <1>1, <1>2 DEF Key, Keys, Buckets
<1>4. \A k \in Keys : k = <<k[1], k[2]>>
  BY DEF Keys
<1> QED BY <1>1, <1>2, <1>3, <1>4 DEF Pending, Asking, Counted

\* Who was admitted within a window before r was answered.
Earners(r) ==
  {q \in Admitted(Asking(tenant[r], stamp[r] \div Window)) :
     decidedAt[q] > decidedAt[r] - Window /\ decidedAt[q] <= decidedAt[r]}

\* An answer adds its request to the sets of its key, and to no other.
LEMMA AnswerCounts ==
  ASSUME RateInv, NEW r \in Requests, Pending(r), NEW admit \in BOOLEAN, Answer(r, admit),
         UNCHANGED <<tenant, stamp, now>>, NEW k \in Keys, k = Key(r)
  PROVE  /\ \A l \in Keys \ {k} :
              /\ Counted(l)' = Counted(l) /\ Timely(l)' = Timely(l)
              /\ \A s : AdmittedSince(l, s)' = AdmittedSince(l, s)
         /\ ~(admit /\ now \div Window = k[2]) => Timely(k)' = Timely(k)
         /\ Counted(k)' = Counted(k) \cup {r}
         /\ \A s : AdmittedSince(k, s) \subseteq AdmittedSince(k, s)'
         /\ admit => \A s : s <= now =>
              AdmittedSince(k, s)' = AdmittedSince(k, s) \cup {r} /\ r \notin AdmittedSince(k, s)
         /\ \A q \in Requests \ {r} :
              /\ verdict'[q] = verdict[q] /\ decidedAt'[q] = decidedAt[q]
              /\ Earners(q) \subseteq Earners(q)'
         /\ verdict'[r] = (IF admit THEN "admitted" ELSE "refused") /\ decidedAt'[r] = now
<1> DEFINE A == Asking(k[1], k[2])
<1>1. /\ \A q \in Requests \ {r} : verdict'[q] = verdict[q] /\ decidedAt'[q] = decidedAt[q]
      /\ verdict'[r] = (IF admit THEN "admitted" ELSE "refused") /\ decidedAt'[r] = now
      /\ verdict[r] = None /\ None \notin {"admitted", "refused"}
  BY RateAssumption DEF Answer, RateInv, Typed, Pending, Verdicts
<1>2. tenant' = tenant /\ stamp' = stamp
  OBVIOUS
<1>3. \A t, b : Asking(t, b)' = Asking(t, b) /\ Asking(t, b) \subseteq Requests
  BY <1>2 DEF Asking
<1>4. r \in A /\ \A l \in Keys \ {k} : r \notin Asking(l[1], l[2])
  BY PendingKey
<1>5. ASSUME NEW l \in Keys \ {k}
      PROVE  /\ Counted(l)' = Counted(l) /\ Timely(l)' = Timely(l)
             /\ \A s : AdmittedSince(l, s)' = AdmittedSince(l, s)
  BY <1>1, <1>2, <1>3, <1>4, <1>5 DEF Counted, AdmittedSince, Admitted, Timely, OnTime
<1>6. Counted(k)' = Counted(k) \cup {r}
  <2>1. /\ Counted(k)' = {q \in A : verdict'[q] # None}
        /\ Counted(k) = {q \in A : verdict[q] # None} /\ A \subseteq Requests
    BY <1>3 DEF Counted
  <2> HIDE DEF A
  <2> QED BY <1>1, <1>4, <2>1
<1>7. ASSUME NEW s
      PROVE  /\ AdmittedSince(k, s) \subseteq AdmittedSince(k, s)'
             /\ admit /\ s <= now =>
                  AdmittedSince(k, s)' = AdmittedSince(k, s) \cup {r} /\ r \notin AdmittedSince(k, s)
  <2>1. /\ AdmittedSince(k, s)' = {q \in A : verdict'[q] = "admitted" /\ decidedAt'[q] >= s}
        /\ AdmittedSince(k, s) = {q \in A : verdict[q] = "admitted" /\ decidedAt[q] >= s}
        /\ A \subseteq Requests
    BY <1>3 DEF AdmittedSince, Admitted
  <2> HIDE DEF A
  <2> QED BY <1>1, <1>4, <2>1
<1>8. ASSUME NEW q \in Requests \ {r} PROVE Earners(q) \subseteq Earners(q)'
  BY <1>1, <1>2, <1>3, <1>8 DEF Earners, Admitted
<1>9. ASSUME ~(admit /\ now \div Window = k[2]) PROVE Timely(k)' = Timely(k)
  <2>1. /\ Timely(k)' = {q \in A : verdict'[q] = "admitted" /\ OnTime(q)'}
        /\ Timely(k) = {q \in A : verdict[q] = "admitted" /\ OnTime(q)} /\ A \subseteq Requests
    BY <1>3 DEF Timely, Admitted
  <2>2. \A q \in Requests \ {r} : OnTime(q)' <=> OnTime(q)
    BY <1>1, <1>2 DEF OnTime
  <2>3. ~(verdict'[r] = "admitted" /\ OnTime(r)') /\ verdict[r] # "admitted"
    BY <1>1, <1>2, <1>9 DEF OnTime, Key
  <2> HIDE DEF A
  <2> QED BY <1>1, <2>1, <2>2, <2>3
<1> QED BY <1>1, <1>5, <1>6, <1>7, <1>8, <1>9

\* The limit of a window, key by key, and the refusals, request by request.
LEMMA WindowsByKey ==
  /\ WindowHolds <=> (backend = "redis" => \A k \in Keys : Cardinality(Timely(k)) <= Limit)
  /\ WindowHolds' <=> (backend' = "redis" => \A k \in Keys : Cardinality(Timely(k)') <= Limit)
  /\ RefusalIsEarned <=> \A r \in Requests : verdict[r] = "refused" => Cardinality(Earners(r)) >= Limit
  /\ RefusalIsEarned' <=>
       \A r \in Requests : verdict'[r] = "refused" => Cardinality(Earners(r)') >= Limit
<1>1. /\ \A t, b : Timely(<<t, b>>) = {r \in Admitted(Asking(t, b)) : OnTime(r)}
      /\ \A t, b : Timely(<<t, b>>)' = {r \in Admitted(Asking(t, b))' : OnTime(r)'}
  BY DEF Timely
<1>2. /\ \A k \in Keys : k[1] \in Tenants /\ k[2] \in Buckets /\ k = <<k[1], k[2]>>
      /\ \A t \in Tenants, b \in Buckets : <<t, b>> \in Keys
  BY DEF Keys
<1>3. WindowHolds <=> (backend = "redis" => \A k \in Keys : Cardinality(Timely(k)) <= Limit)
  BY <1>1, <1>2 DEF WindowHolds, Timely
<1>4. WindowHolds' <=> (backend' = "redis" => \A k \in Keys : Cardinality(Timely(k)') <= Limit)
  BY <1>1, <1>2 DEF WindowHolds, Timely
<1>5. RefusalIsEarned <=>
        \A r \in Requests : verdict[r] = "refused" => Cardinality(Earners(r)) >= Limit
  BY DEF RefusalIsEarned, Earners
<1>6. RefusalIsEarned' <=>
        \A r \in Requests : verdict'[r] = "refused" => Cardinality(Earners(r)') >= Limit
  BY DEF RefusalIsEarned, Earners
<1> QED BY <1>3, <1>4, <1>5, <1>6

-----------------------------------------------------------------------------
(* Every step keeps the invariant                                             *)

LEMMA CountInRedisKeepsInv ==
  ASSUME RateInv, NEW r \in Requests, CountInRedis(r)
  PROVE  RateInv'
<1>1. PICK k \in Keys : k = Key(r)
  BY PendingKey DEF CountInRedis
<1>2. /\ backend = "redis" /\ Pending(r) /\ verdict[r] = None
      /\ count' = [count EXCEPT ![k] = count[k] + 1]
      /\ expires' = IF count[k] + 1 = 1 THEN [expires EXCEPT ![k] = now + Window] ELSE expires
      /\ Answer(r, count[k] + 1 <= Limit)
      /\ backend' = backend /\ now' = now /\ tenant' = tenant /\ stamp' = stamp /\ events' = events
  BY <1>1 DEF CountInRedis, First, Lifetime, asked, Pending
<1>3. /\ Typed /\ now \in Nat /\ now <= MaxTime /\ Window \in Nat \ {0} /\ Limit \in Nat \ {0}
      /\ MaxTime \in Nat /\ count \in [Keys -> Nat] /\ expires \in [Keys -> 0 .. MaxTime + Window]
  BY RateAssumption DEF RateInv, Typed
<1>4. (count[k] + 1 <= Limit) \in BOOLEAN
  OBVIOUS
<1> DEFINE admit == count[k] + 1 <= Limit
<1>5. /\ \A l \in Keys \ {k} :
           /\ Counted(l)' = Counted(l) /\ Timely(l)' = Timely(l)
           /\ \A s : AdmittedSince(l, s)' = AdmittedSince(l, s)
      /\ ~(admit /\ now \div Window = k[2]) => Timely(k)' = Timely(k)
      /\ Counted(k)' = Counted(k) \cup {r}
      /\ \A s : AdmittedSince(k, s) \subseteq AdmittedSince(k, s)'
      /\ admit => \A s : s <= now =>
           AdmittedSince(k, s)' = AdmittedSince(k, s) \cup {r} /\ r \notin AdmittedSince(k, s)
      /\ \A q \in Requests \ {r} : /\ verdict'[q] = verdict[q] /\ decidedAt'[q] = decidedAt[q]
                                   /\ Earners(q) \subseteq Earners(q)'
      /\ verdict'[r] = (IF admit THEN "admitted" ELSE "refused") /\ decidedAt'[r] = now
  BY <1>1, <1>2, <1>4, AnswerCounts
<1>6. r \notin Counted(k) /\ k[2] <= now \div Window /\ k[2] \in Nat /\ now \div Window \in Nat
  BY <1>1, <1>2, <1>3, PendingKey, WindowsAdvance DEF Keys, Buckets
<1>7. /\ count' \in [Keys -> Nat] /\ count'[k] = count[k] + 1
      /\ \A l \in Keys \ {k} : count'[l] = count[l] /\ expires'[l] = expires[l]
      /\ count[k] = 0 => expires'[k] = now + Window
      /\ count[k] # 0 => expires'[k] = expires[k]
      /\ expires' \in [Keys -> 0 .. MaxTime + Window]
  BY <1>2, <1>3
<1> HIDE DEF admit
<1>8. Typed'
  BY <1>2, <1>3, <1>7, <1>5 DEF Typed, Verdicts, Answer
<1>9. Clocked'
  <2> SUFFICES ASSUME NEW q \in Requests
               PROVE  /\ stamp[q] # None => stamp[q] <= now /\ tenant[q] \in Tenants
                      /\ verdict'[q] # None => /\ stamp[q] # None /\ decidedAt'[q] # None
                                               /\ decidedAt'[q] <= now
                      /\ verdict'[q] = None => decidedAt'[q] = None /\ events[q] = <<>>
    BY <1>2 DEF Clocked
  <2>1. CASE q # r
    BY <1>5, <2>1 DEF RateInv, Clocked
  <2>2. CASE q = r
    BY <1>2, <1>3, <1>5, <2>2, RateAssumption DEF RateInv, Clocked, Pending, Verdicts
  <2> QED BY <2>1, <2>2
<1>10. \A S \in SUBSET Requests : IsFiniteSet(S) /\ Cardinality(S) \in Nat
  BY RequestsAreFinite
<1>11. \A l \in Keys, s \in Int : /\ AdmittedSince(l, s) \in SUBSET Requests
                                /\ AdmittedSince(l, s)' \in SUBSET Requests
                                /\ Counted(l) \in SUBSET Requests /\ Counted(l)' \in SUBSET Requests
                                /\ Timely(l)' \in SUBSET Requests /\ Timely(l) \in SUBSET Requests
  BY DEF AdmittedSince, Counted, Admitted, Asking, Timely
<1>12. Cardinality(Counted(k)') = Cardinality(Counted(k)) + 1
  BY <1>3, <1>5, <1>6, <1>10, <1>11, FS_AddElement
<1>13. LiveKeys'
  <2> SUFFICES ASSUME NEW l \in Keys, count'[l] # 0
               PROVE  /\ expires'[l] \in now + 1 .. now + Window
                      /\ \A s \in Int : s = expires'[l] - Window =>
                           Cardinality(AdmittedSince(l, s)') >= Smaller(count'[l], Limit)
    BY <1>2 DEF LiveKeys
  <2>1. CASE l # k
    BY <1>5, <1>7, <2>1 DEF RateInv, LiveKeys
  <2>2. CASE l = k /\ count[k] = 0
    <3>1. expires'[k] = now + Window /\ expires'[k] - Window = now /\ count'[k] = 1 /\ admit
      BY <1>3, <1>7, <2>2 DEF admit
    <3>2. ASSUME NEW s \in Int, s = now PROVE Cardinality(AdmittedSince(k, s)') >= 1
      <4>1. r \in AdmittedSince(k, s)'
        BY <1>3, <1>5, <3>1, <3>2
      <4>2. Cardinality(AdmittedSince(k, s)') \in Nat /\ IsFiniteSet(AdmittedSince(k, s)')
        BY <1>10, <1>11
      <4>3. Cardinality(AdmittedSince(k, s)') # 0
        BY <4>1, <4>2, FS_EmptySet
      <4> QED BY <4>2, <4>3
    <3> QED BY <1>3, <2>2, <3>1, <3>2 DEF Smaller
  <2>3. CASE l = k /\ count[k] # 0
    <3>1. expires[k] \in now + 1 .. now + Window /\ expires'[k] = expires[k]
      BY <1>7, <2>3 DEF RateInv, LiveKeys
    <3>2. ASSUME NEW t \in Int, t = expires[k] - Window
          PROVE  Cardinality(AdmittedSince(k, t)') >= Smaller(count'[k], Limit)
      <4>1. t <= now
        BY <1>3, <3>1, <3>2
      <4>2. /\ Cardinality(AdmittedSince(k, t)) \in Nat /\ Cardinality(AdmittedSince(k, t)') \in Nat
            /\ IsFiniteSet(AdmittedSince(k, t)) /\ IsFiniteSet(AdmittedSince(k, t)')
            /\ Cardinality(AdmittedSince(k, t)) >= Smaller(count[k], Limit)
        BY <1>10, <1>11, <2>3, <3>2 DEF RateInv, LiveKeys
      <4>3. CASE admit
        <5>1. Cardinality(AdmittedSince(k, t)') = Cardinality(AdmittedSince(k, t)) + 1
          BY <1>5, <4>1, <4>2, <4>3, FS_AddElement
        <5> QED BY <1>3, <1>7, <4>2, <4>3, <5>1 DEF Smaller, admit
      <4>4. CASE ~admit
        <5>1. Cardinality(AdmittedSince(k, t)) <= Cardinality(AdmittedSince(k, t)')
          BY <1>5, <4>2, FS_Subset
        <5> QED BY <1>3, <1>7, <4>2, <4>4, <5>1 DEF Smaller, admit
      <4> QED BY <4>3, <4>4
    <3> QED BY <2>3, <3>1, <3>2
  <2> QED BY <2>1, <2>2, <2>3
<1>14. KeysCount'
  <2> SUFFICES ASSUME NEW l \in Keys
               PROVE  /\ count'[l] <= Cardinality(Counted(l)')
                      /\ now \div Window = l[2] =>
                           /\ count'[l] = Cardinality(Counted(l)')
                           /\ count'[l] # 0 => expires'[l] \div Window > l[2]
                      /\ now \div Window < l[2] => count'[l] = 0
    BY <1>2 DEF KeysCount
  <2>1. CASE l # k
    BY <1>2, <1>5, <1>7, <2>1 DEF RateInv, KeysCount
  <2>2. CASE l = k
    <3>1. Cardinality(Counted(k)) \in Nat /\ count[k] \in Nat /\ count[k] <= Cardinality(Counted(k))
      BY <1>3, <1>10, <1>11 DEF RateInv, KeysCount
    <3>2. count'[k] <= Cardinality(Counted(k)')
      BY <1>7, <1>12, <3>1
    <3>3. now \div Window = k[2] => count'[k] = Cardinality(Counted(k)')
      BY <1>2, <1>7, <1>12, <3>1 DEF RateInv, KeysCount
    <3>4. now \div Window = k[2] => expires'[k] \div Window > k[2]
      BY <1>2, <1>3, <1>7, NextWindow DEF RateInv, KeysCount
    <3> QED BY <1>6, <2>2, <3>2, <3>3, <3>4
  <2> QED BY <2>1, <2>2
<1>15. WindowHolds'
  <2> SUFFICES ASSUME NEW l \in Keys PROVE Cardinality(Timely(l)') <= Limit
    BY WindowsByKey
  <2>1. CASE l # k
    BY <1>2, <1>5, <2>1, WindowsByKey DEF RateInv
  <2>2. CASE l = k /\ ~(admit /\ now \div Window = k[2])
    BY <1>2, <1>5, <2>2, WindowsByKey DEF RateInv
  <2>3. CASE l = k /\ admit /\ now \div Window = k[2]
    <3>1. Timely(k)' \subseteq Counted(k)'
      BY RateAssumption DEF Timely, Admitted, Counted, Verdicts
    <3>2. Cardinality(Counted(k)) = count[k]
      BY <1>2, <2>3 DEF RateInv, KeysCount
    <3>3. Cardinality(Counted(k)') <= Limit
      BY <1>12, <2>3, <3>2 DEF admit
    <3>4. Cardinality(Timely(k)') <= Cardinality(Counted(k)')
      BY <1>10, <1>11, <3>1, FS_Subset
    <3>5. Cardinality(Timely(k)') \in Nat /\ Cardinality(Counted(k)') \in Nat
      BY <1>10, <1>11
    <3> QED BY <1>3, <2>3, <3>3, <3>4, <3>5
  <2> QED BY <2>1, <2>2, <2>3
<1>16. RefusalIsEarned'
  <2> SUFFICES ASSUME NEW q \in Requests, verdict'[q] = "refused"
               PROVE  Cardinality(Earners(q)') >= Limit
    BY WindowsByKey
  <2>1. Earners(q) \in SUBSET Requests /\ Earners(q)' \in SUBSET Requests
    BY DEF Earners, Admitted, Asking
  <2>2. /\ IsFiniteSet(Earners(q)') /\ Cardinality(Earners(q)) \in Nat
        /\ Cardinality(Earners(q)') \in Nat
    BY <1>10, <2>1
  <2>3. CASE q # r
    <3>1. Cardinality(Earners(q)) >= Limit
      BY <1>5, <2>3, WindowsByKey DEF RateInv
    <3>2. Cardinality(Earners(q)) <= Cardinality(Earners(q)')
      BY <1>5, <2>2, <2>3, FS_Subset
    <3> QED BY <1>3, <2>2, <3>1, <3>2
  <2>4. CASE q = r
    <3>1. count[k] >= Limit /\ count[k] # 0
      BY <1>3, <1>5, <2>4 DEF admit
    <3>2. PICK t \in Int : t = expires[k] - Window
      BY <1>3
    <3>3. /\ t > now - Window /\ Cardinality(AdmittedSince(k, t)) >= Limit
          /\ Cardinality(AdmittedSince(k, t)) \in Nat
      BY <1>3, <1>10, <1>11, <3>1, <3>2 DEF RateInv, LiveKeys, Smaller
    <3>4. ASSUME NEW p \in AdmittedSince(k, t) PROVE p \in Earners(r)'
      <4>1. /\ p \in Asking(tenant[r], stamp[r] \div Window) /\ verdict[p] = "admitted"
            /\ decidedAt[p] >= t
        BY <1>1 DEF AdmittedSince, Admitted, Key
      <4>2. p \in Requests \ {r}
        BY <1>2, <4>1, RateAssumption DEF Asking, Verdicts
      <4>3. decidedAt[p] \in Nat /\ decidedAt[p] <= now
        BY <4>1, <4>2, RateAssumption DEF RateInv, Typed, Clocked, Verdicts
      <4>4. decidedAt[p] > now - Window
        BY <1>3, <3>3, <4>1, <4>3
      <4>5. verdict'[p] = "admitted" /\ decidedAt'[p] = decidedAt[p] /\ decidedAt'[r] = now
        BY <1>5, <4>1, <4>2
      <4>6. p \in Asking(tenant[r], stamp[r] \div Window)'
        BY <1>2, <4>1 DEF Asking
      <4> QED BY <1>2, <4>3, <4>4, <4>5, <4>6 DEF Earners, Admitted
    <3>5. Cardinality(AdmittedSince(k, t)) <= Cardinality(Earners(r)')
      BY <2>2, <2>4, <3>4, FS_Subset
    <3> QED BY <1>3, <2>2, <2>4, <3>3, <3>5
  <2> QED BY <2>3, <2>4
<1> QED BY <1>8, <1>9, <1>13, <1>14, <1>15, <1>16 DEF RateInv

LEMMA CountInProcessKeepsInv ==
  ASSUME RateInv, NEW r \in Requests, CountInProcess(r)
  PROVE  RateInv'
<1>1. PICK k \in Keys : k = Key(r)
  BY PendingKey DEF CountInProcess
<1>2. /\ backend = "memory" /\ backend # "redis" /\ Pending(r) /\ verdict[r] = None
      /\ events[r] = <<>> /\ stamp[r] \in 0 .. MaxTime
  BY RateAssumption DEF CountInProcess, Pending, RateInv, Typed, Clocked
<1>3. Recent(events[r], stamp[r] - Window) = <<>> /\ 0 < Limit
  BY <1>2, RateAssumption DEF Recent
<1>4. /\ events' = [events EXCEPT ![r] = Append(<<>>, stamp[r])] /\ Answer(r, TRUE)
      /\ backend' = backend /\ now' = now /\ tenant' = tenant /\ stamp' = stamp
      /\ count' = count /\ expires' = expires
  BY <1>3 DEF CountInProcess, LimiterOf, asked, keys
<1>5. /\ \A q \in Requests \ {r} : /\ verdict'[q] = verdict[q] /\ decidedAt'[q] = decidedAt[q]
                                   /\ Earners(q) \subseteq Earners(q)'
      /\ verdict'[r] = "admitted" /\ decidedAt'[r] = now
  BY <1>1, <1>2, <1>4, AnswerCounts
<1>6. Typed'
  <2>1. Append(<<>>, stamp[r]) \in Seq(0 .. MaxTime)
    BY <1>2
  <2> QED BY <1>4, <1>5, <2>1 DEF RateInv, Typed, Verdicts, Answer
<1>7. Clocked'
  <2> SUFFICES ASSUME NEW q \in Requests
               PROVE  /\ stamp[q] # None => stamp[q] <= now /\ tenant[q] \in Tenants
                      /\ verdict'[q] # None => /\ stamp[q] # None /\ decidedAt'[q] # None
                                               /\ decidedAt'[q] <= now
                      /\ verdict'[q] = None => decidedAt'[q] = None /\ events'[q] = <<>>
    BY <1>4 DEF Clocked
  <2>1. CASE q # r
    BY <1>4, <1>5, <2>1 DEF RateInv, Typed, Clocked
  <2>2. CASE q = r
    BY <1>2, <1>5, <2>2, RateAssumption DEF RateInv, Typed, Clocked, Pending, Verdicts
  <2> QED BY <2>1, <2>2
<1>8. \A l \in Keys : count[l] = 0
  BY <1>2 DEF RateInv, LiveKeys
<1>9. LiveKeys' /\ WindowHolds'
  BY <1>2, <1>4, <1>8 DEF LiveKeys, WindowHolds
<1>10. KeysCount'
  <2>1. ASSUME NEW l \in Keys PROVE 0 <= Cardinality(Counted(l)')
    <3>1. Counted(l)' \in SUBSET Requests
      BY DEF Counted, Asking
    <3> QED BY <3>1, RequestsAreFinite
  <2> QED BY <1>2, <1>4, <1>8, <2>1 DEF KeysCount
<1>11. RefusalIsEarned'
  <2> SUFFICES ASSUME NEW q \in Requests, verdict'[q] = "refused"
               PROVE  Cardinality(Earners(q)') >= Limit
    BY WindowsByKey
  <2>1. q # r /\ verdict[q] = "refused"
    BY <1>5
  <2>2. Earners(q) \in SUBSET Requests /\ Earners(q)' \in SUBSET Requests
    BY DEF Earners, Admitted, Asking
  <2>3. /\ IsFiniteSet(Earners(q)') /\ Cardinality(Earners(q)) \in Nat
        /\ Cardinality(Earners(q)') \in Nat
    BY <2>2, RequestsAreFinite
  <2>4. Cardinality(Earners(q)) >= Limit
    BY <2>1, WindowsByKey DEF RateInv
  <2>5. Cardinality(Earners(q)) <= Cardinality(Earners(q)')
    BY <1>5, <2>1, <2>3, FS_Subset
  <2> QED BY <2>3, <2>4, <2>5, RateAssumption
<1> QED BY <1>6, <1>7, <1>9, <1>10, <1>11 DEF RateInv

\* A request that only reads the clock is in none of the sets.
LEMMA ReadClockKeepsInv ==
  ASSUME RateInv, NEW r \in Requests, NEW t \in Tenants, ReadClock(r, t)
  PROVE  RateInv'
<1>1. /\ stamp[r] = None /\ verdict[r] = None
      /\ tenant' = [tenant EXCEPT ![r] = t] /\ stamp' = [stamp EXCEPT ![r] = now]
      /\ backend' = backend /\ now' = now /\ verdict' = verdict /\ decidedAt' = decidedAt
      /\ count' = count /\ expires' = expires /\ events' = events
  BY DEF ReadClock, answered, keys, RateInv, Clocked
<1>2. Typed /\ Clocked /\ now \in 0 .. MaxTime /\ None \notin Int
  BY RateAssumption DEF RateInv, Typed
<1>3. /\ \A q \in Requests \ {r} : tenant'[q] = tenant[q] /\ stamp'[q] = stamp[q]
      /\ tenant'[r] = t /\ stamp'[r] = now
  BY <1>1, <1>2 DEF Typed
<1>4. \A u, b : Asking(u, b)' \ {r} = Asking(u, b) \ {r} /\ Asking(u, b) \subseteq Requests
                /\ Asking(u, b)' \subseteq Requests
  BY <1>3 DEF Asking
<1>5. ASSUME NEW k \in Keys
      PROVE  /\ Counted(k)' = Counted(k) /\ Timely(k)' = Timely(k)
             /\ \A s : AdmittedSince(k, s)' = AdmittedSince(k, s)
  <2>1. verdict[r] = None /\ None # "admitted"
    BY <1>1, RateAssumption DEF Verdicts
  <2>2. Counted(k)' = Counted(k)
    BY <1>1, <1>4, <2>1 DEF Counted
  <2>3. ASSUME NEW s PROVE AdmittedSince(k, s)' = AdmittedSince(k, s)
    BY <1>1, <1>4, <2>1 DEF AdmittedSince, Admitted
  <2>4. \A q \in Requests \ {r} : OnTime(q)' <=> OnTime(q)
    BY <1>1, <1>3 DEF OnTime
  <2>5. Timely(k)' = Timely(k)
    BY <1>1, <1>4, <2>1, <2>4 DEF Timely, Admitted
  <2> QED BY <2>2, <2>3, <2>5
<1>6. ASSUME NEW q \in Requests, verdict[q] = "refused" PROVE Earners(q)' = Earners(q)
  <2>1. q # r /\ verdict[r] # "admitted"
    BY <1>1, <1>6, RateAssumption DEF Verdicts
  <2>2. tenant'[q] = tenant[q] /\ stamp'[q] = stamp[q]
    BY <1>3, <2>1
  <2> QED BY <1>1, <1>4, <2>1, <2>2 DEF Earners, Admitted
<1>7. Typed'
  BY <1>1, <1>2 DEF Typed
<1>8. Clocked'
  BY <1>1, <1>2, <1>3 DEF Typed, Clocked
<1>9. LiveKeys'
  BY <1>1, <1>5 DEF RateInv, LiveKeys
<1>10. KeysCount'
  BY <1>1, <1>5 DEF RateInv, KeysCount
<1>11. WindowHolds'
  BY <1>1, <1>5, WindowsByKey DEF RateInv
<1>12. RefusalIsEarned'
  BY <1>1, <1>6, WindowsByKey DEF RateInv
<1> QED BY <1>7, <1>8, <1>9, <1>10, <1>11, <1>12 DEF RateInv

\* Nobody asks in a window to come, and the key of the window that runs is not dropped.
LEMMA TickKeepsInv ==
  ASSUME RateInv, Tick
  PROVE  RateInv'
<1>1. /\ now < MaxTime /\ now' = now + 1 /\ backend' = backend
      /\ tenant' = tenant /\ stamp' = stamp /\ verdict' = verdict /\ decidedAt' = decidedAt
      /\ expires' = expires /\ events' = events
      /\ count' = [k \in DOMAIN count |-> IF expires[k] = now + 1 THEN 0 ELSE count[k]]
  BY DEF Tick, asked, answered
<1>2. /\ Typed /\ Clocked /\ now \in Nat /\ now + 1 \in 0 .. MaxTime /\ MaxTime \in Nat
      /\ Window \in Nat \ {0} /\ count \in [Keys -> Nat] /\ expires \in [Keys -> 0 .. MaxTime + Window]
  BY <1>1, RateAssumption DEF RateInv, Typed
<1>3. \A k \in Keys : count'[k] = IF expires[k] = now + 1 THEN 0 ELSE count[k]
  BY <1>1, <1>2
<1>4. ASSUME NEW k \in Keys
      PROVE  /\ Counted(k)' = Counted(k) /\ Timely(k)' = Timely(k)
             /\ \A s : AdmittedSince(k, s)' = AdmittedSince(k, s)
  BY <1>1 DEF Counted, Timely, AdmittedSince, Admitted, Asking, OnTime
<1>5. \A q \in Requests : Earners(q)' = Earners(q)
  BY <1>1 DEF Earners, Admitted, Asking
<1>6. Typed'
  <2>1. count' \in [Keys -> Nat]
    BY <1>1, <1>2
  <2> QED BY <1>1, <1>2, <2>1 DEF Typed
<1>7. Clocked'
  <2>1. \A q \in Requests : (stamp[q] # None => stamp[q] \in Nat)
                            /\ (decidedAt[q] # None => decidedAt[q] \in Nat)
    BY <1>2 DEF Typed
  <2> QED BY <1>1, <1>2, <2>1 DEF Clocked
<1>8. LiveKeys'
  <2> SUFFICES ASSUME NEW k \in Keys, count'[k] # 0
               PROVE  /\ backend = "redis" /\ expires[k] \in now + 1 + 1 .. now + 1 + Window
                      /\ \A s \in Int : s = expires[k] - Window =>
                           Cardinality(AdmittedSince(k, s)') >= Smaller(count'[k], Limit)
    BY <1>1 DEF LiveKeys
  <2>1. expires[k] # now + 1 /\ count'[k] = count[k] /\ count[k] # 0
    BY <1>3
  <2>2. backend = "redis" /\ expires[k] \in now + 1 .. now + Window
    BY <2>1 DEF RateInv, LiveKeys
  <2>3. expires[k] \in now + 1 + 1 .. now + 1 + Window
    BY <1>2, <2>1, <2>2
  <2> QED BY <1>4, <2>1, <2>2, <2>3 DEF RateInv, LiveKeys
<1>9. KeysCount'
  <2> SUFFICES ASSUME NEW k \in Keys
               PROVE  /\ count'[k] <= Cardinality(Counted(k))
                      /\ (now + 1) \div Window = k[2] /\ backend = "redis" =>
                           /\ count'[k] = Cardinality(Counted(k))
                           /\ count'[k] # 0 => expires[k] \div Window > k[2]
                      /\ (now + 1) \div Window < k[2] => count'[k] = 0
    BY <1>1, <1>4 DEF KeysCount
  <2>1. /\ now \div Window \in Nat /\ (now + 1) \div Window \in Nat
        /\ now \div Window <= (now + 1) \div Window /\ k[2] \in Nat
    <3>1. now + 1 \in Nat /\ now <= now + 1 /\ MaxTime \div Window \in Nat
      BY <1>2, WindowsAdvance
    <3>2. k[2] \in Nat
      BY <3>1 DEF Keys, Buckets
    <3>3. /\ now \div Window \in Nat /\ (now + 1) \div Window \in Nat
          /\ now \div Window <= (now + 1) \div Window
      BY <1>2, <3>1, WindowsAdvance
    <3> QED BY <3>2, <3>3
  <2>2. count[k] \in Nat /\ Cardinality(Counted(k)) \in Nat /\ count[k] <= Cardinality(Counted(k))
    <3>1. Counted(k) \in SUBSET Requests
      BY DEF Counted, Asking
    <3> QED BY <1>2, <3>1, RequestsAreFinite DEF RateInv, KeysCount
  <2>3. count'[k] <= Cardinality(Counted(k)) /\ (count[k] = 0 => count'[k] = 0)
    BY <1>3, <2>2
  <2>4. ASSUME (now + 1) \div Window = k[2], backend = "redis", now \div Window = k[2]
        PROVE  /\ count'[k] = Cardinality(Counted(k))
               /\ count'[k] # 0 => expires[k] \div Window > k[2]
    <3>1. count[k] = Cardinality(Counted(k)) /\ (count[k] # 0 => expires[k] \div Window > k[2])
      BY <2>4 DEF RateInv, KeysCount
    <3>2. count[k] # 0 => expires[k] # now + 1
      BY <2>1, <2>4, <3>1
    <3> QED BY <1>3, <3>1, <3>2
  <2>5. ASSUME now \div Window < k[2]
        PROVE  count[k] = 0 /\ Cardinality(Counted(k)) = 0
    <3>1. count[k] = 0
      BY <2>5 DEF RateInv, KeysCount
    <3>2. ASSUME NEW q \in Requests, stamp[q] # None PROVE stamp[q] \div Window # k[2]
      <4>1. stamp[q] \in Nat /\ stamp[q] <= now
        BY <1>2, <3>2 DEF Typed, Clocked
      <4>2. stamp[q] \div Window <= now \div Window /\ stamp[q] \div Window \in Nat
        BY <1>2, <4>1, WindowsAdvance
      <4> QED BY <2>1, <2>5, <4>2
    <3>3. Counted(k) = {}
      BY <3>2 DEF Counted, Asking
    <3> QED BY <3>1, <3>3, FS_EmptySet
  <2> QED BY <2>1, <2>3, <2>4, <2>5
<1>10. WindowHolds'
  BY <1>1, <1>4, WindowsByKey DEF RateInv
<1>11. RefusalIsEarned'
  BY <1>1, <1>5, WindowsByKey DEF RateInv
<1> QED BY <1>6, <1>7, <1>8, <1>9, <1>10, <1>11 DEF RateInv

LEMMA StutterKeepsInv ==
  ASSUME RateInv, UNCHANGED vars
  PROVE  RateInv'
<1>1. /\ backend' = backend /\ now' = now /\ tenant' = tenant /\ stamp' = stamp
      /\ verdict' = verdict /\ decidedAt' = decidedAt
      /\ count' = count /\ expires' = expires /\ events' = events
  BY DEF vars, asked, answered, keys
<1>2. ASSUME NEW k \in Keys
      PROVE  /\ Counted(k)' = Counted(k) /\ Timely(k)' = Timely(k)
             /\ \A s : AdmittedSince(k, s)' = AdmittedSince(k, s)
  BY <1>1 DEF Counted, Timely, AdmittedSince, Admitted, Asking, OnTime
<1>3. \A q \in Requests : Earners(q)' = Earners(q)
  BY <1>1 DEF Earners, Admitted, Asking
<1>4. Typed' /\ Clocked'
  BY <1>1 DEF RateInv, Typed, Clocked
<1>5. LiveKeys' /\ KeysCount'
  BY <1>1, <1>2 DEF RateInv, LiveKeys, KeysCount
<1>6. WindowHolds' /\ RefusalIsEarned'
  BY <1>1, <1>2, <1>3, WindowsByKey DEF RateInv
<1> QED BY <1>4, <1>5, <1>6 DEF RateInv

LEMMA InitHasInv == Init => RateInv
<1> SUFFICES ASSUME Init PROVE RateInv
  OBVIOUS
<1>1. /\ \A r \in Requests : stamp[r] = None /\ verdict[r] = None /\ decidedAt[r] = None
      /\ \A r \in Requests : events[r] = <<>>
      /\ \A k \in Keys : count[k] = 0
      /\ None \notin Verdicts /\ now = 0
  BY RateAssumption DEF Init, Keys
<1>2. Typed
  BY RateAssumption DEF Init, Typed, Keys
<1>3. Clocked /\ LiveKeys
  BY <1>1 DEF Clocked, LiveKeys
<1>4. KeysCount
  <2>1. ASSUME NEW k \in Keys PROVE Cardinality(Counted(k)) = 0
    <3>1. Counted(k) = {}
      BY <1>1 DEF Counted, Asking
    <3> QED BY <3>1, FS_EmptySet
  <2> QED BY <1>1, <2>1 DEF KeysCount
<1>5. WindowHolds
  <2>1. ASSUME NEW k \in Keys PROVE Cardinality(Timely(k)) = 0
    <3>1. Timely(k) = {}
      BY <1>1 DEF Timely, Admitted, Asking
    <3> QED BY <3>1, FS_EmptySet
  <2> QED BY <2>1, WindowsByKey, RateAssumption
<1>6. RefusalIsEarned
  BY <1>1 DEF RefusalIsEarned, Verdicts
<1> QED BY <1>2, <1>3, <1>4, <1>5, <1>6 DEF RateInv

-----------------------------------------------------------------------------
(* Theorems                                                                   *)

\* The invariant holds in every reachable state of the limiter.
THEOREM RateInvariance == Spec => []RateInv
<1>1. Init => RateInv
  BY InitHasInv
<1>2. ASSUME RateInv, [Next]_vars PROVE RateInv'
  <2>1. CASE \E r \in Requests, t \in Tenants : ReadClock(r, t)
    BY <1>2, <2>1, ReadClockKeepsInv
  <2>2. CASE \E r \in Requests : CountInRedis(r)
    BY <1>2, <2>2, CountInRedisKeepsInv
  <2>3. CASE \E r \in Requests : CountInProcess(r)
    BY <1>2, <2>3, CountInProcessKeepsInv
  <2>4. CASE Tick
    BY <1>2, <2>4, TickKeepsInv
  <2>5. CASE UNCHANGED vars
    BY <1>2, <2>5, StutterKeepsInv
  <2> QED BY <1>2, <2>1, <2>2, <2>3, <2>4, <2>5 DEF Next
<1> QED BY <1>1, <1>2, PTL DEF Spec

\* The variables of the limiter have their types; no key counts more than there are requests.
THEOREM RateTypeCorrect == Spec => []TypeOK
<1>1. RateInv => TypeOK
  <2> SUFFICES ASSUME RateInv PROVE TypeOK
    OBVIOUS
  <2>1. count \in [Keys -> 0 .. Cardinality(Requests)]
    <3>1. ASSUME NEW k \in Keys PROVE count[k] \in 0 .. Cardinality(Requests)
      <4>1. Counted(k) \in SUBSET Requests /\ Requests \in SUBSET Requests
        BY DEF Counted, Asking
      <4>2. /\ Cardinality(Counted(k)) \in Nat /\ Cardinality(Requests) \in Nat
            /\ Cardinality(Counted(k)) <= Cardinality(Requests)
        BY <4>1, RequestsAreFinite
      <4>3. count[k] \in Nat /\ count[k] <= Cardinality(Counted(k))
        BY DEF RateInv, Typed, KeysCount
      <4> QED BY <4>2, <4>3
    <3> QED BY <3>1 DEF RateInv, Typed
  <2> QED BY <2>1 DEF RateInv, Typed, TypeOK, Keys
<1> QED BY <1>1, RateInvariance, PTL

\* Every key that Redis holds expires within a window, however its requests interleave.
THEOREM KeysAlwaysExpire == Spec => []KeysExpire
<1>1. RateInv => KeysExpire
  BY DEF RateInv, Typed, LiveKeys, KeysExpire
<1> QED BY <1>1, RateInvariance, PTL

\* No window admits more of a tenant's requests than the limit, those that end late apart.
THEOREM WindowsAlwaysHold == Spec => []WindowHolds
<1>1. RateInv => WindowHolds
  BY DEF RateInv
<1> QED BY <1>1, RateInvariance, PTL

\* A tenant is refused only when its own requests have used up the limit.
THEOREM RefusalsAlwaysEarned == Spec => []RefusalIsEarned
<1>1. RateInv => RefusalIsEarned
  BY DEF RateInv
<1> QED BY <1>1, RateInvariance, PTL
=============================================================================
