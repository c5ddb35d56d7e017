-------------------------- MODULE RateLimitProofs --------------------------
(***************************************************************************)
(* Proofs about RateLimit, for any number of addresses, burst, periods,    *)
(* size of the table and size of the clock.                                *)
(*                                                                         *)
(* The code keeps of the past only a level and a time.  Credit sums them   *)
(* up: what the bucket still owes, in milliseconds, to the moment now.     *)
(* What the observer counted is always paid by that credit and by the time *)
(* since it started (Account), because a request that passes adds a period *)
(* to the credit, a leak leaves it alone, and the collector only erases a  *)
(* negative one.  A full bucket has a time older than the last request it  *)
(* let through (Timely), as the clock makes no turn in a load (Aged).  The *)
(* age of an entry of the table is bounded by what its bucket holds and by *)
(* the time since the last collection (Recent).                            *)
(*                                                                         *)
(* Behind them, what every frame drives, which needs no bound either: the  *)
(* reload of the map before a counter wraps (Restart), by how far one turn *)
(* of the engine can bring it, and the settings of the rates (Rates).      *)
(***************************************************************************)
EXTENDS RateLimit, MCRestart, Arithmetic, FiniteSetTheorems, TLAPS

-----------------------------------------------------------------------------
(* The clock *)

\* An unsigned difference is a time of the clock.
LEMMA SinceType ==
    ASSUME clock \in Nat
    PROVE  Now \in 0..(Wrap - 1) /\ \A t \in Int : Since(t) \in 0..(Wrap - 1)
  BY LimitsAssumption, SMT DEF Now, Since

\* A time r milliseconds back, also across the wrap, is r milliseconds ago.
LEMMA SinceBack ==
    ASSUME clock \in Nat, NEW r \in 0..(Wrap - 1)
    PROVE  (Now - r) % Wrap \in 0..(Wrap - 1) /\ Since((Now - r) % Wrap) = r
<1> DEFINE n == Now
           q == (n - r) \div Wrap
           m == (n - r) % Wrap
<1>1. n \in 0..(Wrap - 1)
  BY SinceType
<1>2. Wrap \in Nat /\ Wrap > 0
  BY LimitsAssumption
<1> HIDE DEF n
<1>3. q \in Int /\ m \in 0..(Wrap - 1) /\ n - r = Wrap * q + m
  BY <1>1, <1>2, SMT
<1> HIDE DEF q, m
<1>4. q = 0 \/ q = -1
  <2>1. Wrap * q > -Wrap - Wrap /\ Wrap * q < Wrap
    BY <1>1, <1>2, <1>3
  <2>2. q < 1
    BY <1>2, <1>3, <2>1
  <2>3. q > -2
    BY <1>2, <1>3, <2>1
  <2>4. QED
    BY <1>3, <2>2, <2>3
<1>5. (n - m) % Wrap = r
  <2>1. CASE q = 0
    BY <1>1, <1>2, <1>3, <2>1
  <2>2. CASE q = -1
    <3>1. n - m = r - Wrap
      BY <1>1, <1>2, <1>3, <2>2
    <3>2. (r - Wrap) % Wrap = r
      BY <1>2, SMT
    <3>3. QED
      BY <3>1, <3>2
  <2>3. QED
    BY <1>4, <2>1, <2>2
<1>6. QED
  BY <1>3, <1>5 DEF n, m, Since

\* The present is no time ago.
LEMMA SinceNow ==
    ASSUME clock \in Nat
    PROVE  Now \in 0..(Wrap - 1) /\ Since(Now) = 0
  BY SinceType, LimitsAssumption, SMT DEF Since

\* A tick makes every time one millisecond older, or the clock made a turn.
LEMMA SinceTick ==
    ASSUME clock \in Nat, clock' = clock + 1, NEW t \in 0..(Wrap - 1)
    PROVE  Since(t)' = IF Since(t) + 1 < Wrap THEN Since(t) + 1 ELSE 0
<1> DEFINE n == clock % Wrap
           s == (n - t) % Wrap
<1>1. Wrap \in Nat /\ Wrap > 0
  BY LimitsAssumption
<1>2. n \in 0..(Wrap - 1)
  BY <1>1, SMT
<1>3. (clock + 1) % Wrap = IF n + 1 < Wrap THEN n + 1 ELSE 0
  <2> DEFINE q == clock \div Wrap
  <2>1. q \in Int /\ clock = Wrap * q + n
    BY <1>1, SMT
  <2> HIDE DEF q, n
  <2>2. \A k \in Int, r \in 0..(Wrap - 1) : (Wrap * k + r) % Wrap = r
    BY <1>1, Z3
  <2>3. Wrap * q + Wrap = Wrap * (q + 1) + 0
    BY <1>1, <2>1
  <2>4. clock + 1 = IF n + 1 < Wrap THEN Wrap * q + (n + 1) ELSE Wrap * (q + 1) + 0
    BY <1>1, <1>2, <2>1, <2>3
  <2>5. QED
    BY SMTT(40), <1>1, <1>2, <2>1, <2>2, <2>4
<1> HIDE DEF n
<1>4. s = IF t <= n THEN n - t ELSE n - t + Wrap
  BY <1>1, <1>2, SMT
<1>5. \A k \in 0..(Wrap - 1) : (k - t) % Wrap = IF t <= k THEN k - t ELSE k - t + Wrap
  BY <1>1, SMT
<1>6. (((clock + 1) % Wrap) - t) % Wrap = IF s + 1 < Wrap THEN s + 1 ELSE 0
  BY <1>1, <1>2, <1>3, <1>4, <1>5
<1>7. QED
  BY <1>6 DEF n, s, Since, Now

-----------------------------------------------------------------------------
(* One bucket *)

\* What a bucket owes: a period for each request it holds, less the time since
\* it last leaked.
Credit(b, period) == IF b = NoBucket THEN 0 ELSE period * b.burst - Since(b.lastTime)

LEMMA NoBucketIsNone == NoBucket \notin BucketType /\ NoBucket.burst = -1
  BY DEF NoBucket, BucketType

\* A leak keeps the credit, or forgets a negative one, and leaves less than a
\* period of rest.
LEMMA LeakedFacts ==
    ASSUME clock \in Nat, NEW b \in BucketType, NEW period \in Nat \ {0}
    PROVE  LET l == Leaked(b, period) IN
           /\ l \in BucketType
           /\ Since(l.lastTime) < period
           /\ period * l.burst - Since(l.lastTime) >= period * b.burst - Since(b.lastTime)
           /\ l.burst = Burst =>
                 b.burst = Burst /\ Since(b.lastTime) < period /\ Since(l.lastTime) = Since(b.lastTime)
<1> DEFINE i == Since(b.lastTime)
           e == i \div period
           r == i % period
           l == Leaked(b, period)
<1>1. b.lastTime \in 0..(Wrap - 1) /\ b.burst \in 0..Burst /\ Burst \in Nat \ {0}
  BY LimitsAssumption DEF BucketType
<1>2. i \in 0..(Wrap - 1) /\ i \in Nat
  BY <1>1, SinceType
<1>3. e \in Nat /\ r \in 0..(period - 1) /\ i = period * e + r
  <2> HIDE DEF i
  <2>1. QED
    BY <1>2, Division
<1>4. CASE e > b.burst
  <2>1. l = [lastTime |-> Now, burst |-> 0]
    BY <1>4 DEF Leaked
  <2>2. period * e >= period * b.burst + period
    <3> HIDE DEF e, r, i
    <3>1. QED
      BY <1>1, <1>3, <1>4, Times
  <2>3. l \in BucketType /\ Since(l.lastTime) = 0 /\ l.burst = 0
    BY <1>1, <2>1, SinceNow DEF BucketType
  <2>4. period * l.burst = 0
    BY <2>3
  <2> HIDE DEF l, i, e, r
  <2>5. 0 - 0 >= period * b.burst - i
    BY <1>1, <1>3, <2>2
  <2>6. QED
    BY <1>1, <2>3, <2>4, <2>5 DEF l, i
<1>5. CASE ~(e > b.burst)
  <2>1. l = [lastTime |-> (Now - r) % Wrap, burst |-> b.burst - e]
    BY <1>5 DEF Leaked
  <2>2. r \in 0..(Wrap - 1) /\ r <= i
    <3> HIDE DEF i, e, r
    <3>1. period * e >= 0
      BY <1>3, SMT
    <3>2. period * e \in Int /\ Wrap \in Nat
      BY <1>3, LimitsAssumption
    <3>3. QED
      BY <1>2, <1>3, <3>1, <3>2
  <2>3. (Now - r) % Wrap \in 0..(Wrap - 1) /\ Since((Now - r) % Wrap) = r
    BY <2>2, SinceBack
  <2>4. b.burst - e \in 0..Burst
    BY <1>1, <1>3, <1>5
  <2>5. l \in BucketType /\ Since(l.lastTime) = r /\ l.burst = b.burst - e
    BY <2>1, <2>3, <2>4 DEF BucketType
  <2> HIDE DEF l, i, e, r
  <2>6. period * (b.burst - e) = period * b.burst - period * e
    BY <1>1, <1>3, SMT
  <2>7. b.burst - e = Burst => e = 0 /\ b.burst = Burst
    BY <1>1, <1>3
  <2>8. e = 0 => i = r
    BY <1>3
  <2>9. QED
    BY <1>1, <1>3, <2>5, <2>6, <2>7, <2>8 DEF l, i
<1>6. QED
  BY <1>4, <1>5

\* A request that passes adds a period to the credit and leaves some; a request
\* that is refused finds the bucket full, and a leak less than a period ago.
LEMMA LimitFacts ==
    ASSUME clock \in Nat, NEW b \in BucketType, NEW period \in Nat \ {0}
    PROVE  LET l == Limit(b, period) IN
           /\ l \in BucketType
           /\ Since(l.lastTime) < period
           /\ Answer(b, period) \in {"passed", "limited"}
           /\ Answer(b, period) = "passed" =>
                 /\ Credit(l, period) >= Credit(b, period) + period
                 /\ Credit(l, period) > 0
                 /\ l.burst > 0
           /\ Answer(b, period) = "limited" =>
                 /\ Credit(l, period) >= Credit(b, period)
                 /\ b.burst = Burst /\ l.burst = Burst
                 /\ Since(b.lastTime) < period
                 /\ Since(l.lastTime) = Since(b.lastTime)
<1> DEFINE k == Leaked(b, period)
           l == Limit(b, period)
<1>1. /\ k \in BucketType
      /\ Since(k.lastTime) < period
      /\ period * k.burst - Since(k.lastTime) >= period * b.burst - Since(b.lastTime)
      /\ k.burst = Burst =>
            b.burst = Burst /\ Since(b.lastTime) < period /\ Since(k.lastTime) = Since(b.lastTime)
  BY LeakedFacts
<1>2. b # NoBucket /\ k # NoBucket
  BY <1>1, NoBucketIsNone
<1>3. /\ k.lastTime \in 0..(Wrap - 1) /\ k.burst \in 0..Burst /\ Burst \in Nat \ {0}
      /\ b.lastTime \in 0..(Wrap - 1) /\ b.burst \in 0..Burst
  BY <1>1, LimitsAssumption DEF BucketType
<1>4. Since(k.lastTime) \in Nat /\ Since(b.lastTime) \in Nat
  BY <1>3, SinceType
<1> HIDE DEF k
<1>5. CASE k.burst = Burst
  <2>1. l = k /\ Answer(b, period) = "limited"
    BY <1>5 DEF Limit, Answer, IsFull, k
  <2>2. Credit(l, period) >= Credit(b, period)
    BY <1>1, <1>2, <2>1 DEF Credit
  <2>3. QED
    BY <1>1, <1>5, <2>1, <2>2
<1>6. CASE k.burst # Burst
  <2>1. l = [k EXCEPT !.burst = @ + 1] /\ Answer(b, period) = "passed"
    BY <1>6 DEF Limit, Answer, IsFull, k
  <2>2. l \in BucketType /\ l.lastTime = k.lastTime /\ l.burst = k.burst + 1
    BY <1>1, <1>3, <1>6, <2>1 DEF BucketType
  <2>3. l # NoBucket
    BY <2>2, NoBucketIsNone
  <2> HIDE DEF l
  <2>4. period * (k.burst + 1) = period * k.burst + period /\ period * k.burst >= 0
    BY <1>3, SMT
  <2>5. Credit(l, period) = period * k.burst + period - Since(k.lastTime)
    BY <1>3, <1>4, <2>2, <2>3, <2>4 DEF Credit
  <2>6. Credit(b, period) = period * b.burst - Since(b.lastTime)
    BY <1>2 DEF Credit
  <2>7. Credit(l, period) >= Credit(b, period) + period /\ Credit(l, period) > 0
    <3>1. period * b.burst \in Int /\ period * k.burst \in Int
      BY <1>3
    <3>2. QED
      BY <1>1, <1>4, <2>4, <2>5, <2>6, <3>1
  <2>8. QED
    BY <1>1, <1>3, <2>1, <2>2, <2>7 DEF l
<1>7. QED
  BY <1>5, <1>6 DEF l

-----------------------------------------------------------------------------
(* Type correctness *)

Table == [Addrs -> BucketType \cup {NoBucket}]

\* The collector and a request of the address a leave a table of buckets: one
\* entry more at most, and only where there was room.
LEMMA AddressAllowedFacts ==
    ASSUME TypeOK, NEW a \in Addrs, AddressAllowed(a)
    PROVE  /\ buckets' \in Table
           /\ Cardinality(InTable(buckets)') <= MaxBuckets
           /\ lastGC' \in 0..(Wrap - 1)
<1>1. buckets \in Table /\ clock \in Nat /\ lastGC \in 0..(Wrap - 1)
  BY DEF TypeOK, Table
<1>2. Now \in 0..(Wrap - 1)
  BY <1>1, SinceType
<1>3. Collected \in Table
  BY <1>1 DEF Collected, Table
<1> DEFINE old == BucketForAddress(a)
           new == IF old = NoBucket THEN NoBucket ELSE Limit(old, Period)
<1>4. [lastTime |-> Now, burst |-> 0] \in BucketType
  BY <1>2, LimitsAssumption DEF BucketType
<1>5. old \in BucketType \cup {NoBucket}
  BY <1>3, <1>4 DEF BucketForAddress, Table
<1>6. new \in BucketType \cup {NoBucket}
  <2> HIDE DEF old
  <2>1. old \in BucketType => Limit(old, Period) \in BucketType
    BY <1>1, LimitFacts, LimitsAssumption
  <2>2. QED
    BY <1>5, <2>1
<1>7. buckets' = [Collected EXCEPT ![a] = new]
  BY DEF AddressAllowed
<1> HIDE DEF new
<1>8. buckets' \in Table
  BY <1>3, <1>6, <1>7 DEF Table
<1>9. lastGC' \in 0..(Wrap - 1)
  BY <1>1, <1>2 DEF AddressAllowed
<1>10. Cardinality(InTable(buckets)') <= MaxBuckets
  <2> DEFINE T == InTable(Collected)
  <2>1. IsFiniteSet(Addrs) /\ MaxBuckets \in Nat
    BY LimitsAssumption
  <2>2. InTable(buckets) \subseteq Addrs /\ T \subseteq Addrs /\ InTable(buckets)' \subseteq Addrs
    BY DEF InTable
  <2>3. IsFiniteSet(InTable(buckets)) /\ IsFiniteSet(T) /\ IsFiniteSet(InTable(buckets)')
    BY <2>1, <2>2, FS_Subset
  <2>4. T \subseteq InTable(buckets)
    BY DEF InTable, Collected
  <2>5. Cardinality(T) <= MaxBuckets /\ Cardinality(T) \in Nat
    <3>1. Cardinality(T) <= Cardinality(InTable(buckets))
      BY <2>3, <2>4, FS_Subset
    <3>2. Cardinality(T) \in Nat /\ Cardinality(InTable(buckets)) \in Nat
      BY <2>3, FS_CardinalityType
    <3>3. QED
      BY <2>1, <3>1, <3>2 DEF TypeOK
  <2>6. InTable(buckets)' \subseteq T \cup {a}
    BY <1>3, <1>7 DEF InTable, Table
  <2>7. CASE a \in T \/ new = NoBucket
    <3>1. InTable(buckets)' \subseteq T
      BY <1>3, <1>7, <2>6, <2>7 DEF InTable, Table
    <3>2. Cardinality(InTable(buckets)') <= Cardinality(T)
      BY <2>3, <3>1, FS_Subset
    <3>3. Cardinality(InTable(buckets)') \in Nat
      BY <2>3, FS_CardinalityType
    <3>4. QED
      BY <2>1, <2>5, <3>2, <3>3
  <2>8. CASE a \notin T /\ new # NoBucket
    <3>1. Cardinality(T) < MaxBuckets
      BY <2>8 DEF new, BucketForAddress, HasRoom, InTable
    <3>2. IsFiniteSet(T \cup {a}) /\ Cardinality(T \cup {a}) = Cardinality(T) + 1
      BY <2>3, <2>8, FS_AddElement
    <3>3. Cardinality(InTable(buckets)') <= Cardinality(T \cup {a})
      BY <2>6, <3>2, FS_Subset
    <3>4. Cardinality(InTable(buckets)') \in Nat
      BY <2>3, FS_CardinalityType
    <3>5. QED
      BY <2>1, <2>5, <3>1, <3>2, <3>3, <3>4
  <2>9. QED
    BY <2>7, <2>8
<1>11. QED
  BY <1>8, <1>9, <1>10

\* What the observer notes: only of the bucket it watches.
LEMMA NotedFacts ==
    ASSUME clock \in Nat, NEW w \in WatchType, NEW m \in Meters,
           NEW answer \in {"passed", "limited", "full"}
    PROVE  LET v == Noted(w, m, answer) IN
           /\ v \in WatchType
           /\ v.meter = w.meter /\ v.since = w.since
           /\ w.meter # m => v = w
           /\ w.meter = m => v.answer = answer
           /\ w.meter = m /\ answer = "passed" => v.passed = w.passed + 1 /\ v.last = clock
           /\ w.meter = m /\ answer # "passed" => v.passed = w.passed /\ v.last = w.last
<1> DEFINE v == Noted(w, m, answer)
<1>1. CASE w.meter # m
  BY <1>1 DEF Noted
<1>2. CASE w.meter = m /\ answer = "passed"
  <2>1. v = [w EXCEPT !.passed = @ + 1, !.last = clock, !.answer = answer]
    BY <1>2 DEF Noted
  <2>2. w.passed + 1 \in Nat
    BY DEF WatchType
  <2> HIDE DEF v
  <2>3. /\ v \in WatchType
        /\ v.meter = w.meter /\ v.since = w.since
        /\ v.answer = answer /\ v.passed = w.passed + 1 /\ v.last = clock
    BY <2>1, <2>2 DEF WatchType
  <2>4. QED
    BY <1>2, <2>3 DEF v
<1>3. CASE w.meter = m /\ answer # "passed"
  <2>1. v = [w EXCEPT !.answer = answer]
    BY <1>3 DEF Noted
  <2> HIDE DEF v
  <2>2. /\ v \in WatchType
        /\ v.meter = w.meter /\ v.since = w.since
        /\ v.answer = answer /\ v.passed = w.passed /\ v.last = w.last
    BY <2>1 DEF WatchType
  <2>3. QED
    BY <1>3, <2>2 DEF v
<1>4. QED
  BY <1>1, <1>2, <1>3

\* The observer stays an observer, whatever it notes.
LEMMA NotedType ==
    ASSUME clock \in Nat, NEW w \in WatchType, NEW m \in Meters,
           NEW answer \in {"passed", "limited", "full"}
    PROVE  Noted(w, m, answer) \in WatchType
  BY NotedFacts

\* What an address can be told.
LEMMA AddressAnswerType ==
    ASSUME TypeOK, NEW a \in Addrs
    PROVE  AddressAnswer(a) \in {"passed", "limited", "full"}
  BY DEF AddressAnswer, Answer

LEMMA EmptyTable ==
    LET none == [a \in Addrs |-> NoBucket] IN
    none \in Table /\ InTable(none) = {} /\ Cardinality(InTable(none)) <= MaxBuckets
<1> DEFINE none == [a \in Addrs |-> NoBucket]
<1>1. none \in Table /\ InTable(none) = {}
  BY DEF Table, InTable
<1>2. Cardinality({}) = 0
  BY FS_EmptySet
<1>3. QED
  BY <1>1, <1>2, LimitsAssumption

LEMMA InitialBuckets ==
    /\ ZeroBucket \in BucketType /\ 0 \in 0..(Wrap - 1)
    /\ NotWatching \in WatchType
  BY LimitsAssumption DEF ZeroBucket, BucketType, NotWatching, WatchType

LEMMA TypeStep == TypeOK /\ [Next]_vars => TypeOK'
<1> SUFFICES ASSUME TypeOK, [Next]_vars PROVE TypeOK'
  OBVIOUS
<1>0. clock \in Nat /\ buckets \in Table /\ Period \in Nat \ {0} /\ StatusPeriod \in Nat \ {0}
  BY LimitsAssumption DEF TypeOK, Table
<1>1. ASSUME NEW m \in Meters, Watch(m) PROVE TypeOK'
  <2>1. watch' \in WatchType
    BY <1>0, <1>1 DEF Watch, NotWatching, WatchType
  <2>2. QED
    BY <1>1, <2>1 DEF Watch, TypeOK, InTable
<1>2. ASSUME NEW a \in Addrs, Connect(a) PROVE TypeOK'
  <2>1. watch' \in WatchType
    BY <1>0, <1>2, NotedType, AddressAnswerType DEF Connect, TypeOK, Meters
  <2>2. QED
    BY <1>2, <2>1, AddressAllowedFacts DEF Connect, TypeOK, Table
<1>3. ASSUME NEW a \in Addrs, StatusRequest(a) PROVE TypeOK'
  <2>1. AddressAllowed(a) /\ UNCHANGED <<clock, loaded, badPassword>>
    BY <1>3 DEF StatusRequest
  <2>2. watch' \in WatchType /\ outbound' \in BucketType
    <3>1. CASE AddressAnswer(a) = "passed"
      <4>1. /\ outbound' = Limit(outbound, StatusPeriod)
            /\ watch' = Noted(Noted(watch, a, "passed"), Status, Answer(outbound, StatusPeriod))
        BY <1>3, <3>1 DEF StatusRequest
      <4>2. outbound' \in BucketType /\ Answer(outbound, StatusPeriod) \in {"passed", "limited"}
        BY <1>0, <4>1, LimitFacts DEF TypeOK
      <4>3. Noted(watch, a, "passed") \in WatchType
        BY <1>0, NotedType DEF TypeOK, Meters
      <4>4. watch' \in WatchType
        BY <1>0, <4>1, <4>2, <4>3, NotedType DEF Meters
      <4>5. QED
        BY <4>2, <4>4
    <3>2. CASE AddressAnswer(a) # "passed"
      <4>1. outbound' = outbound /\ watch' = Noted(watch, a, AddressAnswer(a))
        BY <1>3, <3>2 DEF StatusRequest
      <4>2. QED
        BY <1>0, <4>1, NotedType, AddressAnswerType DEF TypeOK, Meters
    <3>3. QED
      BY <3>1, <3>2
  <2>3. QED
    BY <2>1, <2>2, AddressAllowedFacts DEF TypeOK, Table
<1>4. ASSUME NEW valid \in BOOLEAN, RconRequest(valid) PROVE TypeOK'
  <2>1. watch' \in WatchType /\ badPassword' \in BucketType
    <3>1. CASE valid
      BY <1>4, <3>1 DEF RconRequest, TypeOK
    <3>2. CASE ~valid
      <4>1. /\ badPassword' = Limit(badPassword, Period)
            /\ watch' = Noted(watch, Rcon, Answer(badPassword, Period))
        BY <1>4, <3>2 DEF RconRequest
      <4>2. badPassword' \in BucketType /\ Answer(badPassword, Period) \in {"passed", "limited"}
        BY <1>0, <4>1, LimitFacts DEF TypeOK
      <4>3. QED
        BY <1>0, <4>1, <4>2, NotedType DEF TypeOK, Meters
    <3>3. QED
      BY <3>1, <3>2
  <2>2. QED
    BY <1>4, <2>1 DEF RconRequest, TypeOK, InTable
<1>5. CASE MapChange
  <2>1. buckets' \in Table /\ Cardinality(InTable(buckets)') <= MaxBuckets
    <3>1. buckets' = [a \in Addrs |-> NoBucket]
      BY <1>5 DEF MapChange
    <3>2. InTable(buckets)' = {}
      BY <3>1 DEF InTable
    <3>3. QED
      BY <3>1, <3>2, EmptyTable
  <2>2. loaded' \in 0..clock'
    BY <1>0, <1>5 DEF MapChange
  <2>3. QED
    BY <1>5, <2>1, <2>2, InitialBuckets DEF MapChange, TypeOK, Table
<1>6. CASE Tick
  <2>1. watch' \in WatchType
    BY <1>6 DEF Tick, TypeOK, WatchType
  <2>2. clock' \in Nat /\ loaded' \in 0..clock'
    BY <1>6 DEF Tick, TypeOK
  <2>3. QED
    BY <1>6, <2>1, <2>2 DEF Tick, TypeOK, InTable
<1>7. CASE UNCHANGED vars
  BY <1>7 DEF vars, TypeOK, InTable
<1>8. QED
  BY <1>1, <1>2, <1>3, <1>4, <1>5, <1>6, <1>7 DEF Next

\* Every variable keeps its type, and the table its cap.
THEOREM TypeCorrect == Spec => []TypeOK
<1>1. Init => TypeOK
  <2> SUFFICES ASSUME Init PROVE TypeOK
    OBVIOUS
  <2>1. clock \in Nat /\ loaded \in 0..clock
    BY LimitsAssumption DEF Init
  <2>2. InTable(buckets) = {} /\ Cardinality(InTable(buckets)) <= MaxBuckets
    BY EmptyTable DEF Init
  <2>3. QED
    BY <2>1, <2>2, EmptyTable, InitialBuckets DEF Init, TypeOK, Table
<1>2. QED
  BY <1>1, TypeStep, PTL DEF Spec

-----------------------------------------------------------------------------
(* What passes is paid *)

BucketOf(m) == IF m = Status THEN outbound ELSE IF m = Rcon THEN badPassword ELSE buckets[m]

\* The requests the observer w counted, paid by a credit and by the time since
\* it started, but for one period.
Paid(w, credit, period) ==
    w.passed = 0 \/ period * w.passed < credit + (clock - w.since) + period

Account ==
    watch.meter # Nothing =>
      /\ watch.since <= clock
      /\ Paid(watch, Credit(BucketOf(watch.meter), PeriodOf(watch.meter)), PeriodOf(watch.meter))

LEMMA CreditType ==
    ASSUME clock \in Nat, NEW b \in BucketType \cup {NoBucket}, NEW period \in Nat \ {0}
    PROVE  Credit(b, period) \in Int /\ Credit(b, period) <= period * Burst
<1>1. CASE b = NoBucket
  BY <1>1, LimitsAssumption, SMT DEF Credit
<1>2. CASE b \in BucketType
  <2>1. b.burst \in 0..Burst /\ b.lastTime \in 0..(Wrap - 1) /\ Burst \in Nat
    BY <1>2, LimitsAssumption DEF BucketType
  <2>2. Since(b.lastTime) \in 0..(Wrap - 1)
    BY <2>1, SinceType
  <2>3. Credit(b, period) = period * b.burst - Since(b.lastTime)
    BY <1>2, NoBucketIsNone DEF Credit
  <2>4. period * b.burst \in Int /\ period * Burst \in Int
    BY <2>1
  <2>5. period * b.burst <= period * Burst
    <3>1. Burst > b.burst => period * Burst >= period * b.burst + period
      BY <2>1, Times
    <3>2. QED
      BY <2>1, <2>4, <3>1
  <2>6. QED
    BY <2>2, <2>3, <2>4, <2>5
<1>3. QED
  BY <1>1, <1>2

\* The collector only erases a bucket that owes nothing.
LEMMA CollectedCredit ==
    ASSUME TypeOK, NEW b \in Addrs
    PROVE  Credit(Collected[b], Period) >= Credit(buckets[b], Period)
<1>1. clock \in Nat /\ buckets[b] \in BucketType \cup {NoBucket} /\ Period \in Nat \ {0}
  BY LimitsAssumption DEF TypeOK
<1>2. Credit(buckets[b], Period) \in Int
  BY <1>1, CreditType
<1>3. CASE CollectionDue /\ Expired(buckets[b])
  <2>1. Collected[b] = NoBucket /\ buckets[b] \in BucketType
    BY <1>1, <1>3 DEF Collected, Expired
  <2>2. buckets[b].burst \in Nat /\ buckets[b].lastTime \in 0..(Wrap - 1)
    BY <2>1 DEF BucketType
  <2>3. Since(buckets[b].lastTime) > Period * buckets[b].burst
    BY <1>1, <1>3, <2>2 DEF Expired
  <2>4. Period * buckets[b].burst \in Int /\ Since(buckets[b].lastTime) \in Int
    BY <1>1, <2>2, SinceType
  <2>5. Credit(buckets[b], Period) = Period * buckets[b].burst - Since(buckets[b].lastTime)
    BY <2>1, NoBucketIsNone DEF Credit
  <2>6. QED
    BY <2>1, <2>3, <2>4, <2>5 DEF Credit
<1>4. CASE ~(CollectionDue /\ Expired(buckets[b]))
  BY <1>2, <1>4 DEF Collected
<1>5. QED
  BY <1>3, <1>4

\* A packet of the address a: no credit goes down, and the one of a goes up by
\* a period when the packet passes.
LEMMA AddressCredit ==
    ASSUME TypeOK, NEW a \in Addrs, AddressAllowed(a)
    PROVE  /\ \A b \in Addrs : Credit(buckets'[b], Period) >= Credit(buckets[b], Period)
           /\ AddressAnswer(a) = "passed" =>
                 /\ Credit(buckets'[a], Period) >= Credit(buckets[a], Period) + Period
                 /\ Credit(buckets'[a], Period) > 0
<1> DEFINE old == BucketForAddress(a)
           new == IF old = NoBucket THEN NoBucket ELSE Limit(old, Period)
<1>1. /\ clock \in Nat /\ Now \in 0..(Wrap - 1) /\ Period \in Nat \ {0} /\ Burst \in Nat \ {0}
      /\ buckets \in Table
  BY SinceType, LimitsAssumption DEF TypeOK, Table
<1>2. Collected \in Table
  BY <1>1 DEF Collected, Table
<1>3. buckets' = [Collected EXCEPT ![a] = new]
  BY DEF AddressAllowed
<1>4. old \in BucketType \cup {NoBucket}
  BY <1>1, <1>2 DEF BucketForAddress, BucketType, Table
<1>5. Credit(old, Period) >= Credit(Collected[a], Period)
  <2>1. CASE Collected[a] # NoBucket
    <3>1. old = Collected[a]
      BY <2>1 DEF BucketForAddress
    <3>2. Credit(old, Period) \in Int
      BY <1>1, <1>4, CreditType
    <3>3. QED
      BY <3>1, <3>2
  <2>2. CASE Collected[a] = NoBucket
    <3>1. old = NoBucket \/ old = [lastTime |-> Now, burst |-> 0]
      BY <2>2 DEF BucketForAddress
    <3>2. Credit(NoBucket, Period) = 0
      BY DEF Credit
    <3>3. Credit([lastTime |-> Now, burst |-> 0], Period) = 0
      <4>1. [lastTime |-> Now, burst |-> 0] # NoBucket
        BY DEF NoBucket
      <4>2. Since(Now) = 0
        BY <1>1, SinceNow
      <4>3. Period * 0 = 0
        BY <1>1
      <4>4. QED
        BY <4>1, <4>2, <4>3 DEF Credit
    <3>4. QED
      BY <2>2, <3>1, <3>2, <3>3
  <2>3. QED
    BY <2>1, <2>2
<1>6. Credit(Collected[a], Period) >= Credit(buckets[a], Period)
  BY CollectedCredit
<1>7. /\ Credit(new, Period) >= Credit(old, Period)
      /\ AddressAnswer(a) = "passed" =>
            Credit(new, Period) >= Credit(old, Period) + Period /\ Credit(new, Period) > 0
  <2>1. CASE old = NoBucket
    BY <2>1 DEF AddressAnswer, Credit
  <2>2. CASE old # NoBucket
    <3> DEFINE l == Limit(old, Period)
    <3>1. old \in BucketType /\ new = l /\ AddressAnswer(a) = Answer(old, Period)
      BY <1>4, <2>2 DEF AddressAnswer
    <3>2. l \in BucketType
      BY <1>1, <3>1, LimitFacts
    <3>3. Credit(l, Period) \in Int /\ Credit(old, Period) \in Int
      BY <1>1, <3>1, <3>2, CreditType
    <3>4. QED
      BY <1>1, <3>1, <3>3, LimitFacts
  <2>3. QED
    BY <2>1, <2>2
<1>8. new \in BucketType \cup {NoBucket}
  BY <1>1, <1>4, LimitFacts
<1>9. /\ Credit(new, Period) \in Int /\ Credit(old, Period) \in Int
      /\ Credit(Collected[a], Period) \in Int /\ Credit(buckets[a], Period) \in Int
  BY <1>1, <1>2, <1>4, <1>8, CreditType DEF Table
<1>10. buckets'[a] = new /\ \A b \in Addrs \ {a} : buckets'[b] = Collected[b]
  BY <1>2, <1>3 DEF Table
<1> HIDE DEF new, old
<1>11. \A b \in Addrs \ {a} : Credit(buckets'[b], Period) >= Credit(buckets[b], Period)
  BY <1>10, CollectedCredit
<1>12. Credit(buckets'[a], Period) >= Credit(buckets[a], Period)
  BY <1>5, <1>6, <1>7, <1>9, <1>10
<1>13. QED
  BY <1>1, <1>5, <1>6, <1>7, <1>9, <1>10, <1>11, <1>12

\* The account stays paid when a credit does not go down, and when a request
\* passes and the credit takes it.
LEMMA NotedPaid ==
    ASSUME clock \in Nat, NEW w \in WatchType, w.since <= clock,
           NEW period \in Nat \ {0}, NEW c \in Int, NEW d \in Int, d >= c,
           NEW m \in Meters, NEW answer \in {"passed", "limited", "full"},
           w.meter = m /\ answer = "passed" => d >= c + period /\ d > 0,
           Paid(w, c, period)
    PROVE  Paid(Noted(w, m, answer), d, period)
<1> DEFINE v == Noted(w, m, answer)
<1>1. w.since \in Nat /\ w.passed \in Nat
  BY DEF WatchType
<1>2. /\ v.since = w.since
      /\ v.passed = IF w.meter = m /\ answer = "passed" THEN w.passed + 1 ELSE w.passed
  BY NotedFacts
<1>3. /\ period * (w.passed + 1) = period * w.passed + period
      /\ period * w.passed \in Int /\ period * (w.passed + 1) \in Int
      /\ w.passed = 0 => period * (w.passed + 1) = period
  BY <1>1, SMT
<1>4. w.passed = 0 \/ period * w.passed < c + (clock - w.since) + period
  BY DEF Paid
<1> HIDE DEF v
<1>5. CASE w.meter = m /\ answer = "passed"
  <2>1. v.passed = w.passed + 1
    BY <1>2, <1>5
  <2>2. period * v.passed < d + (clock - v.since) + period
    BY <1>1, <1>2, <1>3, <1>4, <1>5, <2>1
  <2>3. QED
    BY <2>2 DEF Paid, v
<1>6. CASE ~(w.meter = m /\ answer = "passed")
  <2>1. v.passed = w.passed
    BY <1>2, <1>6
  <2>2. v.passed = 0 \/ period * v.passed < d + (clock - v.since) + period
    BY <1>1, <1>2, <1>3, <1>4, <2>1
  <2>3. QED
    BY <2>2 DEF Paid, v
<1>7. QED
  BY <1>5, <1>6

\* The bucket of every meter is one, or none; and its credit is a number.
LEMMA BucketOfType ==
    ASSUME TypeOK, NEW m \in Meters
    PROVE  /\ PeriodOf(m) \in Nat \ {0}
           /\ BucketOf(m) \in BucketType \cup {NoBucket}
           /\ Credit(BucketOf(m), PeriodOf(m)) \in Int
           /\ Credit(BucketOf(m), PeriodOf(m)) <= PeriodOf(m) * Burst
<1>1. PeriodOf(m) \in Nat \ {0} /\ BucketOf(m) \in BucketType \cup {NoBucket}
  BY LimitsAssumption DEF TypeOK, BucketOf, PeriodOf, Meters
<1>2. clock \in Nat
  BY DEF TypeOK
<1>3. QED
  BY <1>1, <1>2, CreditType

\* A tick takes one of each credit, at most.
LEMMA CreditTick ==
    ASSUME clock \in Nat, clock' = clock + 1,
           NEW b \in BucketType \cup {NoBucket}, NEW period \in Nat \ {0}
    PROVE  Credit(b, period)' \in Int /\ Credit(b, period)' >= Credit(b, period) - 1
<1>1. CASE b = NoBucket
  BY <1>1 DEF Credit
<1>2. CASE b \in BucketType
  <2>1. b.lastTime \in 0..(Wrap - 1) /\ b.burst \in Int /\ b # NoBucket
    BY <1>2, LimitsAssumption, NoBucketIsNone DEF BucketType
  <2>2. Since(b.lastTime)' = IF Since(b.lastTime) + 1 < Wrap THEN Since(b.lastTime) + 1 ELSE 0
    BY <2>1, SinceTick
  <2>3. Since(b.lastTime) \in Nat /\ Since(b.lastTime)' \in Nat /\ Since(b.lastTime)' <= Since(b.lastTime) + 1
    BY <2>1, <2>2, SinceType
  <2>4. period * b.burst \in Int
    BY <2>1
  <2>5. /\ Credit(b, period) = period * b.burst - Since(b.lastTime)
        /\ Credit(b, period)' = period * b.burst - Since(b.lastTime)'
    BY <2>1 DEF Credit
  <2>6. QED
    BY <2>3, <2>4, <2>5
<1>3. QED
  BY <1>1, <1>2

\* In a step that does not move the clock, the account follows the credits.
LEMMA AccountStill ==
    ASSUME TypeOK, TypeOK', UNCHANGED clock,
           watch'.meter = watch.meter, watch'.since = watch.since,
           Account,
           NEW m, m = watch.meter,
           m # Nothing => Paid(watch', Credit(BucketOf(m)', PeriodOf(m)), PeriodOf(m))
    PROVE  Account'
  BY DEF Account, Paid, Credit, Since, Now, PeriodOf, BucketOf

LEMMA AccountStep == TypeOK /\ TypeOK' /\ Account /\ [Next]_vars => Account'
<1> SUFFICES ASSUME TypeOK, TypeOK', Account, [Next]_vars PROVE Account'
  OBVIOUS
<1>0. /\ clock \in Nat /\ watch \in WatchType /\ watch.meter \in Meters \cup {Nothing}
      /\ watch.since \in Nat /\ watch.passed \in Nat
      /\ Nothing \notin Meters /\ Addrs \subseteq Meters /\ Status \in Meters /\ Rcon \in Meters
      /\ Status \notin Addrs /\ Rcon \notin Addrs /\ Status # Rcon
  BY LimitsAssumption DEF TypeOK, WatchType, Meters
<1>m. PICK m : m = watch.meter
  OBVIOUS
<1> DEFINE p == PeriodOf(m)
           c == Credit(BucketOf(m), p)
           d == Credit(BucketOf(m)', p)
<1>1. m # Nothing => watch.since <= clock /\ Paid(watch, c, p)
  BY <1>m DEF Account
<1>2. m # Nothing => p \in Nat \ {0} /\ c \in Int
  BY <1>0, <1>m, BucketOfType
<1>3. clock' = clock /\ m # Nothing => d \in Int
  <2> SUFFICES ASSUME clock' = clock, m # Nothing PROVE d \in Int
    OBVIOUS
  <2>1. BucketOf(m)' \in BucketType \cup {NoBucket}
    BY <1>0, <1>m DEF TypeOK, BucketOf, Meters
  <2>2. QED
    BY <1>0, <1>2, <2>1, CreditType
<1>4. ASSUME NEW n \in Meters, Watch(n) PROVE Account'
  <2>1. clock' = clock /\ watch'.since = clock /\ watch'.passed = 0
    BY <1>4 DEF Watch, NotWatching
  <2>2. QED
    BY <1>0, <2>1 DEF Account, Paid
<1>5. ASSUME NEW a \in Addrs, Connect(a) PROVE Account'
  <2>1. /\ AddressAllowed(a) /\ UNCHANGED <<clock, loaded, outbound, badPassword>>
        /\ watch' = Noted(watch, a, AddressAnswer(a))
    BY <1>5 DEF Connect
  <2>2. watch'.meter = m /\ watch'.since = watch.since
    <3>1. a \in Meters /\ AddressAnswer(a) \in {"passed", "limited", "full"}
      BY <1>0, AddressAnswerType
    <3> HIDE DEF p, c, d
    <3>2. QED
      BY ZenonT(60), <1>0, <1>m, <2>1, <3>1, NotedFacts
  <2>3. ASSUME m # Nothing PROVE Paid(watch', d, p)
    <3>1. d >= c /\ (m = a /\ AddressAnswer(a) = "passed" => d >= c + p /\ d > 0)
      <4>1. CASE m \in Addrs
        <5>1. p = Period /\ BucketOf(m) = buckets[m] /\ BucketOf(m)' = buckets'[m]
          BY <1>0, <4>1 DEF PeriodOf, BucketOf
        <5>2. QED
          BY <2>1, <4>1, <5>1, AddressCredit
      <4>2. CASE m \in {Status, Rcon}
        <5>1. BucketOf(m)' = BucketOf(m)
          BY <1>0, <2>1, <4>2 DEF BucketOf
        <5>2. QED
          BY <1>0, <1>2, <2>3, <4>2, <5>1
      <4>3. QED
        BY <1>0, <1>m, <2>3, <4>1, <4>2 DEF Meters
    <3> HIDE DEF c, d, p
    <3>2. QED
      BY <1>m, <1>0, <1>1, <1>2, <1>3, <2>1, <2>3, <3>1, NotedPaid, AddressAnswerType
  <2>4. QED
    BY <1>m, <2>1, <2>2, <2>3, AccountStill
<1>6. ASSUME NEW a \in Addrs, StatusRequest(a) PROVE Account'
  <2>1. /\ AddressAllowed(a) /\ UNCHANGED <<clock, loaded, badPassword>>
    BY <1>6 DEF StatusRequest
  <2> DEFINE u == Noted(watch, a, AddressAnswer(a))
             answer == Answer(outbound, StatusPeriod)
  <2>2. /\ u \in WatchType /\ u.meter = m /\ u.since = watch.since
        /\ m # a => u = watch
    <3>1. a \in Meters /\ AddressAnswer(a) \in {"passed", "limited", "full"}
      BY <1>0, AddressAnswerType
    <3>2. QED
      BY ZenonT(60), <1>0, <1>m, <3>1, NotedFacts
  <2>3. CASE AddressAnswer(a) = "passed"
    <3>1. outbound' = Limit(outbound, StatusPeriod) /\ watch' = Noted(u, Status, answer)
      BY <1>6, <2>3 DEF StatusRequest
    <3>2. answer \in {"passed", "limited", "full"}
      BY DEF Answer
    <3>3. watch'.meter = m /\ watch'.since = watch.since /\ (m # Status => watch' = u)
      <4>1. u \in WatchType /\ clock \in Nat /\ Status \in Meters
        BY <1>0, <2>2
      <4> HIDE DEF u, answer, p, c, d
      <4>2. /\ watch'.meter = u.meter /\ watch'.since = u.since
            /\ u.meter # Status => watch' = u
        BY <3>1, <3>2, <4>1, NotedFacts
      <4>3. QED
        BY <2>2, <4>2
    <3>4. ASSUME m # Nothing PROVE Paid(watch', d, p)
      <4>1. CASE m \in Addrs
        <5>1. p = Period /\ BucketOf(m) = buckets[m] /\ BucketOf(m)' = buckets'[m]
          BY <1>0, <4>1 DEF PeriodOf, BucketOf
        <5>2. d >= c /\ (m = a => d >= c + p /\ d > 0)
          BY <2>1, <2>3, <4>1, <5>1, AddressCredit
        <5>3. watch' = u
          BY <1>0, <3>3, <4>1
        <5> HIDE DEF c, d, p
        <5>4. QED
          BY <1>m, <1>0, <1>1, <1>2, <1>3, <2>1, <2>3, <3>4, <5>2, <5>3, NotedPaid
      <4>2. CASE m = Status
        <5>1. p = StatusPeriod /\ BucketOf(m) = outbound /\ BucketOf(m)' = outbound'
          BY <4>2 DEF PeriodOf, BucketOf
        <5>2. outbound \in BucketType /\ outbound # NoBucket
          BY NoBucketIsNone DEF TypeOK
        <5>3. d >= c /\ (answer = "passed" => d >= c + p /\ d > 0)
          <6>1. outbound' \in BucketType
            BY DEF TypeOK
          <6>2. QED
            BY <1>0, <1>2, <1>3, <2>1, <3>1, <3>2, <3>4, <5>1, <5>2, LimitFacts
        <5>4. u = watch
          BY <1>0, <2>2, <4>2
        <5> HIDE DEF c, d, p, u, answer
        <5>5. QED
          BY <1>m, <1>0, <1>1, <1>2, <1>3, <2>1, <3>1, <3>2, <3>4, <4>2, <5>3, <5>4, NotedPaid
      <4>3. CASE m = Rcon
        <5>1. BucketOf(m)' = BucketOf(m) /\ watch' = watch
          BY <1>0, <2>1, <2>2, <3>3, <4>3 DEF BucketOf
        <5>2. QED
          BY <1>1, <3>4, <5>1
      <4>4. QED
        BY <1>0, <1>m, <3>4, <4>1, <4>2, <4>3 DEF Meters
    <3>5. QED
      BY <1>m, <2>1, <3>3, <3>4, AccountStill
  <2>4. CASE AddressAnswer(a) # "passed"
    <3>1. outbound' = outbound /\ watch' = u
      BY <1>6, <2>4 DEF StatusRequest
    <3>2. ASSUME m # Nothing PROVE Paid(watch', d, p)
      <4>1. d >= c
        <5>1. CASE m \in Addrs
          <6>1. p = Period /\ BucketOf(m) = buckets[m] /\ BucketOf(m)' = buckets'[m]
            BY <1>0, <5>1 DEF PeriodOf, BucketOf
          <6>2. QED
            BY <2>1, <5>1, <6>1, AddressCredit
        <5>2. CASE m \in {Status, Rcon}
          <6>1. BucketOf(m)' = BucketOf(m)
            BY <1>0, <2>1, <3>1, <5>2 DEF BucketOf
          <6>2. QED
            BY <1>2, <3>2, <6>1
        <5>3. QED
          BY <1>0, <1>m, <3>2, <5>1, <5>2 DEF Meters
      <4> HIDE DEF c, d, p
      <4>2. QED
        BY <1>m, <1>0, <1>1, <1>2, <1>3, <2>1, <2>4, <3>1, <3>2, <4>1, NotedPaid, AddressAnswerType
    <3>3. QED
      BY <1>m, <2>1, <2>2, <3>1, <3>2, AccountStill
  <2>5. QED
    BY <2>3, <2>4
<1>7. ASSUME NEW valid \in BOOLEAN, RconRequest(valid) PROVE Account'
  <2>1. UNCHANGED <<clock, loaded, buckets, lastGC, outbound>>
    BY <1>7 DEF RconRequest
  <2>2. CASE valid
    <3>1. badPassword' = badPassword /\ watch' = watch
      BY <1>7, <2>2 DEF RconRequest
    <3>2. QED
      BY <1>m, <1>1, <2>1, <3>1, AccountStill DEF BucketOf
  <2>3. CASE ~valid
    <3> DEFINE answer == Answer(badPassword, Period)
    <3>1. /\ badPassword' = Limit(badPassword, Period)
          /\ watch' = Noted(watch, Rcon, answer)
      BY <1>7, <2>3 DEF RconRequest
    <3>2. answer \in {"passed", "limited", "full"}
      BY DEF Answer
    <3>3. watch'.meter = m /\ watch'.since = watch.since /\ (m # Rcon => watch' = watch)
      <4> HIDE DEF answer
      <4>1. QED
        BY ZenonT(60), <1>0, <1>m, <3>1, <3>2, NotedFacts
    <3>4. ASSUME m # Nothing PROVE Paid(watch', d, p)
      <4>1. CASE m # Rcon
        <5>1. BucketOf(m)' = BucketOf(m) /\ watch' = watch
          BY <2>1, <3>3, <4>1 DEF BucketOf
        <5>2. QED
          BY <1>1, <3>4, <5>1
      <4>2. CASE m = Rcon
        <5>1. p = Period /\ BucketOf(m) = badPassword /\ BucketOf(m)' = badPassword'
          BY <1>0, <4>2 DEF PeriodOf, BucketOf
        <5>2. badPassword \in BucketType /\ badPassword' \in BucketType
          BY DEF TypeOK
        <5>3. d >= c /\ (answer = "passed" => d >= c + p /\ d > 0)
          BY <1>0, <1>2, <1>3, <2>1, <3>1, <3>2, <3>4, <5>1, <5>2, LimitFacts
        <5> HIDE DEF c, d, p, answer
        <5>4. QED
          BY <1>m, <1>0, <1>1, <1>2, <1>3, <2>1, <3>1, <3>2, <3>4, <4>2, <5>3, NotedPaid
      <4>3. QED
        BY <4>1, <4>2
    <3>5. QED
      BY <1>m, <2>1, <3>3, <3>4, AccountStill
  <2>4. QED
    BY <2>2, <2>3
<1>8. CASE MapChange
  BY <1>8 DEF MapChange, NotWatching, Account
<1>9. CASE Tick
  <2>1. /\ clock' = clock + 1 /\ watch'.meter = m
        /\ watch'.since = watch.since /\ watch'.passed = watch.passed
        /\ UNCHANGED <<buckets, outbound, badPassword>>
    BY <1>0, <1>m, <1>9 DEF Tick, WatchType
  <2>2. ASSUME m # Nothing PROVE Credit(BucketOf(m), p)' \in Int /\ Credit(BucketOf(m), p)' >= c - 1
    <3>1. PICK b : b = BucketOf(m)
      OBVIOUS
    <3>2. PICK q : q = p
      OBVIOUS
    <3>3. b \in BucketType \cup {NoBucket} /\ q \in Nat \ {0}
      BY <1>0, <1>m, <2>2, <3>1, <3>2, BucketOfType
    <3>4. BucketOf(m)' = b /\ p' = q
      BY <2>1, <3>1, <3>2 DEF BucketOf, PeriodOf
    <3>5. Credit(b, q)' \in Int /\ Credit(b, q)' >= Credit(b, q) - 1
      BY <1>0, <2>1, <3>3, CreditTick
    <3>6. Credit(BucketOf(m), p)' = Credit(b, q)' /\ c = Credit(b, q)
      BY <3>1, <3>2, <3>4 DEF Credit, Since, Now
    <3>7. QED
      BY <3>5, <3>6
  <2>3. ASSUME m # Nothing PROVE watch'.since <= clock' /\ Paid(watch, Credit(BucketOf(m), p), p)'
    <3> DEFINE e == Credit(BucketOf(m), p)'
    <3>1. e \in Int /\ e >= c - 1
      BY <2>2, <2>3
    <3>2. p' = p /\ p \in Nat \ {0} /\ c \in Int
      BY <1>2, <2>3 DEF PeriodOf
    <3>3. watch.since <= clock /\ (watch.passed = 0 \/ p * watch.passed < c + (clock - watch.since) + p)
      BY <1>1, <2>3 DEF Paid
    <3>4. p * watch.passed \in Int
      BY <1>0, <3>2
    <3> HIDE DEF p, c, e
    <3>5. /\ watch'.since <= clock'
          /\ watch'.passed = 0 \/ p * watch'.passed < e + (clock' - watch'.since) + p
      BY <1>0, <2>1, <3>1, <3>2, <3>3, <3>4
    <3>6. QED
      BY <3>2, <3>5 DEF Paid, e
  <2>4. QED
    BY <2>1, <2>3 DEF Account, Paid, Credit, Since, Now, BucketOf, PeriodOf
<1>10. CASE UNCHANGED vars
  BY <1>m, <1>1, <1>10, AccountStill DEF vars, BucketOf
<1>11. QED
  BY <1>4, <1>5, <1>6, <1>7, <1>8, <1>9, <1>10 DEF Next

LEMMA AccountBounds == TypeOK /\ Account => RateBound
<1> SUFFICES ASSUME TypeOK, Account, watch.meter # Nothing
             PROVE  PeriodOf(watch.meter) * (watch.passed - Burst)
                      < clock - watch.since + PeriodOf(watch.meter)
  BY DEF RateBound
<1> DEFINE p == PeriodOf(watch.meter)
           c == Credit(BucketOf(watch.meter), p)
<1>1. watch.meter \in Meters /\ watch.since \in Nat /\ watch.passed \in Nat /\ clock \in Nat
  BY DEF TypeOK, WatchType
<1>2. p \in Nat \ {0} /\ c \in Int /\ c <= p * Burst /\ Burst \in Nat
  BY <1>1, BucketOfType, LimitsAssumption
<1>3. watch.since <= clock /\ (watch.passed = 0 \/ p * watch.passed < c + (clock - watch.since) + p)
  BY DEF Account, Paid
<1> HIDE DEF p, c
<1>4. /\ p * (watch.passed - Burst) = p * watch.passed - p * Burst
      /\ p * watch.passed \in Int /\ p * Burst \in Nat
      /\ watch.passed = 0 => p * watch.passed = 0
  BY <1>1, <1>2, SMT
<1>5. p * (watch.passed - Burst) < clock - watch.since + p
  BY <1>1, <1>2, <1>3, <1>4
<1>6. QED
  BY <1>5 DEF p

\* Over any interval, any bucket, whatever the packets, the wraps of the clock
\* and the collections: at most a burst, and one request per period begun.
THEOREM RateBounded == Spec => []RateBound
<1>1. Init => Account
  BY LimitsAssumption DEF Init, Account, NotWatching
<1>2. QED
  BY <1>1, TypeCorrect, AccountStep, AccountBounds, PTL DEF Spec

-----------------------------------------------------------------------------
(* A full bucket is full of late requests *)


\* The age of a bucket, as the code sees it, is at most the life of this load
\* and a period: no time of a bucket is a whole turn of the clock old.
Aged ==
    \A m \in Meters :
      BucketOf(m) # NoBucket /\ BucketOf(m).burst > 0 =>
        Since(BucketOf(m).lastTime) <= clock - loaded + PeriodOf(m)

\* While it is full, the bucket that is watched is not younger than the last
\* request it let through, nor than the observer.
Late(b, w) == b # NoBucket /\ b.burst = Burst => Since(b.lastTime) >= clock - w.last

Timely ==
    IF watch.meter = Nothing THEN watch.answer = "none"
    ELSE Late(BucketOf(watch.meter), watch) /\ NeverStarved

\* What a packet does to the bucket of m and to its observer: nothing, but for
\* the collector; no room; a limit.
Served(m) ==
    \/ /\ BucketOf(m)' \in {BucketOf(m), NoBucket}
       /\ watch.meter = m => watch' = watch
    \/ /\ BucketOf(m)' = NoBucket
       /\ watch.meter = m => watch' = Noted(watch, m, "full")
    \/ \E b \in BucketType :
          /\ b = BucketOf(m) \/ b.burst = 0
          /\ BucketOf(m)' = Limit(b, PeriodOf(m))
          /\ watch.meter = m => watch' = Noted(watch, m, Answer(b, PeriodOf(m)))

LEMMA AddressTable ==
    ASSUME TypeOK, NEW a \in Addrs, AddressAllowed(a)
    PROVE  /\ \A b \in Addrs \ {a} : buckets'[b] \in {buckets[b], NoBucket}
           /\ \/ buckets'[a] = NoBucket /\ AddressAnswer(a) = "full"
              \/ \E b \in BucketType :
                    /\ b = buckets[a] \/ b.burst = 0
                    /\ buckets'[a] = Limit(b, Period)
                    /\ AddressAnswer(a) = Answer(b, Period)
<1> DEFINE old == BucketForAddress(a)
<1>1. clock \in Nat /\ Now \in 0..(Wrap - 1) /\ Burst \in Nat \ {0} /\ buckets \in Table
  BY SinceType, LimitsAssumption DEF TypeOK, Table
<1>2. Collected \in Table /\ \A b \in Addrs : Collected[b] \in {buckets[b], NoBucket}
  BY <1>1 DEF Collected, Table
<1>3. buckets' = [Collected EXCEPT ![a] = IF old = NoBucket THEN NoBucket ELSE Limit(old, Period)]
  BY DEF AddressAllowed
<1>4. /\ \A b \in Addrs \ {a} : buckets'[b] \in {buckets[b], NoBucket}
      /\ buckets'[a] = IF old = NoBucket THEN NoBucket ELSE Limit(old, Period)
  <2> HIDE DEF old
  <2>1. QED
    BY <1>2, <1>3 DEF Table
<1>5. old = NoBucket \/ (old \in BucketType /\ (old = buckets[a] \/ old.burst = 0))
  BY <1>1, <1>2 DEF BucketForAddress, BucketType, Table
<1>6. AddressAnswer(a) = IF old = NoBucket THEN "full" ELSE Answer(old, Period)
  BY DEF AddressAnswer
<1> HIDE DEF old
<1>7. QED
  BY <1>4, <1>5, <1>6

\* A packet of an address serves its bucket, and no other of the table.
LEMMA AddressServes ==
    ASSUME TypeOK, NEW a \in Addrs, AddressAllowed(a), NEW m \in Addrs,
           watch.meter \in Addrs => watch' = Noted(watch, a, AddressAnswer(a))
    PROVE  Served(m)
<1>1. m # Status /\ m # Rcon
  BY LimitsAssumption
<1>2. BucketOf(m) = buckets[m] /\ BucketOf(m)' = buckets'[m] /\ PeriodOf(m) = Period
  BY <1>1 DEF BucketOf, PeriodOf
<1>3. CASE m # a
  <2>1. watch.meter = m => watch' = watch
    BY <1>3 DEF Noted
  <2>2. buckets'[m] \in {buckets[m], NoBucket}
    BY <1>3, AddressTable
  <2>3. QED
    BY <1>2, <2>1, <2>2 DEF Served
<1>4. CASE m = a
  <2>1. watch.meter = m => watch' = Noted(watch, m, AddressAnswer(a))
    BY <1>4
  <2>2. CASE buckets'[a] = NoBucket /\ AddressAnswer(a) = "full"
    BY <1>2, <1>4, <2>1, <2>2 DEF Served
  <2>3. ASSUME NEW b \in BucketType, b = buckets[a] \/ b.burst = 0,
               buckets'[a] = Limit(b, Period), AddressAnswer(a) = Answer(b, Period)
        PROVE  Served(m)
    <3>1. /\ b = BucketOf(m) \/ b.burst = 0
          /\ BucketOf(m)' = Limit(b, PeriodOf(m))
          /\ watch.meter = m => watch' = Noted(watch, m, Answer(b, PeriodOf(m)))
      BY <1>2, <1>4, <2>1, <2>3
    <3>2. QED
      BY <3>1 DEF Served
  <2>4. QED
    BY <2>2, <2>3, AddressTable
<1>5. QED
  BY <1>3, <1>4

\* Every packet serves, in this sense, every bucket.
LEMMA Serves ==
    ASSUME TypeOK, NEW m \in Meters,
           \/ \E a \in Addrs : Connect(a) \/ StatusRequest(a)
           \/ \E valid \in BOOLEAN : RconRequest(valid)
    PROVE  Served(m)
<1>0. /\ m \in Addrs \/ m = Status \/ m = Rcon
      /\ Status \notin Addrs /\ Rcon \notin Addrs /\ Status # Rcon
  BY LimitsAssumption DEF Meters
<1>1. ASSUME NEW a \in Addrs, Connect(a) PROVE Served(m)
  <2>1. /\ AddressAllowed(a) /\ UNCHANGED <<outbound, badPassword>>
        /\ watch' = Noted(watch, a, AddressAnswer(a))
    BY <1>1 DEF Connect
  <2>2. CASE m \in Addrs
    BY <2>1, <2>2, AddressServes
  <2>3. CASE m \notin Addrs
    <3>1. BucketOf(m)' = BucketOf(m)
      BY <1>0, <2>1, <2>3 DEF BucketOf
    <3>2. watch.meter = m => watch' = watch
      BY <2>1, <2>3 DEF Noted
    <3>3. QED
      BY <3>1, <3>2 DEF Served
  <2>4. QED
    BY <2>2, <2>3
<1>2. ASSUME NEW a \in Addrs, StatusRequest(a) PROVE Served(m)
  <2>1. AddressAllowed(a) /\ UNCHANGED badPassword
    BY <1>2 DEF StatusRequest
  <2> DEFINE u == Noted(watch, a, AddressAnswer(a))
             answer == Answer(outbound, StatusPeriod)
  <2>2. \/ /\ AddressAnswer(a) = "passed" /\ outbound' = Limit(outbound, StatusPeriod)
           /\ watch' = Noted(u, Status, answer)
        \/ outbound' = outbound /\ watch' = u
    BY <1>2 DEF StatusRequest
  <2>3. (watch.meter # a => u = watch) /\ (watch.meter \in Addrs => u.meter \in Addrs)
    BY DEF Noted, AddressAnswer, Answer
  <2>4. u.meter \in Addrs => Noted(u, Status, answer) = u
    BY <1>0 DEF Noted
  <2> HIDE DEF u, answer
  <2>5. CASE m \in Addrs
    <3>1. watch.meter \in Addrs => watch' = u
      BY <2>2, <2>3, <2>4
    <3>2. QED
      BY <2>1, <2>5, <3>1, AddressServes DEF u
  <2>6. CASE m = Status
    <3>1. BucketOf(m) = outbound /\ BucketOf(m)' = outbound' /\ PeriodOf(m) = StatusPeriod
      BY <2>6 DEF BucketOf, PeriodOf
    <3>2. watch.meter = m => u = watch
      BY <1>0, <2>3, <2>6
    <3>3. outbound \in BucketType
      BY DEF TypeOK
    <3>4. CASE outbound' = outbound /\ watch' = u
      BY <3>1, <3>2, <3>4 DEF Served
    <3>5. CASE outbound' = Limit(outbound, StatusPeriod) /\ watch' = Noted(u, Status, answer)
      <4>1. /\ BucketOf(m)' = Limit(outbound, PeriodOf(m))
            /\ watch.meter = m => watch' = Noted(watch, m, Answer(outbound, PeriodOf(m)))
        BY <2>6, <3>1, <3>2, <3>5 DEF answer
      <4>2. QED
        BY <3>1, <3>3, <4>1 DEF Served
    <3>6. QED
      BY <2>2, <3>4, <3>5
  <2>7. CASE m = Rcon
    <3>1. BucketOf(m)' = BucketOf(m)
      BY <1>0, <2>1, <2>7 DEF BucketOf
    <3>2. watch.meter = m => u = watch /\ Noted(u, Status, answer) = watch
      BY <1>0, <2>3, <2>7 DEF Noted
    <3>3. QED
      BY <2>2, <3>1, <3>2 DEF Served
  <2>8. QED
    BY <1>0, <2>5, <2>6, <2>7
<1>3. ASSUME NEW valid \in BOOLEAN, RconRequest(valid) PROVE Served(m)
  <2>1. UNCHANGED <<buckets, outbound>>
    BY <1>3 DEF RconRequest
  <2>2. CASE valid
    <3>1. BucketOf(m)' = BucketOf(m) /\ watch' = watch
      BY <1>3, <2>1, <2>2 DEF RconRequest, BucketOf
    <3>2. QED
      BY <3>1 DEF Served
  <2>3. CASE ~valid
    <3>1. /\ badPassword' = Limit(badPassword, Period)
          /\ watch' = Noted(watch, Rcon, Answer(badPassword, Period))
      BY <1>3, <2>3 DEF RconRequest
    <3>2. CASE m = Rcon
      <4>1. BucketOf(m) = badPassword /\ BucketOf(m)' = badPassword' /\ PeriodOf(m) = Period
        BY <1>0, <3>2 DEF BucketOf, PeriodOf
      <4>2. badPassword \in BucketType
        BY DEF TypeOK
      <4>3. QED
        BY <3>1, <3>2, <4>1, <4>2 DEF Served
    <3>3. CASE m # Rcon
      <4>1. BucketOf(m)' = BucketOf(m)
        BY <2>1, <3>3 DEF BucketOf
      <4>2. watch.meter = m => watch' = watch
        BY <3>1, <3>3 DEF Noted
      <4>3. QED
        BY <4>1, <4>2 DEF Served
    <3>4. QED
      BY <3>2, <3>3
  <2>4. QED
    BY <2>2, <2>3
<1>4. QED
  BY <1>1, <1>2, <1>3

LEMMA ServedAged ==
    ASSUME TypeOK, Aged, UNCHANGED <<clock, loaded>>, NEW m \in Meters, Served(m)
    PROVE  BucketOf(m)' # NoBucket /\ BucketOf(m)'.burst > 0 =>
             Since(BucketOf(m)'.lastTime) <= clock - loaded + PeriodOf(m)
<1>1. clock \in Nat /\ loaded \in Nat /\ loaded <= clock /\ PeriodOf(m) \in Nat \ {0}
  BY BucketOfType DEF TypeOK
<1>2. CASE BucketOf(m)' \in {BucketOf(m), NoBucket}
  BY <1>2 DEF Aged
<1>3. ASSUME NEW b \in BucketType, BucketOf(m)' = Limit(b, PeriodOf(m))
      PROVE  Since(BucketOf(m)'.lastTime) <= clock - loaded + PeriodOf(m)
  <2> DEFINE l == Limit(b, PeriodOf(m))
  <2>1. l \in BucketType /\ Since(l.lastTime) < PeriodOf(m)
    BY <1>1, LimitFacts
  <2>2. l.lastTime \in 0..(Wrap - 1)
    BY <2>1 DEF BucketType
  <2>3. Since(l.lastTime) \in Nat
    BY <1>1, <2>2, SinceType
  <2> HIDE DEF l
  <2>4. Since(l.lastTime) <= clock - loaded + PeriodOf(m)
    BY <1>1, <2>1, <2>3
  <2>5. QED
    BY <1>3, <2>4 DEF l
<1>4. QED
  BY <1>2, <1>3 DEF Served

\* No bucket makes a turn of the clock at a tick.
LEMMA TickAges ==
    ASSUME TypeOK, Aged, Tick, NEW m \in Meters, NEW b, b = BucketOf(m),
           b # NoBucket, b.burst > 0
    PROVE  Since(b.lastTime) \in Nat /\ Since(b.lastTime)' = Since(b.lastTime) + 1
<1>1. /\ clock \in Nat /\ loaded \in Nat /\ clock' = clock + 1 /\ clock - loaded < MaxLife
      /\ MaxLife \in Nat /\ Wrap \in Nat
      /\ PeriodOf(m) \in Nat \ {0} /\ MaxLife + PeriodOf(m) < Wrap
  BY LimitsAssumption, LifeAssumption DEF TypeOK, Tick, PeriodOf
<1>2. b \in BucketType
  BY BucketOfType
<1>3. b.lastTime \in 0..(Wrap - 1)
  BY <1>2 DEF BucketType
<1>4. Since(b.lastTime) \in Nat /\ Since(b.lastTime) <= clock - loaded + PeriodOf(m)
  BY <1>1, <1>3, SinceType DEF Aged
<1>5. Since(b.lastTime) + 1 < Wrap
  BY <1>1, <1>4
<1>6. QED
  BY <1>1, <1>3, <1>4, <1>5, SinceTick

LEMMA AgedStep == TypeOK /\ Aged /\ [Next]_vars => Aged'
<1> SUFFICES ASSUME TypeOK, Aged, [Next]_vars, NEW m \in Meters,
                    BucketOf(m)' # NoBucket, BucketOf(m)'.burst > 0
             PROVE  (Since(BucketOf(m).lastTime) <= clock - loaded + PeriodOf(m))'
  BY DEF Aged
<1>1. CASE \/ \E a \in Addrs : Connect(a) \/ StatusRequest(a)
           \/ \E valid \in BOOLEAN : RconRequest(valid)
  <2>1. UNCHANGED <<clock, loaded>>
    BY <1>1 DEF Connect, StatusRequest, RconRequest
  <2>2. Served(m)
    BY <1>1, Serves
  <2>3. Since(BucketOf(m)'.lastTime) <= clock - loaded + PeriodOf(m)
    BY <2>1, <2>2, ServedAged
  <2>4. QED
    BY <2>1, <2>3 DEF Since, Now, PeriodOf
<1>2. CASE (\E n \in Meters : Watch(n)) \/ UNCHANGED vars
  <2>1. UNCHANGED <<clock, loaded, buckets, outbound, badPassword>>
    BY <1>2 DEF Watch, vars
  <2>2. QED
    BY <2>1 DEF Aged, BucketOf, Since, Now, PeriodOf
<1>3. CASE MapChange
  <2>1. BucketOf(m)' \in {NoBucket, ZeroBucket}
    BY <1>3 DEF MapChange, BucketOf, Meters
  <2>2. QED
    BY <2>1 DEF ZeroBucket
<1>4. CASE Tick
  <2>1. PICK b : b = BucketOf(m)
    OBVIOUS
  <2>2. BucketOf(m)' = b /\ clock' = clock + 1 /\ loaded' = loaded
    BY <1>4, <2>1 DEF Tick, BucketOf
  <2>3. Since(b.lastTime) \in Nat /\ Since(b.lastTime)' = Since(b.lastTime) + 1
    BY <1>4, <2>1, <2>2, TickAges
  <2>4. Since(b.lastTime) <= clock - loaded + PeriodOf(m)
    BY <2>1, <2>2 DEF Aged
  <2>5. clock \in Nat /\ loaded \in Nat /\ PeriodOf(m) \in Nat /\ PeriodOf(m)' = PeriodOf(m)
    BY BucketOfType DEF TypeOK, PeriodOf
  <2>6. Since(BucketOf(m).lastTime)' = Since(b.lastTime)'
    BY <2>2 DEF Since, Now
  <2>7. QED
    BY <2>2, <2>3, <2>4, <2>5, <2>6
<1>5. QED
  BY <1>1, <1>2, <1>3, <1>4 DEF Next

\* A limit lets the observer late, or refuses within a period of the last
\* request it let through.
LEMMA LimitLate ==
    ASSUME clock \in Nat, NEW b \in BucketType, NEW period \in Nat \ {0},
           NEW w \in WatchType, w.meter \in Meters, Late(b, w)
    PROVE  LET l == Limit(b, period)
               v == Noted(w, w.meter, Answer(b, period))
           IN  /\ Late(l, v)
               /\ v.answer = "limited" => clock - v.last < period
<1> DEFINE l == Limit(b, period)
           answer == Answer(b, period)
           v == Noted(w, w.meter, answer)
<1>1. /\ l \in BucketType /\ answer \in {"passed", "limited", "full"}
      /\ answer = "limited" =>
            b.burst = Burst /\ Since(b.lastTime) < period /\ Since(l.lastTime) = Since(b.lastTime)
  BY LimitFacts
<1>2. v.answer = answer /\ v.last = IF answer = "passed" THEN clock ELSE w.last
  <2>1. answer \in {"passed", "limited", "full"}
    BY <1>1
  <2> HIDE DEF answer
  <2>2. QED
    BY <2>1, NotedFacts
<1>3. b # NoBucket /\ answer \in {"passed", "limited"}
  BY NoBucketIsNone DEF Answer
<1>4. /\ l.lastTime \in 0..(Wrap - 1) /\ b.lastTime \in 0..(Wrap - 1)
      /\ w.last \in Nat
  BY <1>1 DEF BucketType, WatchType
<1>5. Since(l.lastTime) \in Nat /\ Since(b.lastTime) \in Nat
  BY <1>4, SinceType
<1> HIDE DEF l, answer, v
<1>6. CASE answer = "passed"
  <2>1. clock - v.last = 0
    BY <1>2, <1>6
  <2>2. QED
    BY <1>2, <1>5, <1>6, <2>1 DEF Late, l, v, answer
<1>7. CASE answer = "limited"
  <2>1. Since(b.lastTime) >= clock - w.last /\ v.last = w.last
    BY <1>1, <1>2, <1>3, <1>7 DEF Late
  <2>2. Since(l.lastTime) >= clock - v.last /\ clock - v.last < period
    BY <1>1, <1>4, <1>5, <1>7, <2>1
  <2>3. QED
    BY <2>2 DEF Late, l, v, answer
<1>8. QED
  BY <1>3, <1>6, <1>7

LEMMA TimelyStep == TypeOK /\ TypeOK' /\ Aged /\ Timely /\ [Next]_vars => Timely'
<1> SUFFICES ASSUME TypeOK, TypeOK', Aged, Timely, [Next]_vars PROVE Timely'
  OBVIOUS
<1>0. /\ clock \in Nat /\ watch \in WatchType /\ watch.meter \in Meters \cup {Nothing}
      /\ watch.last \in Nat
      /\ Nothing \notin Meters /\ Burst \in Nat \ {0}
  BY LimitsAssumption DEF TypeOK, WatchType
<1>m. PICK m : m = watch.meter
  OBVIOUS
<1>1. CASE \/ \E a \in Addrs : Connect(a) \/ StatusRequest(a)
           \/ \E valid \in BOOLEAN : RconRequest(valid)
  <2>1. clock' = clock
    BY <1>1 DEF Connect, StatusRequest, RconRequest
  <2>2. CASE m = Nothing
    <3>1. \A n \in Meters : \A answer : Noted(watch, n, answer) = watch
      BY <1>0, <1>m, <2>2 DEF Noted
    <3>2. watch' = watch
      BY <1>1, <3>1 DEF Connect, StatusRequest, RconRequest, Meters
    <3>3. QED
      BY <1>m, <2>2, <3>2 DEF Timely
  <2>3. CASE m \in Meters
    <3> DEFINE p == PeriodOf(m)
    <3>1. /\ Late(BucketOf(m), watch)
          /\ watch.answer = "limited" => clock - watch.last < p
          /\ p \in Nat \ {0} /\ p' = p
      BY <1>0, <1>m, <2>3, BucketOfType DEF Timely, NeverStarved, PeriodOf
    <3> HIDE DEF p
    <3>2. /\ watch'.meter = m /\ Late(BucketOf(m)', watch')
          /\ watch'.answer = "limited" => clock - watch'.last < p
      <4>1. CASE BucketOf(m)' \in {BucketOf(m), NoBucket} /\ watch' = watch
        BY <1>m, <3>1, <4>1 DEF Late
      <4>2. CASE BucketOf(m)' = NoBucket /\ watch' = Noted(watch, m, "full")
        <5>1. watch'.meter = m /\ watch'.answer = "full"
          BY <1>0, <1>m, <2>3, <4>2, NotedFacts
        <5>2. QED
          BY <4>2, <5>1 DEF Late
      <4>3. ASSUME NEW b \in BucketType, b = BucketOf(m) \/ b.burst = 0,
                   BucketOf(m)' = Limit(b, p), watch' = Noted(watch, m, Answer(b, p))
            PROVE  /\ watch'.meter = m /\ Late(BucketOf(m)', watch')
                   /\ watch'.answer = "limited" => clock - watch'.last < p
        <5>1. Late(b, watch)
          BY <1>0, <3>1, <4>3 DEF Late
        <5>2. Answer(b, p) \in {"passed", "limited", "full"}
          BY DEF Answer
        <5>3. watch'.meter = m
          BY <1>0, <1>m, <2>3, <4>3, <5>2, NotedFacts
        <5>4. QED
          BY <1>0, <1>m, <2>3, <3>1, <4>3, <5>1, <5>3, LimitLate
      <4>4. Served(m)
        BY <1>1, <2>3, Serves
      <4>5. QED
        BY <1>m, <4>1, <4>2, <4>3, <4>4 DEF Served, p
    <3>3. QED
      BY <1>0, <2>1, <2>3, <3>1, <3>2 DEF Timely, NeverStarved, Late, Since, Now, p
  <2>4. QED
    BY <1>0, <1>m, <2>2, <2>3
<1>2. ASSUME NEW n \in Meters, Watch(n) PROVE Timely'
  <2>1. /\ clock' = clock /\ watch'.meter = n /\ watch'.last = clock /\ watch'.answer = "none"
        /\ UNCHANGED <<buckets, outbound, badPassword>>
    BY <1>2 DEF Watch, NotWatching
  <2>2. PICK b : b = BucketOf(n)
    OBVIOUS
  <2>3. BucketOf(n)' = b /\ b \in BucketType \cup {NoBucket}
    BY <2>1, <2>2, BucketOfType DEF BucketOf
  <2>4. b # NoBucket => Since(b.lastTime) \in Nat
    <3>1. b # NoBucket => b.lastTime \in 0..(Wrap - 1)
      BY <2>3 DEF BucketType
    <3>2. QED
      BY <1>0, <3>1, SinceType
  <2>5. Late(b, watch')
    BY <1>0, <2>1, <2>4 DEF Late
  <2>6. QED
    BY <1>0, <2>1, <2>3, <2>5 DEF Timely, NeverStarved, Late, Since, Now
<1>3. CASE MapChange
  BY <1>3 DEF MapChange, NotWatching, Timely
<1>4. CASE Tick
  <2>1. /\ clock' = clock + 1 /\ watch'.meter = m /\ watch'.last = watch.last
        /\ watch'.answer = "none"
        /\ UNCHANGED <<buckets, outbound, badPassword>>
    BY <1>0, <1>m, <1>4 DEF Tick, WatchType
  <2>2. CASE m = Nothing
    BY <2>1, <2>2 DEF Timely
  <2>3. CASE m \in Meters
    <3>1. PICK b : b = BucketOf(m)
      OBVIOUS
    <3>2. BucketOf(m)' = b
      BY <2>1, <3>1 DEF BucketOf
    <3>3. ASSUME b # NoBucket, b.burst = Burst PROVE Since(b.lastTime)' >= clock' - watch'.last
      <4>1. Since(b.lastTime) \in Nat /\ Since(b.lastTime)' = Since(b.lastTime) + 1
        BY <1>0, <1>4, <2>3, <3>1, <3>3, TickAges
      <4>2. Since(b.lastTime) >= clock - watch.last
        BY <1>0, <1>m, <2>3, <3>1, <3>3 DEF Timely, Late
      <4>3. QED
        BY <1>0, <2>1, <4>1, <4>2
    <3>4. Late(BucketOf(watch.meter), watch)'
      BY <2>1, <3>2, <3>3 DEF Late, Since, Now
    <3>5. QED
      BY <1>0, <2>1, <2>3, <3>4 DEF Timely, NeverStarved
  <2>4. QED
    BY <1>0, <1>m, <2>2, <2>3
<1>5. CASE UNCHANGED vars
  BY <1>5 DEF vars, Timely, NeverStarved, Late, BucketOf, PeriodOf, Since, Now
<1>6. QED
  BY <1>1, <1>2, <1>3, <1>4, <1>5 DEF Next

\* A full bucket refuses only within a period of a request it let through, on
\* each address and for all of them, whatever the wraps of the clock.
THEOREM NeverStarvedHolds == Spec => []NeverStarved
<1>1. Init => Aged
  BY DEF Init, Aged, BucketOf, Meters, ZeroBucket
<1>2. Init => Timely
  BY DEF Init, Timely, NotWatching
<1>3. TypeOK /\ Timely => NeverStarved
  BY DEF Timely, NeverStarved
<1>4. QED
  BY <1>1, <1>2, <1>3, TypeCorrect, AgedStep, TimelyStep, PTL DEF Spec

-----------------------------------------------------------------------------
(* The table keeps the recent addresses only *)

\* An entry outlives its bucket by the time since the last collection; while
\* there are entries that time is the real one, and a request makes it short.
RecentEntry(b) == b # NoBucket => Since(b.lastTime) <= b.burst * Period + Since(lastGC)

Recent ==
    /\ \A a \in Addrs : RecentEntry(buckets[a])
    /\ InTable(buckets) # {} => Since(lastGC) <= clock - loaded + GCInterval
    /\ watch.answer # "none" /\ watch.meter \in Addrs => Since(lastGC) <= GCInterval

LEMMA AddressRecent ==
    ASSUME TypeOK, Recent, NEW a \in Addrs, AddressAllowed(a)
    PROVE  /\ Since(lastGC') \in Nat /\ Since(lastGC') <= GCInterval
           /\ \A b \in Addrs : buckets'[b] # NoBucket =>
                Since(buckets'[b].lastTime) <= buckets'[b].burst * Period + Since(lastGC')
<1>1. /\ clock \in Nat /\ buckets \in Table /\ lastGC \in 0..(Wrap - 1)
      /\ Period \in Nat \ {0} /\ Burst \in Nat \ {0} /\ GCInterval \in Nat
  BY LimitsAssumption DEF TypeOK, Table
<1>2. Now \in 0..(Wrap - 1) /\ Since(Now) = 0 /\ Since(lastGC) \in Nat
  BY <1>1, SinceNow, SinceType
<1>3. Since(lastGC') \in Nat /\ Since(lastGC') <= GCInterval
  <2>1. CASE CollectionDue
    BY <1>1, <1>2, <2>1 DEF AddressAllowed
  <2>2. CASE ~CollectionDue
    BY <1>1, <1>2, <2>2 DEF AddressAllowed, CollectionDue
  <2>3. QED
    BY <2>1, <2>2
<1>4. ASSUME NEW b \in Addrs, Collected[b] # NoBucket
      PROVE  Since(Collected[b].lastTime) <= Collected[b].burst * Period + Since(lastGC')
  <2>1. Collected[b] = buckets[b] /\ ~(CollectionDue /\ Expired(buckets[b])) /\ buckets[b] # NoBucket
    BY <1>4 DEF Collected
  <2>2. buckets[b] \in BucketType
    BY <1>1, <2>1 DEF Table
  <2>3. buckets[b].lastTime \in 0..(Wrap - 1) /\ buckets[b].burst \in Nat
    BY <2>2 DEF BucketType
  <2>4. buckets[b].burst * Period \in Nat /\ Since(buckets[b].lastTime) \in Nat
    BY <1>1, <2>3, SinceType
  <2>5. CASE CollectionDue
    <3>1. Since(lastGC') = 0
      BY <1>2, <2>5 DEF AddressAllowed
    <3>2. Since(buckets[b].lastTime) <= buckets[b].burst * Period
      BY <2>1, <2>4, <2>5 DEF Expired
    <3>3. QED
      BY <2>1, <2>4, <3>1, <3>2
  <2>6. CASE ~CollectionDue
    <3>1. lastGC' = lastGC
      BY <2>6 DEF AddressAllowed
    <3>2. QED
      BY <2>1, <3>1 DEF Recent, RecentEntry
  <2>7. QED
    BY <2>5, <2>6
<1> DEFINE old == BucketForAddress(a)
           l == Limit(old, Period)
<1>5. Collected \in Table
  BY <1>1 DEF Collected, Table
<1>6. buckets' = [Collected EXCEPT ![a] = IF old = NoBucket THEN NoBucket ELSE l]
  BY DEF AddressAllowed
<1>7. ASSUME old # NoBucket
      PROVE  Since(l.lastTime) <= l.burst * Period + Since(lastGC')
  <2>1. old \in BucketType
    BY <1>1, <1>2, <1>5, <1>7 DEF BucketForAddress, BucketType, Table
  <2>2. l \in BucketType /\ Since(l.lastTime) < Period /\ l.burst > 0
    BY <1>1, <2>1, LimitFacts
  <2>3. l.lastTime \in 0..(Wrap - 1) /\ l.burst \in Nat
    BY <2>2 DEF BucketType
  <2>4. Since(l.lastTime) \in Nat
    BY <1>1, <2>3, SinceType
  <2> HIDE DEF l, old
  <2>5. Period * l.burst >= Period * 0 + Period /\ l.burst * Period \in Int /\ l.burst * Period = Period * l.burst
    <3>1. l.burst > 0
      BY <2>2
    <3>2. Period * l.burst >= Period * 0 + Period
      BY <1>1, <2>3, <3>1, Times
    <3>3. QED
      BY <1>1, <2>3, <3>2
  <2>6. Period * 0 = 0
    BY <1>1
  <2>7. QED
    BY <1>1, <1>3, <2>2, <2>4, <2>5, <2>6
<1> HIDE DEF old, l
<1>8. ASSUME NEW b \in Addrs, buckets'[b] # NoBucket
      PROVE  Since(buckets'[b].lastTime) <= buckets'[b].burst * Period + Since(lastGC')
  <2>1. CASE b = a
    <3>1. buckets'[b] = l /\ old # NoBucket
      BY <1>5, <1>6, <1>8, <2>1 DEF Table
    <3>2. QED
      BY <1>7, <3>1
  <2>2. CASE b # a
    <3>1. buckets'[b] = Collected[b]
      BY <1>5, <1>6, <2>2 DEF Table
    <3>2. QED
      BY <1>4, <1>8, <3>1
  <2>3. QED
    BY <2>1, <2>2
<1>9. QED
  BY <1>3, <1>8

LEMMA RecentStep == TypeOK /\ Recent /\ [Next]_vars => Recent'
<1> SUFFICES ASSUME TypeOK, Recent, [Next]_vars PROVE Recent'
  OBVIOUS
<1>0. /\ clock \in Nat /\ loaded \in Nat /\ loaded <= clock
      /\ buckets \in Table /\ lastGC \in 0..(Wrap - 1)
      /\ Period \in Nat \ {0} /\ GCInterval \in Nat /\ Wrap \in Nat /\ MaxLife \in Nat
      /\ MaxLife + GCInterval < Wrap
  BY LimitsAssumption, LifeAssumption DEF TypeOK, Table
<1>1. CASE \E a \in Addrs : Connect(a) \/ StatusRequest(a)
  <2>1. PICK a \in Addrs : AddressAllowed(a) /\ UNCHANGED <<clock, loaded>>
    BY <1>1 DEF Connect, StatusRequest
  <2>2. /\ Since(lastGC') \in Nat /\ Since(lastGC') <= GCInterval
        /\ \A b \in Addrs : buckets'[b] # NoBucket =>
             Since(buckets'[b].lastTime) <= buckets'[b].burst * Period + Since(lastGC')
    BY <2>1, AddressRecent
  <2>3. Since(lastGC)' = Since(lastGC')
    BY <2>1 DEF Since, Now
  <2>4. \A b \in Addrs : RecentEntry(buckets[b])'
    BY <2>1, <2>2 DEF RecentEntry, Since, Now
  <2>5. Since(lastGC)' <= clock' - loaded' + GCInterval
    BY <1>0, <2>1, <2>2, <2>3
  <2>6. QED
    BY <2>2, <2>3, <2>4, <2>5 DEF Recent
<1>2. CASE \E valid \in BOOLEAN : RconRequest(valid)
  <2>1. UNCHANGED <<clock, loaded, buckets, lastGC>>
    BY <1>2 DEF RconRequest
  <2>2. watch'.meter = watch.meter /\ (watch.meter \in Addrs => watch' = watch)
    <3>1. watch \in WatchType /\ Rcon \in Meters /\ Rcon \notin Addrs
      BY LimitsAssumption DEF TypeOK, Meters
    <3>2. watch' = watch \/ watch' = Noted(watch, Rcon, Answer(badPassword, Period))
      BY <1>2 DEF RconRequest
    <3>3. Answer(badPassword, Period) \in {"passed", "limited", "full"}
      BY DEF Answer
    <3>4. QED
      BY <1>0, <3>1, <3>2, <3>3, NotedFacts
  <2>3. QED
    BY <2>1, <2>2 DEF Recent, RecentEntry, InTable, Since, Now
<1>3. CASE \E m \in Meters : Watch(m)
  <2>1. UNCHANGED <<clock, loaded, buckets, lastGC>> /\ watch'.answer = "none"
    BY <1>3 DEF Watch, NotWatching
  <2>2. QED
    BY <2>1 DEF Recent, RecentEntry, InTable, Since, Now
<1>4. CASE MapChange
  <2>1. buckets' = [a \in Addrs |-> NoBucket] /\ watch'.answer = "none"
    BY <1>4 DEF MapChange, NotWatching
  <2>2. \A a \in Addrs : buckets'[a] = NoBucket
    BY <2>1
  <2>3. InTable(buckets)' = {}
    BY <2>2 DEF InTable
  <2>4. QED
    BY <2>1, <2>2, <2>3 DEF Recent, RecentEntry
<1>5. CASE Tick
  <2>1. /\ clock' = clock + 1 /\ clock - loaded < MaxLife
        /\ UNCHANGED <<loaded, buckets, lastGC>> /\ watch'.answer = "none"
    BY <1>5 DEF Tick, TypeOK, WatchType
  <2>2. PICK g : g = lastGC
    OBVIOUS
  <2>3. /\ Since(g) \in Nat
        /\ Since(g)' = IF Since(g) + 1 < Wrap THEN Since(g) + 1 ELSE 0
        /\ Since(lastGC)' = Since(g)'
    <3>1. g \in 0..(Wrap - 1)
      BY <1>0, <2>2
    <3>2. Since(lastGC)' = Since(g)'
      BY <2>1, <2>2 DEF Since, Now
    <3>3. QED
      BY <1>0, <2>1, <3>1, <3>2, SinceType, SinceTick
  <2>4. ASSUME InTable(buckets) # {}
        PROVE  Since(g)' = Since(g) + 1 /\ Since(g)' <= clock' - loaded' + GCInterval
    <3>1. Since(g) <= clock - loaded + GCInterval
      BY <2>2, <2>4 DEF Recent
    <3>2. QED
      BY <1>0, <2>1, <2>3, <3>1
  <2>5. ASSUME NEW a \in Addrs PROVE RecentEntry(buckets[a])'
    <3>1. PICK b : b = buckets[a]
      OBVIOUS
    <3>2. CASE b = NoBucket
      BY <2>1, <3>1, <3>2 DEF RecentEntry
    <3>3. CASE b # NoBucket
      <4>1. InTable(buckets) # {} /\ b \in BucketType
        BY <1>0, <3>1, <3>3 DEF InTable, Table
      <4>2. b.lastTime \in 0..(Wrap - 1) /\ b.burst \in Nat
        BY <4>1 DEF BucketType
      <4>3. /\ Since(b.lastTime) \in Nat
            /\ Since(b.lastTime)' = IF Since(b.lastTime) + 1 < Wrap THEN Since(b.lastTime) + 1 ELSE 0
        BY <1>0, <2>1, <4>2, SinceType, SinceTick
      <4>4. Since(b.lastTime) <= b.burst * Period + Since(g)
        BY <2>2, <3>1, <3>3 DEF Recent, RecentEntry
      <4>5. b.burst * Period \in Nat
        BY <1>0, <4>2
      <4>6. Since(b.lastTime)' <= b.burst * Period + Since(g)'
        BY <2>3, <2>4, <4>1, <4>3, <4>4, <4>5
      <4>7. QED
        BY <2>1, <2>2, <3>1, <4>6 DEF RecentEntry, Since, Now
    <3>4. QED
      BY <3>2, <3>3
  <2>6. (InTable(buckets) # {})' => InTable(buckets) # {}
    BY <2>1 DEF InTable
  <2>7. QED
    BY <2>1, <2>3, <2>4, <2>5, <2>6 DEF Recent
<1>6. CASE UNCHANGED vars
  BY <1>6 DEF vars, Recent, RecentEntry, InTable, Since, Now
<1>7. QED
  BY <1>1, <1>2, <1>3, <1>4, <1>5, <1>6 DEF Next

LEMMA RecentBounds == TypeOK /\ Recent => OnlyRecentAddresses
<1> SUFFICES ASSUME TypeOK, Recent, watch.answer # "none", watch.meter \in Addrs,
                    NEW a \in InTable(buckets)
             PROVE  Since(buckets[a].lastTime) <= buckets[a].burst * Period + GCInterval
  BY DEF OnlyRecentAddresses
<1>1. a \in Addrs /\ buckets[a] # NoBucket
  BY DEF InTable
<1>2. buckets[a] \in BucketType
  BY <1>1 DEF TypeOK
<1>3. buckets[a].lastTime \in 0..(Wrap - 1) /\ buckets[a].burst \in Nat
  BY <1>2 DEF BucketType
<1>4. clock \in Nat /\ lastGC \in 0..(Wrap - 1) /\ GCInterval \in Nat /\ Period \in Nat
  BY LimitsAssumption DEF TypeOK
<1>5. Since(buckets[a].lastTime) \in Nat /\ Since(lastGC) \in Nat /\ buckets[a].burst * Period \in Nat
  BY <1>3, <1>4, SinceType
<1>6. /\ Since(buckets[a].lastTime) <= buckets[a].burst * Period + Since(lastGC)
      /\ Since(lastGC) <= GCInterval
  BY <1>1 DEF Recent, RecentEntry
<1>7. QED
  BY <1>4, <1>5, <1>6

\* At each request, an address of the table sent something lately: its bucket
\* is not empty, or it was not for longer than the time between two collections.
THEOREM TableRecent == Spec => []OnlyRecentAddresses
<1>1. Init => Recent
  <2> SUFFICES ASSUME Init PROVE Recent
    OBVIOUS
  <2>1. \A a \in Addrs : buckets[a] = NoBucket
    BY DEF Init
  <2>2. InTable(buckets) = {} /\ watch.answer = "none"
    BY <2>1 DEF Init, InTable, NotWatching
  <2>3. QED
    BY <2>1, <2>2 DEF Recent, RecentEntry
<1>2. QED
  BY <1>1, TypeCorrect, RecentStep, RecentBounds, PTL DEF Spec

\* Both: what the other addresses send changes nothing for an address.
THEOREM FloodsHarmNoOther == Spec => []FloodHarmsNoOther
<1>1. QED
  BY NeverStarvedHolds, TableRecent, PTL DEF FloodHarmsNoOther
-----------------------------------------------------------------------------
(* Restart *)

\* BeforeWrap asks from here on.
EntitiesAsked == EntitiesEnd - 2 * NumEntities

\* As long as nothing was asked for, BeforeWrap saw counters below its
\* thresholds, and only one turn's snapshots came since.  What was asked for is
\* in the queue, which is run before SV_Frame looks at the counters.
BelowThresholds ==
    ~requested =>
        /\ time <= TimeEnd - TimeMargin
        /\ at = "game" /\ residual = 0 => entities < EntitiesAsked
        /\ at # "game" =>
            entities < EntitiesAsked + MaxClients * SnapshotEntities
                                     + unpure * SnapshotEntities

RestartInv ==
    /\ E!TypeOK
    /\ E!NeverStops
    /\ requested <=> queue # <<>>
    /\ queue = E!RestartServer => E!TimeWraps(time)
    /\ BelowThresholds

\* The requests are different commands, of which the engine runs the first.
LEMMA Requests ==
    /\ E!Reload # <<>> /\ E!RestartServer # <<>> /\ E!Reload # E!RestartServer
    /\ Head(E!Reload) = "map" /\ Tail(E!Reload) = <<>>
    /\ Head(E!RestartServer) = "killserver" /\ Tail(E!RestartServer) = E!Reload
    /\ <<>> \o E!Reload = E!Reload /\ <<>> \o E!RestartServer = E!RestartServer
BY DEF E!Reload, E!RestartServer

\* RestartAssumption but for its product.
LEMMA Limits ==
    /\ MaxClients \in Nat /\ SnapshotEntities \in Nat /\ NumEntities \in Nat
    /\ EntitiesEnd \in Nat /\ EntitiesEnd > 2 * NumEntities
    /\ TimeEnd \in Nat /\ TimeMargin \in Nat /\ TimeEnd > TimeMargin
    /\ MaxFrame \in Nat /\ Settle \in Nat
    /\ TimeEnd - TimeMargin >= Settle
BY RestartAssumption DEF RestartAssumption, E!RestartConstants

\* A snapshot more, or every client's, is a multiple of MAX_SNAPSHOT_ENTITIES.
LEMMA Snapshots ==
    ASSUME NEW k \in Nat, k <= MaxClients
    PROVE  /\ k * SnapshotEntities \in Nat
           /\ (k + 1) * SnapshotEntities = k * SnapshotEntities + SnapshotEntities
           /\ k * SnapshotEntities <= MaxClients * SnapshotEntities
           /\ 2 * (MaxClients * SnapshotEntities) <= NumEntities
<1>1. SnapshotEntities \in Nat /\ MaxClients \in Nat /\ NumEntities \in Nat
    BY RestartAssumption DEF RestartAssumption, E!RestartConstants
<1>2. 2 * MaxClients * SnapshotEntities <= NumEntities
    BY RestartAssumption DEF RestartAssumption, E!RestartConstants
<1>3. MaxClients * SnapshotEntities
        = k * SnapshotEntities + (MaxClients - k) * SnapshotEntities
    BY <1>1
<1>4. (MaxClients - k) * SnapshotEntities >= 0
    BY <1>1
<1>5. k * SnapshotEntities \in Nat
    BY <1>1
<1>6. (k + 1) * SnapshotEntities = k * SnapshotEntities + SnapshotEntities
    BY <1>1
<1>7. 2 * (MaxClients * SnapshotEntities) <= NumEntities
    BY <1>1, <1>2
<1> QED
    BY <1>1, <1>3, <1>4, <1>5, <1>6, <1>7

LEMMA InitInv == E!Init => RestartInv
<1> SUFFICES ASSUME E!Init PROVE RestartInv
    OBVIOUS
<1>1. E!TypeOK
    <2>1. queue \in {<<>>, E!Reload, E!RestartServer}
        BY DEF E!Init
    <2>2. residual \in 0..MaxFrame /\ unpure \in 0..MaxClients
        BY Limits DEF E!Init
    <2>3. players \in BOOLEAN /\ requested \in BOOLEAN
        BY DEF E!Init
    <2> QED
        BY <2>1, <2>2, <2>3 DEF E!Init, E!TypeOK
<1>2. E!NeverStops /\ (requested <=> queue # <<>>)
    BY DEF E!Init, E!NeverStops
<1>3. queue # E!RestartServer
    BY Requests DEF E!Init
<1>4. BelowThresholds
    <2>1. 0 <= TimeEnd - TimeMargin /\ EntitiesAsked > 0
        BY Limits DEF EntitiesAsked
    <2>2. MaxClients * SnapshotEntities \in Nat /\ 0 * SnapshotEntities = 0
        BY Limits
    <2>3. EntitiesAsked \in Int
        BY Limits DEF EntitiesAsked
    <2> QED
        BY <2>1, <2>2, <2>3 DEF E!Init, BelowThresholds
<1> QED
    BY <1>1, <1>2, <1>3, <1>4 DEF RestartInv

LEMMA NextInv == RestartInv /\ [E!Next]_E!vars => RestartInv'
<1> SUFFICES ASSUME RestartInv, [E!Next]_E!vars PROVE RestartInv'
    OBVIOUS
<1> USE Limits, Requests DEF RestartInv, E!TypeOK, E!NeverStops
<1>0. EntitiesAsked \in Int /\ EntitiesAsked > 0
    BY DEF EntitiesAsked
<1>u. /\ unpure * SnapshotEntities \in Nat
      /\ (unpure + 1) * SnapshotEntities = unpure * SnapshotEntities + SnapshotEntities
      /\ unpure * SnapshotEntities <= MaxClients * SnapshotEntities
      /\ MaxClients * SnapshotEntities \in Nat
      /\ 2 * (MaxClients * SnapshotEntities) <= NumEntities
    BY Snapshots, unpure \in Nat, unpure <= MaxClients, MaxClients \in Nat, SnapshotEntities \in Nat
<1>1. CASE E!PlayersJoin
    BY <1>1 DEF E!PlayersJoin, BelowThresholds, E!TimeWraps
<1>2. CASE E!UnpureClient
    <2>1. PICK n \in 0..SnapshotEntities : entities' = entities + n
        BY <1>2 DEF E!UnpureClient
    <2>2. BelowThresholds'
        BY <1>0, <1>u, <1>2, <2>1 DEF E!UnpureClient, BelowThresholds
    <2> QED
        BY <1>2, <2>1, <2>2 DEF E!UnpureClient, E!TimeWraps
<1>3. CASE E!EventsDone
    BY <1>3 DEF E!EventsDone, BelowThresholds, E!TimeWraps
<1>l. ASSUME NEW rest, rest = <<>>, E!LoadMap(rest), at = "commands"
      PROVE  RestartInv'
    <2>1. time' \in Nat /\ entities' = 0 /\ residual' = 0 /\ at' = "commands"
        BY <1>l DEF E!LoadMap
    <2>2. CASE E!TimeWraps(time')
        <3>1. requested' = TRUE /\ queue' = E!RestartServer
            BY <1>l, <2>2 DEF E!LoadMap
        <3>2. unpure' = unpure /\ players' = players
            BY <1>l DEF E!LoadMap
        <3>3. BelowThresholds'
            BY <3>1 DEF BelowThresholds
        <3>4. queue' \in {<<>>, E!Reload, E!RestartServer}
            BY <3>1
        <3>5. residual' \in 0..MaxFrame /\ unpure' \in 0..MaxClients
            BY <2>1, <3>2
        <3>6. E!TypeOK'
            BY <2>1, <3>1, <3>2, <3>4, <3>5
        <3> QED
            BY <2>1, <2>2, <3>1, <3>3, <3>6 DEF E!TimeWraps
    <2>3. CASE ~E!TimeWraps(time')
        <3>1. time' <= TimeEnd - TimeMargin
            BY <2>1, <2>3 DEF E!TimeWraps
        <3>2. BelowThresholds'
            BY <1>0, <1>u, <1>l, <2>1, <3>1 DEF E!LoadMap, BelowThresholds
        <3>3. requested' = FALSE /\ queue' = <<>> /\ unpure' = unpure /\ players' = players
            BY <1>l, <2>3 DEF E!LoadMap
        <3>4. queue' \in {<<>>, E!Reload, E!RestartServer}
            BY <3>3
        <3>5. residual' \in 0..MaxFrame /\ unpure' \in 0..MaxClients
            BY <2>1, <3>3
        <3>6. E!TypeOK'
            BY <2>1, <3>3, <3>4, <3>5
        <3> QED
            BY <2>1, <3>2, <3>3, <3>6
    <2> QED
        BY <2>2, <2>3
<1>4. CASE E!RunMap
    <2>1. queue = E!Reload
        BY <1>4 DEF E!RunMap
    <2> QED
        BY <1>4, <1>l, <2>1 DEF E!RunMap
<1>5. CASE E!RunKillserver
    <2>1. queue = E!RestartServer /\ queue' = E!Reload
        BY <1>5 DEF E!RunKillserver
    <2>2. requested = TRUE /\ requested' = TRUE
        BY <1>5, <2>1 DEF E!RunKillserver
    <2>3. BelowThresholds' /\ E!NeverStops'
        BY <1>5, <2>2 DEF E!RunKillserver, BelowThresholds
    <2>4. time' = 0 /\ entities' = 0 /\ residual' = 0 /\ at' = "commands" /\ unpure' = unpure
          /\ players' = FALSE
        BY <1>5 DEF E!RunKillserver
    <2>5. E!TypeOK'
        <3>1. queue' \in {<<>>, E!Reload, E!RestartServer}
            BY <2>1
        <3>2. residual' \in 0..MaxFrame /\ unpure' \in 0..MaxClients
            BY <2>4
        <3> QED
            BY <2>2, <2>4, <3>1, <3>2
    <2> QED
        BY <2>1, <2>2, <2>3, <2>5
<1>6. CASE E!OtherMap
    BY <1>6, <1>l DEF E!OtherMap
<1>7. CASE E!TooSoon
    BY <1>7 DEF E!TooSoon, BelowThresholds, E!TimeWraps
<1>8. CASE E!StartFrame
    <2>1. ~requested /\ time <= TimeEnd - TimeMargin
        BY <1>8 DEF E!StartFrame, BelowThresholds
    <2>2. entities < EntitiesAsked + MaxClients * SnapshotEntities
                                   + unpure * SnapshotEntities
        BY <1>8, <2>1 DEF E!StartFrame, BelowThresholds
    <2>3. entities < EntitiesEnd - NumEntities
        BY <1>0, <1>u, <2>2 DEF EntitiesAsked
    <2>4. ~E!CountersEnd
        BY <2>1, <2>3 DEF E!CountersEnd
    <2>5. PICK msec \in 1..MaxFrame : residual' = msec
        BY <1>8 DEF E!StartFrame
    <2>6. at' = "game" /\ players' = players
        BY <1>8, <2>4 DEF E!StartFrame
    <2> QED
        BY <1>8, <2>1, <2>5, <2>6 DEF E!StartFrame, BelowThresholds, E!TimeWraps
<1>9. CASE E!RunFrame
    <2>1. PICK msec \in 1..residual : time' = time + msec /\ residual' = residual - msec
        BY <1>9 DEF E!RunFrame
    <2>2. time' \in Nat /\ time' >= time /\ residual' \in 0..MaxFrame
        BY <2>1
    <2>3. E!TimeWraps(time) => E!TimeWraps(time')
        BY <2>2 DEF E!TimeWraps
    <2>4. E!BeforeWrap(time') /\ at' = "game" /\ UNCHANGED <<entities, unpure, players>>
        BY <1>9 DEF E!RunFrame
    <2>5. CASE ~requested /\ (E!TimeWraps(time') \/ E!EntitiesWrap(entities))
        <3>1. requested' = TRUE /\ queue' = IF E!TimeWraps(time') THEN E!RestartServer ELSE E!Reload
            BY <2>4, <2>5 DEF E!BeforeWrap
        <3> QED
            BY <2>2, <2>4, <3>1 DEF BelowThresholds
    <2>6. CASE requested
        BY <2>2, <2>3, <2>4, <2>6 DEF E!BeforeWrap, BelowThresholds
    <2>7. CASE ~requested /\ ~E!TimeWraps(time') /\ ~E!EntitiesWrap(entities)
        <3>1. requested' = FALSE /\ queue' = <<>>
            BY <2>4, <2>7 DEF E!BeforeWrap
        <3>2. time' <= TimeEnd - TimeMargin /\ entities < EntitiesAsked
            BY <2>2, <2>7 DEF E!TimeWraps, E!EntitiesWrap, EntitiesAsked
        <3> QED
            BY <2>2, <2>4, <3>1, <3>2 DEF BelowThresholds
    <2> QED
        BY <2>5, <2>6, <2>7
<1>10. CASE E!SendClientMessages
    <2>1. PICK snapshots \in 0..MaxClients :
            \E n \in 0..(snapshots * SnapshotEntities) : entities' = entities + n
        BY <1>10 DEF E!SendClientMessages
    <2>2. PICK n \in 0..(snapshots * SnapshotEntities) : entities' = entities + n
        BY <2>1
    <2>3. /\ snapshots * SnapshotEntities \in Nat
          /\ snapshots * SnapshotEntities <= MaxClients * SnapshotEntities
        BY Snapshots, snapshots \in Nat, snapshots <= MaxClients
    <2>4. entities' \in Nat /\ entities' <= entities + MaxClients * SnapshotEntities
        BY <1>u, <2>2, <2>3
    <2>5. BelowThresholds'
        BY <1>0, <1>u, <1>10, <2>4 DEF E!SendClientMessages, BelowThresholds
    <2> QED
        BY <1>10, <2>4, <2>5 DEF E!SendClientMessages, E!TimeWraps
<1>11. CASE UNCHANGED E!vars
    BY <1>11 DEF E!vars, BelowThresholds, E!TimeWraps
<1> QED
    BY <1>1, <1>2, <1>3, <1>4, <1>5, <1>6, <1>7, <1>8, <1>9, <1>10, <1>11 DEF E!Next

LEMMA AlwaysInv == RestartSpec => []RestartInv
<1> QED
    BY InitInv, NextInv, PTL DEF RestartSpec, E!Spec

\* The server never reaches the end of a counter that it has the proxy to
\* restart it before (BeforeWrap).
THEOREM ServerNeverStops == RestartSpec => []E!NeverStops
<1>1. RestartInv => E!NeverStops
    BY DEF RestartInv
<1> QED
    BY <1>1, AlwaysInv, PTL

\* A request that was made is still to be run (the static of Restart.cpp).
THEOREM ARequestIsPending == RestartSpec => []E!RequestPending
<1>1. RestartInv => E!RequestPending
    BY DEF RestartInv, E!RequestPending
<1> QED
    BY <1>1, AlwaysInv, PTL

\* The players are dropped for the end of svs.time only (BeforeWrap).
THEOREM PlayersStay == RestartSpec => E!OnlyTimeDropsPlayers
<1>1. RestartInv /\ RestartInv' /\ [E!Next]_E!vars => [players /\ ~players' => E!TimeWraps(time)]_E!vars
    <2> SUFFICES ASSUME RestartInv, RestartInv', E!Next, players, ~players'
                 PROVE  E!TimeWraps(time)
        BY DEF E!vars
    <2>1. ~E!StartFrame
        BY DEF E!StartFrame, RestartInv, E!NeverStops
    <2>2. E!RunKillserver
        BY <2>1 DEF E!Next, E!PlayersJoin, E!UnpureClient, E!EventsDone, E!RunMap, E!OtherMap, E!LoadMap,
                    E!TooSoon, E!RunFrame, E!SendClientMessages
    <2> QED
        BY <2>2, Requests DEF E!RunKillserver, RestartInv, E!TypeOK
<1> QED
    BY <1>1, AlwaysInv, PTL DEF RestartSpec, E!Spec, E!OnlyTimeDropsPlayers

\* Both: the server goes on, and drops its players for the time alone.
THEOREM ServerKeepsRunning == RestartSpec => KeepsRunning
<1>1. QED
  BY ServerNeverStops, PlayersStay DEF KeepsRunning, E!KeepsRunning

-----------------------------------------------------------------------------
(* Rates *)

\* The players, as SV_UserinfoChanged and Apply leave them.
RatePlayers ==
    [want : Wants, rate : {r \in Nat : r >= LowestRate}, snaps : Nat \ {0}]

RatesTypeOK ==
    /\ cvars \in R!Settings /\ copies \in R!Settings /\ applied \in R!Settings
    /\ maxRate \in Int
    /\ client \in [Clients -> RatePlayers \cup {NoClient}]
    /\ since \in Nat

\* What the settings give, for a value of sv_fps.
Given(want, settings, fps) ==
    R!UserinfoChanged(want, [settings EXCEPT !.fps = fps], [settings EXCEPT !.fps = fps])

\* Since the first update, the copies are the settings applied, and every player
\* has what they give it, but for sv_fps: it is the only setting that is read live.
RatesApplied ==
    /\ R!LiveFps(cvars) \in R!FpsValues
    /\ applied # R!Zeros =>
        /\ copies = applied
        /\ \A c \in Clients : client[c] # NoClient =>
              \E fps \in R!FpsValues : client[c] = Given(client[c].want, applied, fps)

\* RatesConstants.
LEMMA RatesLimits ==
    /\ LowestRate \in Nat \ {0} /\ DefaultFps \in Nat \ {0} /\ Second \in Nat \ {0}
    /\ MinRates \subseteq Int /\ MaxRates \subseteq Int
    /\ MinSnaps \subseteq Int /\ MaxSnaps \subseteq Int /\ Fps \subseteq Int
    /\ Wants \subseteq [rate : Int, snaps : Int]
    /\ NoClient \notin [want : Wants, rate : Int, snaps : Int]
BY RatesAssumption DEF R!RatesConstants

\* A slot is free or has a player.
LEMMA FreeIsNoPlayer == NoClient \notin RatePlayers
<1>1. RatePlayers \subseteq [want : Wants, rate : Int, snaps : Int]
    BY DEF RatePlayers
<1> QED
    BY <1>1, RatesLimits

\* The snaps of any userinfo under any settings.
LEMMA SnapsType ==
    ASSUME NEW want \in Wants, NEW settings \in R!Settings, NEW copy \in R!Settings
    PROVE  R!Snaps(want, settings, copy) \in Nat \ {0}
<1>1. want.snaps \in Int /\ settings.fps \in Int /\ copy.maxSnaps \in Int /\ copy.minSnaps \in Int
    BY RatesLimits DEF R!Settings
<1> QED
    BY <1>1, RatesLimits DEF R!Snaps, R!LiveFps, R!Least, R!Most

\* SV_UserinfoChanged makes a player of any userinfo.
LEMMA UserinfoType ==
    ASSUME NEW want \in Wants, NEW settings \in R!Settings, NEW copy \in R!Settings
    PROVE  /\ R!UserinfoChanged(want, settings, copy) \in RatePlayers
           /\ R!UserinfoChanged(want, settings, copy).want = want
<1>1. want.rate \in Int /\ copy.minRate \in Int
    BY RatesLimits DEF R!Settings
<1>2. R!Most(R!EngineRate(want), copy.minRate) \in {r \in Nat : r >= LowestRate}
    BY <1>1, RatesLimits DEF R!EngineRate, R!Most
<1> QED
    BY <1>2, SnapsType DEF R!UserinfoChanged, RatePlayers

\* SV_Frame's correction of sv_fps.
LEMMA CorrectedType ==
    ASSUME cvars \in R!Settings
    PROVE  /\ R!Corrected \in R!Settings
           /\ R!Corrected.fps = R!LiveFps(cvars)
           /\ R!Corrected.fps >= 1
           /\ R!LiveFps(R!Corrected) = R!LiveFps(cvars)
           /\ R!Corrected # R!Zeros
           /\ cvars.fps >= 1 => R!Corrected.fps = cvars.fps
<1>1. cvars.fps \in Int /\ R!LiveFps(cvars) \in Int /\ R!LiveFps(cvars) >= 1
    BY RatesLimits DEF R!Settings, R!LiveFps
<1>2. R!Corrected \in R!Settings /\ R!Corrected.fps = R!LiveFps(cvars)
    BY <1>1 DEF R!Settings, R!Corrected
<1>3. R!Zeros.fps = 0
    BY DEF R!Zeros
<1>4. R!LiveFps(R!Corrected) = R!LiveFps(cvars)
    BY <1>1, <1>2 DEF R!LiveFps
<1>5. cvars.fps >= 1 => R!Corrected.fps = cvars.fps
    BY <1>1, <1>2 DEF R!LiveFps
<1> QED
    BY <1>1, <1>2, <1>3, <1>4, <1>5

\* A setting that is set.
LEMMA SetType ==
    ASSUME cvars \in R!Settings, NEW value \in Int
    PROVE  /\ [cvars EXCEPT !.minRate = value] \in R!Settings
           /\ [cvars EXCEPT !.minSnaps = value] \in R!Settings
           /\ [cvars EXCEPT !.maxSnaps = value] \in R!Settings
           /\ [cvars EXCEPT !.fps = value] \in R!Settings
           /\ [cvars EXCEPT !.minRate = value].fps = cvars.fps
           /\ [cvars EXCEPT !.minSnaps = value].fps = cvars.fps
           /\ [cvars EXCEPT !.maxSnaps = value].fps = cvars.fps
BY DEF R!Settings

\* The settings as the server starts, nobody there.
LEMMA RatesInit == R!Init => RatesTypeOK /\ RatesApplied
<1> SUFFICES ASSUME R!Init PROVE RatesTypeOK /\ RatesApplied
    OBVIOUS
<1>1. cvars \in R!Settings /\ R!Zeros \in R!Settings
    <2>1. [minRate : MinRates, minSnaps : MinSnaps, maxSnaps : MaxSnaps, fps : Fps]
            \subseteq R!Settings
        BY RatesLimits DEF R!Settings
    <2> QED
        BY <2>1 DEF R!Init, R!Settings, R!Zeros
<1>2. client \in [Clients -> RatePlayers \cup {NoClient}]
    BY DEF R!Init
<1>3. copies \in R!Settings /\ applied \in R!Settings /\ applied = R!Zeros
    BY <1>1 DEF R!Init
<1>4. maxRate \in Int /\ since \in Nat
    BY RatesLimits DEF R!Init
<1>5. R!LiveFps(cvars) \in R!FpsValues
    <2>1. cvars.fps \in Fps
        BY DEF R!Init
    <2> QED
        BY <2>1 DEF R!LiveFps, R!FpsValues
<1> QED
    BY <1>1, <1>2, <1>3, <1>4, <1>5 DEF RatesTypeOK, RatesApplied

\* What the engine is told after a change of the settings.
LEMMA SettingsChangedType ==
    ASSUME RatesTypeOK, NEW settings \in R!Settings
    PROVE  /\ R!SettingsChanged(settings) \in [Clients -> RatePlayers \cup {NoClient}]
           /\ \A c \in Clients :
                LET player == R!SettingsChanged(settings)[c] IN
                player # NoClient =>
                    /\ client[c] # NoClient
                    /\ player = R!UserinfoChanged(client[c].want, settings, settings)
                    /\ player.want = client[c].want
<1>1. ASSUME NEW c \in Clients, client[c] # NoClient
      PROVE  /\ client[c].want \in Wants
             /\ R!UserinfoChanged(client[c].want, settings, settings) \in RatePlayers
             /\ R!UserinfoChanged(client[c].want, settings, settings).want = client[c].want
    <2>1. client[c].want \in Wants
        BY <1>1 DEF RatesTypeOK, RatePlayers
    <2> QED
        BY <2>1, UserinfoType
<1> QED
    BY <1>1, FreeIsNoPlayer DEF R!SettingsChanged

\* Every step keeps the types.
LEMMA RatesNext ==
    RatesTypeOK /\ R!Next => RatesTypeOK'
<1> SUFFICES ASSUME RatesTypeOK, R!Next PROVE RatesTypeOK'
    OBVIOUS
<1> USE DEF RatesTypeOK
<1>1. CASE \E c \in Clients : R!SendMessage(c)
    BY <1>1, RatesLimits DEF R!SendMessage, R!RaisedMaxRate, R!Most
<1>2. CASE \E c \in Clients : R!Leave(c)
    BY <1>2 DEF R!Leave
<1>3. CASE \E c \in Clients, want \in Wants : R!Userinfo(c, want)
    BY <1>3, UserinfoType DEF R!Userinfo
<1>4. CASE \E value \in MaxRates : R!SetMaxRate(value)
    BY <1>4, RatesLimits DEF R!SetMaxRate
<1>5. ASSUME NEW settings \in R!Settings, R!Set(settings)
      PROVE  RatesTypeOK'
    BY <1>5, RatesLimits DEF R!Set
<1>6. CASE R!Frame
    <2>1. R!Corrected \in R!Settings
        BY CorrectedType
    <2>2. R!SettingsChanged(R!Corrected) \in [Clients -> RatePlayers \cup {NoClient}]
        BY <2>1, SettingsChangedType
    <2> QED
        BY <1>6, <2>1, <2>2, RatesLimits DEF R!Frame, R!UpdateAll
<1>7. CASE R!MapChange
    BY <1>7 DEF R!MapChange, R!Settings, R!Zeros
<1>8. CASE \/ \E value \in MinRates : R!Set([cvars EXCEPT !.minRate = value])
           \/ \E value \in MinSnaps : R!Set([cvars EXCEPT !.minSnaps = value])
           \/ \E value \in MaxSnaps : R!Set([cvars EXCEPT !.maxSnaps = value])
           \/ \E value \in Fps : R!Set([cvars EXCEPT !.fps = value])
    BY <1>5, <1>8, SetType, RatesLimits
<1> QED
    BY <1>1, <1>2, <1>3, <1>4, <1>6, <1>7, <1>8 DEF R!Next

\* A value of sv_fps in use is a positive number.
LEMMA FpsValuesType == R!FpsValues \subseteq Nat \ {0}
<1> SUFFICES ASSUME NEW value \in Fps PROVE R!LiveFps([fps |-> value]) \in Nat \ {0}
    BY DEF R!FpsValues
<1>1. value \in Int /\ [fps |-> value].fps = value
    BY RatesLimits
<1> QED
    BY <1>1, RatesLimits DEF R!LiveFps

\* Of the settings of the engine, only sv_fps is read with a userinfo.
LEMMA OnlyFpsIsLive ==
    ASSUME NEW want \in Wants, NEW settings \in R!Settings, NEW copy \in R!Settings
    PROVE  R!UserinfoChanged(want, settings, copy) = Given(want, copy, R!LiveFps(settings))
<1> DEFINE fps == R!LiveFps(settings)
           same == [copy EXCEPT !.fps = fps]
<1>1. fps \in Int /\ fps >= 1
    BY RatesLimits DEF R!Settings, R!LiveFps
<1>2. /\ same.fps = fps /\ same.minRate = copy.minRate
      /\ same.minSnaps = copy.minSnaps /\ same.maxSnaps = copy.maxSnaps
    BY DEF R!Settings
<1>3. R!LiveFps(same) = fps
    BY <1>1, <1>2 DEF R!LiveFps
<1> HIDE DEF fps, same
<1>4. R!Snaps(want, settings, copy) = R!Snaps(want, same, same)
    BY <1>2, <1>3 DEF R!Snaps, fps
<1> QED
    BY <1>2, <1>4 DEF R!UserinfoChanged, Given, same, fps

\* A player that just got the settings has them for the sv_fps among them.
LEMMA GivenAsTheyAre ==
    ASSUME NEW want, NEW settings \in R!Settings
    PROVE  R!UserinfoChanged(want, settings, settings) = Given(want, settings, settings.fps)
<1>1. [settings EXCEPT !.fps = settings.fps] = settings
    BY DEF R!Settings
<1> QED
    BY <1>1 DEF Given

\* Every step leaves the players with what the settings applied give.
LEMMA AppliedNext ==
    ASSUME RatesTypeOK, RatesApplied, R!Next
    PROVE  RatesApplied'
<1> USE DEF RatesApplied
<1>1. CASE \E c \in Clients : R!SendMessage(c)
    BY <1>1 DEF R!SendMessage, R!LiveFps
<1>2. CASE \E c \in Clients : R!Leave(c)
    BY <1>2 DEF R!Leave, RatesTypeOK, R!LiveFps
<1>3. ASSUME NEW c \in Clients, NEW want \in Wants, R!Userinfo(c, want)
      PROVE  RatesApplied'
    <2> DEFINE new == R!UserinfoChanged(want, cvars, copies)
    <2>1. UNCHANGED <<cvars, copies, applied>> /\ client' = [client EXCEPT ![c] = new]
        BY <1>3 DEF R!Userinfo
    <2>2. new.want = want /\ new = Given(want, copies, R!LiveFps(cvars))
        BY UserinfoType, OnlyFpsIsLive DEF RatesTypeOK
    <2> HIDE DEF new
    <2>3. \A d \in Clients : client'[d] = IF d = c THEN new ELSE client[d]
        BY <2>1 DEF RatesTypeOK
    <2>4. R!LiveFps(cvars)' = R!LiveFps(cvars)
        BY <2>1 DEF R!LiveFps
    <2> QED
        BY <2>1, <2>2, <2>3, <2>4
<1>4. CASE \E value \in MaxRates : R!SetMaxRate(value)
    BY <1>4 DEF R!SetMaxRate, R!LiveFps
<1>5. ASSUME NEW settings \in R!Settings, R!Set(settings),
             settings.fps = cvars.fps \/ settings.fps \in Fps
      PROVE  RatesApplied'
    <2>1. cvars' = settings /\ UNCHANGED <<copies, applied, client>>
        BY <1>5 DEF R!Set
    <2>2. R!LiveFps(settings) \in R!FpsValues
        BY <1>5 DEF R!LiveFps, R!FpsValues
    <2>3. R!LiveFps(cvars)' = R!LiveFps(settings)
        BY <2>1 DEF R!LiveFps
    <2> QED
        BY <2>1, <2>2, <2>3
<1>6. CASE R!Frame
    <2>1. /\ R!Corrected \in R!Settings /\ R!Corrected # R!Zeros
          /\ R!Corrected.fps = R!LiveFps(cvars) /\ R!LiveFps(R!Corrected) = R!LiveFps(cvars)
        BY CorrectedType DEF RatesTypeOK
    <2>2. cvars' = R!Corrected /\ R!LiveFps(cvars)' = R!LiveFps(cvars)
        BY <1>6, <2>1 DEF R!Frame, R!LiveFps
    <2>3. CASE ~(since + 1 >= Second)
        BY <1>6, <2>2, <2>3 DEF R!Frame
    <2>4. CASE since + 1 >= Second
        <3>1. /\ copies' = R!Corrected /\ applied' = R!Corrected
              /\ client' = IF applied # R!Corrected THEN R!SettingsChanged(R!Corrected) ELSE client
            BY <1>6, <2>4 DEF R!Frame, R!UpdateAll
        <3>2. ASSUME NEW c \in Clients, client'[c] # NoClient
              PROVE  \E fps \in R!FpsValues :
                        client'[c] = Given(client'[c].want, R!Corrected, fps)
            <4>1. CASE applied # R!Corrected
                <5>1. /\ client[c] # NoClient /\ client'[c].want = client[c].want
                      /\ client'[c] = R!UserinfoChanged(client[c].want, R!Corrected, R!Corrected)
                    BY <2>1, <3>1, <3>2, <4>1, SettingsChangedType
                <5> QED
                    BY <2>1, <5>1, GivenAsTheyAre
            <4>2. CASE applied = R!Corrected
                BY <2>1, <3>1, <3>2, <4>2
            <4> QED
                BY <4>1, <4>2
        <3> QED
            BY <2>2, <3>1, <3>2
    <2> QED
        BY <2>3, <2>4
<1>7. CASE R!MapChange
    BY <1>7 DEF R!MapChange, R!LiveFps
<1>8. CASE \/ \E value \in MinRates : R!Set([cvars EXCEPT !.minRate = value])
           \/ \E value \in MinSnaps : R!Set([cvars EXCEPT !.minSnaps = value])
           \/ \E value \in MaxSnaps : R!Set([cvars EXCEPT !.maxSnaps = value])
    BY <1>5, <1>8, SetType, RatesLimits DEF RatesTypeOK
<1>9. CASE \E value \in Fps : R!Set([cvars EXCEPT !.fps = value])
    <2>1. PICK value \in Fps : R!Set([cvars EXCEPT !.fps = value])
        BY <1>9
    <2>2. [cvars EXCEPT !.fps = value] \in R!Settings /\ [cvars EXCEPT !.fps = value].fps = value
        BY RatesLimits DEF RatesTypeOK, R!Settings
    <2> QED
        BY <1>5, <2>1, <2>2
<1> QED
    BY <1>1, <1>2, <1>3, <1>4, <1>6, <1>7, <1>8, <1>9 DEF R!Next

\* Apply gives what the documentation promises (docs/features.md): the settings
\* clamped one after the other are the least number allowed that is wanted, or the
\* greatest allowed.
LEMMA ApplyAsPromised ==
    ASSUME NEW want \in Wants, NEW settings \in R!Settings, settings.fps >= 1
    PROVE  LET given == R!UserinfoChanged(want, settings, settings)
               promised == R!Promised(want, settings)
           IN  given.rate = promised.rate /\ given.snaps = promised.snaps
<1> DEFINE caps == {settings.fps} \cup (IF settings.maxSnaps > 0 THEN {settings.maxSnaps} ELSE {})
           allowed == {n \in 1..settings.fps : \A cap \in caps : n <= cap}
           wanted == {n \in allowed : n >= want.snaps /\ n >= settings.minSnaps}
           snaps == R!Snaps(want, settings, settings)
           cap == IF settings.maxSnaps > 0 THEN R!Least(settings.maxSnaps, settings.fps)
                  ELSE settings.fps
<1>1. /\ want.snaps \in Int /\ settings.fps \in Int /\ settings.maxSnaps \in Int
      /\ settings.minSnaps \in Int
    BY RatesLimits DEF R!Settings
<1>2. cap \in Nat \ {0}
    BY <1>1 DEF R!Least
<1>3. allowed = 1..cap
    BY <1>1 DEF R!Least
<1>4. snaps = R!Most(R!Least(R!Most(want.snaps, R!Least(settings.minSnaps, cap)), cap), 1)
    BY <1>1 DEF R!Snaps, R!LiveFps
<1>5. wanted = {n \in 1..cap : n >= want.snaps /\ n >= settings.minSnaps}
    BY <1>3
<1> HIDE DEF caps, allowed, wanted, snaps, cap
<1>6. CASE wanted = {}
    <2>1. cap < want.snaps \/ cap < settings.minSnaps
        BY <1>1, <1>2, <1>5, <1>6
    <2>2. snaps = cap
        BY <1>1, <1>2, <1>4, <2>1 DEF R!Most, R!Least
    <2>3. snaps = CHOOSE n \in allowed : \A k \in allowed : k <= n
        BY <1>2, <1>3, <2>2
    <2> QED
        BY <1>6, <2>3 DEF R!Promised, R!UserinfoChanged, R!EngineRate, caps, allowed, wanted, snaps
<1>7. CASE wanted # {}
    <2>1. cap >= want.snaps /\ cap >= settings.minSnaps
        BY <1>1, <1>2, <1>5, <1>7
    <2>2. snaps \in wanted /\ \A k \in wanted : snaps <= k
        BY <1>1, <1>2, <1>4, <1>5, <2>1 DEF R!Most, R!Least
    <2>3. snaps = CHOOSE n \in wanted : \A k \in wanted : n <= k
        <3>1. \A n \in wanted : (\A k \in wanted : n <= k) => n = snaps
            BY <1>2, <1>5, <2>2
        <3> QED
            BY <2>2, <3>1
    <2> QED
        BY <1>7, <2>3 DEF R!Promised, R!UserinfoChanged, R!EngineRate, caps, allowed, wanted, snaps
<1> QED
    BY <1>6, <1>7

-----------------------------------------------------------------------------
\* The steps of the composition: those of Restart leave the rates alone.
LEMMA RatesStep == RatesTypeOK /\ [MCNext]_<<part, vars, restartVars, rateVars>> => RatesTypeOK'
<1> SUFFICES ASSUME RatesTypeOK, [MCNext]_<<part, vars, restartVars, rateVars>> PROVE RatesTypeOK'
    OBVIOUS
<1>1. CASE R!Next
    BY <1>1, RatesNext
<1>2. CASE UNCHANGED rateVars
    BY <1>2 DEF rateVars, RatesTypeOK
<1> QED
    BY <1>1, <1>2 DEF MCNext

LEMMA AlwaysRates == MCSpec => []RatesTypeOK
<1>1. MCInit => RatesTypeOK
    BY RatesInit DEF MCInit
<1> QED
    BY <1>1, RatesStep, PTL DEF MCSpec

\* The rate that /netStatus shows is the one by which the engine divides, never
\* below its lowest (Applied of Rate.cpp, SV_RateMsec).
THEOREM ShownRatesAreUsed == MCSpec => []ShownRateIsUsed
<1>1. RatesTypeOK => ShownRateIsUsed
    <2> SUFFICES ASSUME RatesTypeOK, NEW c \in Clients, client[c] # NoClient
                 PROVE  R!Shown(c) = R!Used(c) /\ R!Used(c) >= LowestRate
        BY DEF ShownRateIsUsed, R!ShownRateIsUsed
    <2>1. client[c].rate \in Nat /\ client[c].rate >= LowestRate
        BY DEF RatesTypeOK, RatePlayers
    <2> QED
        BY <2>1, RatesLimits DEF RatesTypeOK, R!Shown, R!Used, R!RaisedMaxRate, R!Most
<1> QED
    BY <1>1, AlwaysRates, PTL

\* Whatever the order of the settings, the userinfos and the maps, the frame that
\* updates leaves every player with what docs/features.md promises: for the sv_fps
\* of the settings when the update sees a change, and otherwise for some sv_fps, as
\* it is the only setting read live (UpdateAll, and SettingsChanged of Rate.cpp).
THEOREM SettingsReachPlayers == MCSpec => SettingsReachThePlayers
<1> DEFINE Reaches ==
        R!Frame /\ since' = 0
        => \A c \in Clients : client[c] # NoClient =>
               LET SnapsFor(fps) == R!Promised(client[c].want, [cvars' EXCEPT !.fps = fps]).snaps
               IN  /\ client'[c].rate = R!Promised(client[c].want, cvars').rate
                   /\ \E fps \in R!FpsValues : client'[c].snaps = SnapsFor(fps)
                   /\ applied # cvars' => client'[c].snaps = SnapsFor(cvars'.fps)
<1>1. MCInit => RatesTypeOK /\ RatesApplied
    BY RatesInit DEF MCInit
<1>2. RatesTypeOK /\ RatesApplied /\ [MCNext]_<<part, vars, restartVars, rateVars>>
        => (RatesTypeOK /\ RatesApplied)'
    <2> SUFFICES ASSUME RatesTypeOK, RatesApplied,
                        [MCNext]_<<part, vars, restartVars, rateVars>>
                 PROVE  RatesApplied'
        BY RatesStep
    <2>1. CASE R!Next
        BY <2>1, AppliedNext
    <2>2. CASE UNCHANGED rateVars
        BY <2>2 DEF rateVars, RatesApplied, R!LiveFps
    <2> QED
        BY <2>1, <2>2 DEF MCNext
<1>3. RatesTypeOK /\ RatesApplied => [Reaches]_R!vars
    <2> SUFFICES ASSUME RatesTypeOK, RatesApplied, R!Frame, since' = 0,
                        NEW c \in Clients, client[c] # NoClient
                 PROVE  LET SnapsFor(fps) ==
                                R!Promised(client[c].want, [cvars' EXCEPT !.fps = fps]).snaps
                        IN  /\ client'[c].rate = R!Promised(client[c].want, cvars').rate
                            /\ \E fps \in R!FpsValues : client'[c].snaps = SnapsFor(fps)
                            /\ applied # cvars' => client'[c].snaps = SnapsFor(cvars'.fps)
        OBVIOUS
    <2> DEFINE want == client[c].want
               With(fps) == [R!Corrected EXCEPT !.fps = fps]
    <2>1. /\ cvars' = R!Corrected
          /\ client' = IF applied # R!Corrected THEN R!SettingsChanged(R!Corrected) ELSE client
        BY DEF R!Frame, R!UpdateAll, RatesTypeOK
    <2>2. /\ R!Corrected \in R!Settings /\ R!Corrected # R!Zeros
          /\ R!Corrected.fps = R!LiveFps(cvars) /\ R!Corrected.fps \in R!FpsValues
        BY CorrectedType DEF RatesTypeOK, RatesApplied
    <2>3. want \in Wants
        BY DEF RatesTypeOK, RatePlayers
    <2>4. ASSUME NEW fps \in R!FpsValues
          PROVE  LET given == Given(want, R!Corrected, fps)
                 IN  /\ given.rate = R!Promised(want, R!Corrected).rate
                     /\ given.snaps = R!Promised(want, With(fps)).snaps
        <3>1. /\ With(fps) \in R!Settings /\ With(fps).fps = fps /\ fps >= 1
              /\ With(fps).minRate = R!Corrected.minRate
            BY <2>2, FpsValuesType DEF R!Settings
        <3>2. /\ Given(want, R!Corrected, fps).rate = R!Promised(want, With(fps)).rate
              /\ Given(want, R!Corrected, fps).snaps = R!Promised(want, With(fps)).snaps
            <4>1. Given(want, R!Corrected, fps) = R!UserinfoChanged(want, With(fps), With(fps))
                BY DEF Given
            <4> HIDE DEF want, With
            <4> QED
                BY <2>3, <3>1, <4>1, ApplyAsPromised
        <3>3. R!Promised(want, With(fps)).rate = R!Promised(want, R!Corrected).rate
            <4> HIDE DEF want, With
            <4> QED
                BY <3>1 DEF R!Promised
        <3> QED
            BY <3>2, <3>3
    <2> HIDE DEF want, With
    <2>5. CASE applied # R!Corrected
        <3>1. client'[c] = Given(want, R!Corrected, R!Corrected.fps)
            BY <2>1, <2>2, <2>5, GivenAsTheyAre DEF R!SettingsChanged, want
        <3> QED
            BY <2>1, <2>2, <2>4, <3>1 DEF want, With
    <2>6. CASE applied = R!Corrected
        <3>1. PICK fps \in R!FpsValues : client'[c] = Given(want, R!Corrected, fps)
            BY <2>1, <2>2, <2>6 DEF RatesApplied, want
        <3> QED
            BY <2>1, <2>4, <2>6, <3>1 DEF want, With
    <2> QED
        BY <2>5, <2>6
<1> HIDE DEF Reaches
<1>4. MCSpec => [][Reaches]_R!vars
    BY <1>1, <1>2, <1>3, PTL DEF MCSpec
<1> QED
    BY <1>4 DEF SettingsReachThePlayers, R!SettingsReachThePlayers, Reaches
=============================================================================
