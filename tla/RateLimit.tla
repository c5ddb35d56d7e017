----------------------------- MODULE RateLimit -----------------------------
(***************************************************************************)
(* The limits on connectionless packets (Engine/RateLimit.cpp), behind the *)
(* filter of SV_PacketEvent: a leaky bucket per address, shared by         *)
(* getstatus, getinfo, getchallenge and connect; one for every getstatus   *)
(* and getinfo; one for every rcon with a bad password.                    *)
(*                                                                         *)
(* Times are the unsigned milliseconds of the engine, which wrap.  The     *)
(* code keeps no history: "watch" is an observer, added here, that starts  *)
(* at any moment and counts what one bucket lets through from then on, so  *)
(* that what holds for it holds for every interval of time.                *)
(*                                                                         *)
(* The packets that the filter does not count (game packets, other         *)
(* commands, ipAuthorize and a getstatus with a long argument, which it    *)
(* drops) change nothing here.  Loopback and bots are not limited.         *)
(***************************************************************************)
EXTENDS Integers, FiniteSets

CONSTANTS
    Addrs,          \* IPv4 addresses, without the port
    Status, Rcon,   \* the buckets of every status request, of every bad password
    Nothing,        \* what is watched before the observer starts
    Burst,          \* requests a bucket holds: 10
    Period,         \* time to leak one request, address and password: 1000 ms
    StatusPeriod,   \* time to leak one request, status: 100 ms
    GCInterval,     \* time between two garbage collections: 1000 ms
    MaxBuckets,     \* entries of the table of addresses: 65536
    Wrap,           \* size of the clock: 2^32
    MaxLife,        \* longest life of a load of the proxy (Engine/Restart.cpp)
    Packets,        \* bound: kinds of packets that arrive
    FirstTimes,     \* bound: times of the clock when the server starts
    MaxTime         \* bound: last time of the clock

Meters == Addrs \cup {Status, Rcon}

ASSUME LimitsAssumption ==
    /\ Status \notin Addrs /\ Rcon \notin Addrs /\ Status # Rcon
    /\ Nothing \notin Meters
    /\ Burst \in Nat \ {0} /\ Period \in Nat \ {0} /\ StatusPeriod \in Nat \ {0}
    /\ GCInterval \in Nat /\ MaxBuckets \in Nat
    /\ Wrap \in Nat \ {0} /\ MaxLife \in Nat /\ MaxTime \in Nat
    /\ FirstTimes \subseteq Nat
    /\ Packets \subseteq {"connect", "status", "rcon"}
    /\ IsFiniteSet(Addrs)

\* The proxy loads the map again, and itself, before svs.time reaches
\* 0x70000000: no load of it sees a whole turn of the clock.
ASSUME LifeAssumption ==
    /\ MaxLife + Period < Wrap /\ MaxLife + StatusPeriod < Wrap
    /\ MaxLife + GCInterval < Wrap

VARIABLES
    clock,          \* milliseconds since the machine started, never wraps
    loaded,         \* clock when the proxy was loaded
    buckets,        \* the bucket of each address, NoBucket when it has none
    lastGC,         \* time of the last garbage collection
    outbound,       \* the bucket of Status
    badPassword,    \* the bucket of Rcon
    watch           \* the observer

vars == <<clock, loaded, buckets, lastGC, outbound, badPassword, watch>>

-----------------------------------------------------------------------------
NoBucket == [burst |-> -1]
BucketType == [lastTime : 0..(Wrap - 1), burst : 0..Burst]
ZeroBucket == [lastTime |-> 0, burst |-> 0]
NotWatching == [meter |-> Nothing, since |-> 0, passed |-> 0, last |-> 0, answer |-> "none"]

\* passed counts the requests let through since "since", the last one at "last";
\* answer is what became of a request made at this very moment.
WatchType == [meter : Meters \cup {Nothing}, since : Nat, passed : Nat, last : Nat,
              answer : {"none", "passed", "limited", "full"}]

InTable(table) == {a \in Addrs : table[a] # NoBucket}

TypeOK ==
    /\ clock \in Nat /\ loaded \in 0..clock
    /\ buckets \in [Addrs -> BucketType \cup {NoBucket}]
    /\ Cardinality(InTable(buckets)) <= MaxBuckets
    /\ lastGC \in 0..(Wrap - 1)
    /\ outbound \in BucketType /\ badPassword \in BucketType
    /\ watch \in WatchType

Init ==
    /\ clock \in FirstTimes
    /\ loaded = clock
    /\ buckets = [a \in Addrs |-> NoBucket]
    /\ lastGC = 0
    /\ outbound = ZeroBucket /\ badPassword = ZeroBucket
    /\ watch = NotWatching

\* Milliseconds(), and an unsigned subtraction from it.
Now == clock % Wrap
Since(t) == (Now - t) % Wrap

-----------------------------------------------------------------------------
(* A bucket *)

\* Mutant of Leaked: the time left of a period is lost.
LeakedRestarts(b, period) ==
    LET expired == Since(b.lastTime) \div period
    IN  IF expired > b.burst THEN [lastTime |-> Now, burst |-> 0]
        ELSE [lastTime |-> Now, burst |-> b.burst - expired]

\* Limit, first half: what leaked since the last request; lastTime stays at the
\* end of a period.
Leaked(b, period) ==
    LET interval == Since(b.lastTime)
        expired == interval \div period
    IN  IF expired > b.burst
        THEN [lastTime |-> Now, burst |-> 0]
        ELSE [lastTime |-> (Now - (interval % period)) % Wrap, burst |-> b.burst - expired]

\* Limit, second half: a full bucket refuses the request, another one takes it.
IsFull(b) == b.burst = Burst
Limit(b, period) ==
    LET leaked == Leaked(b, period)
    IN  IF IsFull(leaked) THEN leaked ELSE [leaked EXCEPT !.burst = @ + 1]
Answer(b, period) == IF IsFull(Leaked(b, period)) THEN "limited" ELSE "passed"

-----------------------------------------------------------------------------
(* The table of addresses *)

\* Empty since a while: the garbage collector of BucketForAddress erases it.
Expired(b) == b # NoBucket /\ Since(b.lastTime) > b.burst * Period
CollectionDue == Since(lastGC) > GCInterval

\* Mutants of Collected: an entry is erased one period after its last request;
\* the collector never erases.
CollectedEarly ==
    [a \in Addrs |-> IF /\ CollectionDue /\ buckets[a] # NoBucket
                        /\ Since(buckets[a].lastTime) > Period
                     THEN NoBucket ELSE buckets[a]]
NeverCollected == buckets

Collected ==
    [a \in Addrs |-> IF CollectionDue /\ Expired(buckets[a]) THEN NoBucket ELSE buckets[a]]

HasRoom(table) == Cardinality(InTable(table)) < MaxBuckets

\* BucketForAddress: the bucket of the address, a new one, or none when the
\* table is full.
BucketForAddress(a) ==
    IF Collected[a] # NoBucket THEN Collected[a]
    ELSE IF HasRoom(Collected) THEN [lastTime |-> Now, burst |-> 0]
    ELSE NoBucket

AddressAnswer(a) ==
    IF BucketForAddress(a) = NoBucket THEN "full"
    ELSE Answer(BucketForAddress(a), Period)

\* AddressAllowed: what it changes.
AddressAllowed(a) ==
    /\ buckets' = [Collected EXCEPT ![a] =
                     IF BucketForAddress(a) = NoBucket THEN NoBucket
                     ELSE Limit(BucketForAddress(a), Period)]
    /\ lastGC' = IF CollectionDue THEN Now ELSE lastGC

-----------------------------------------------------------------------------
(* The observer *)

Watch(m) ==
    /\ watch.meter = Nothing
    /\ watch' = [NotWatching EXCEPT !.meter = m, !.since = clock, !.last = clock]
    /\ UNCHANGED <<clock, loaded, buckets, lastGC, outbound, badPassword>>

\* The bucket m gave this answer to a request.
Noted(w, m, answer) ==
    IF w.meter # m THEN w
    ELSE IF answer = "passed"
    THEN [w EXCEPT !.passed = @ + 1, !.last = clock, !.answer = answer]
    ELSE [w EXCEPT !.answer = answer]

-----------------------------------------------------------------------------
(* The packets *)

\* getchallenge and connect: only the bucket of the address.
Connect(a) ==
    /\ "connect" \in Packets
    /\ AddressAllowed(a)
    /\ watch' = Noted(watch, a, AddressAnswer(a))
    /\ UNCHANGED <<clock, loaded, outbound, badPassword>>

\* StatusAllowed: getstatus and getinfo take from both buckets, the one of the
\* address first.
StatusRequest(a) ==
    /\ "status" \in Packets
    /\ AddressAllowed(a)
    /\ IF AddressAnswer(a) = "passed"
       THEN /\ outbound' = Limit(outbound, StatusPeriod)
            /\ watch' = Noted(Noted(watch, a, "passed"), Status, Answer(outbound, StatusPeriod))
       ELSE /\ watch' = Noted(watch, a, AddressAnswer(a))
            /\ UNCHANGED outbound
    /\ UNCHANGED <<clock, loaded, badPassword>>

\* RconAllowed: a valid password is never limited.
RconRequest(valid) ==
    /\ "rcon" \in Packets
    /\ IF valid
       THEN UNCHANGED <<badPassword, watch>>
       ELSE /\ badPassword' = Limit(badPassword, Period)
            /\ watch' = Noted(watch, Rcon, Answer(badPassword, Period))
    /\ UNCHANGED <<clock, loaded, buckets, lastGC, outbound>>

\* A map change loads the proxy again: the limits start from zero.
MapChange ==
    /\ loaded' = clock
    /\ buckets' = [a \in Addrs |-> NoBucket]
    /\ lastGC' = 0
    /\ outbound' = ZeroBucket /\ badPassword' = ZeroBucket
    /\ watch' = NotWatching
    /\ UNCHANGED clock

Tick ==
    /\ clock < MaxTime
    /\ clock - loaded < MaxLife
    /\ clock' = clock + 1
    /\ watch' = [watch EXCEPT !.answer = "none"]
    /\ UNCHANGED <<loaded, buckets, lastGC, outbound, badPassword>>

Next ==
    \/ \E m \in Meters : Watch(m)
    \/ \E a \in Addrs : Connect(a) \/ StatusRequest(a)
    \/ \E valid \in BOOLEAN : RconRequest(valid)
    \/ MapChange
    \/ Tick

Spec == Init /\ [][Next]_vars

-----------------------------------------------------------------------------
(* Properties *)

PeriodOf(m) == IF m = Status THEN StatusPeriod ELSE Period

\* "Each address gets a burst of 10, then 1 per second" (docs/features.md), and
\* so do the status requests of all and the bad passwords: over any interval, a
\* bucket lets through a burst and one more per period begun.  Neither the
\* garbage collector, which forgets an address, nor the wrap of the clock gives
\* more.
RateBound ==
    watch.meter # Nothing =>
      PeriodOf(watch.meter) * (watch.passed - Burst)
        < clock - watch.since + PeriodOf(watch.meter)

\* A full bucket refuses only within a period of a request it let through, of
\* the same bucket: a client that tries again every 3 seconds gets in whatever
\* it sent before, and whatever floods the other addresses send ("a global
\* bucket would let a getstatus flood block every connection", sv_main.cpp).
NeverStarved ==
    watch.answer = "limited" => clock - watch.last < PeriodOf(watch.meter)

\* The table of addresses only keeps the addresses of a flood that goes on: at
\* each request, an entry outlives its bucket by one collection at most ("1 to 2
\* s for a spoofed address that sends one packet").  So a new address finds no
\* room only when as many others as the table holds sent requests just before.
OnlyRecentAddresses ==
    watch.answer # "none" /\ watch.meter \in Addrs =>
      \A a \in InTable(buckets) :
         Since(buckets[a].lastTime) <= buckets[a].burst * Period + GCInterval

\* A flood of other addresses neither takes the turn of an address nor its room in
\* the table.
FloodHarmsNoOther == NeverStarved /\ OnlyRecentAddresses
=============================================================================
