---------------------------- MODULE PingsProofs -----------------------------
(***************************************************************************)
(* Proofs about what is measured of a client and shown to it: its pings    *)
(* (Pings), its timenudge (Timenudge) and the simulated client of it       *)
(* (ClientTime), what came and was sent in the last second (NetRates), and *)
(* the pages of the table (Pages).  They hold for rings, clocks, windows,  *)
(* clients, intervals and texts of any size.                               *)
(*                                                                         *)
(* Pings.  The clock turns: a difference of two readings is the one of the *)
(* times they are of, when that fits (Difference).  So a slot of frames    *)
(* holds the delay of its message (FramesInv), whatever slots the messages *)
(* share.  The round trips are in their ring in the order of the messages  *)
(* (EstimateInv), and a message only leaves it for newer ones (RingInv):   *)
(* with no more messages acknowledged in the last seconds than it holds,   *)
(* none of them is missing when the window ends.  A message acknowledged   *)
(* after the start of the window started it, or came less than a second    *)
(* after (WindowInv).                                                      *)
(*                                                                         *)
(* The last second.  The ring of the packets holds the last ones, the      *)
(* newest before the place of the next one (PacketsInv); those of the last *)
(* second come first, as time does not go back (LastSecondFirst).  The     *)
(* messages come at their interval, so the time of one is known from its   *)
(* number (SnapshotsInv), and those of the last second are the last so     *)
(* many (ShownAre): they span one interval less than there are of them,    *)
(* whatever their number.                                                  *)
(***************************************************************************)
EXTENDS MCPings, Sequences, Arithmetic, FiniteSetTheorems, TLAPS

-----------------------------------------------------------------------------
(* Clocks *)

\* A number of 32 bits differs from the one it was by turns of the clock.
LEMMA Turns ==
    ASSUME NEW x \in Int
    PROVE  /\ Signed(x) \in Clock
           /\ \E q \in Int : x = (2 * Half) * q + Signed(x)
<1>1. PICK p \in Nat \ {0} : p = 2 * Half
    BY PingsAssumption
<1>2. PICK y \in Int : y = x + Half
    BY PingsAssumption
<1>3. y \div p \in Int /\ y % p \in 0..(p - 1) /\ y = p * (y \div p) + (y % p)
    BY SMT
<1>4. PICK q \in Int, r \in 0..(p - 1) : r = y % p /\ y = p * q + r
    BY <1>3
<1>5. Signed(x) = r - Half
    BY <1>1, <1>2, <1>4 DEF Signed
<1>6. PICK z \in Int : z = p * q
    BY <1>1, SMT
<1>7. x = z + (r - Half)
    BY <1>2, <1>4, <1>6, PingsAssumption
<1>8. r - Half \in Clock
    BY <1>1, PingsAssumption DEF Clock
<1> QED
    BY <1>1, <1>5, <1>6, <1>7, <1>8

\* A number that the clock reads is read as it is, whatever the turns.
LEMMA Read ==
    ASSUME NEW x \in Int, NEW y \in Clock, NEW q \in Int, x = (2 * Half) * q + y
    PROVE  Signed(x) = y
<1>1. PICK p \in Nat \ {0} : p = 2 * Half
    BY PingsAssumption
<1>2. PICK z \in Int : z = p * q
    BY <1>1, SMT
<1>3. PICK r \in 0..(p - 1) : r = y + Half
    BY <1>1, PingsAssumption DEF Clock
<1>4. PICK w \in Int : w = x + Half
    BY PingsAssumption
<1>5. w = p * q + r
    BY <1>1, <1>2, <1>3, <1>4, PingsAssumption DEF Clock
<1>6. w % p = r
    BY <1>5, Remainder
<1> QED
    BY <1>1, <1>3, <1>4, <1>6, PingsAssumption DEF Signed, Clock

LEMMA SameOnClock ==
    ASSUME NEW x \in Clock
    PROVE  Signed(x) = x
<1>1. x \in Int /\ 0 \in Int /\ x = (2 * Half) * 0 + x
    BY PingsAssumption, SMT DEF Clock
<1> QED
    BY <1>1, Read

\* The difference of two times is the one of the numbers they are of, if the clock
\* can tell it, though each has turned.
LEMMA Difference ==
    ASSUME NEW x \in Int, NEW y \in Int, x - y \in Clock
    PROVE  Signed(Signed(x) - Signed(y)) = x - y
<1>1. PICK p \in Nat \ {0} : p = 2 * Half
    BY PingsAssumption
<1>2. PICK a \in Clock, j \in Int : a = Signed(x) /\ x = p * j + a
    BY <1>1, Turns
<1>3. PICK b \in Clock, k \in Int : b = Signed(y) /\ y = p * k + b
    BY <1>1, Turns
<1>4. PICK u \in Int, v \in Int, w \in Int :
            u = p * j /\ v = p * k /\ w = p * (k - j) /\ w = v - u
    <2>1. p * j \in Int /\ p * k \in Int /\ p * (k - j) \in Int
        BY SMT
    <2>2. p * (k - j) = p * k - p * j
        BY SMT
    <2> QED
        BY <2>1, <2>2
<1>5. a \in Int /\ b \in Int /\ a - b \in Int /\ k - j \in Int
    BY PingsAssumption DEF Clock
<1>6. a - b = p * (k - j) + (x - y)
    BY <1>2, <1>3, <1>4, <1>5
<1>7. Signed(a - b) = x - y
    BY <1>1, <1>5, <1>6, Read
<1> QED
    BY <1>2, <1>3, <1>7

-----------------------------------------------------------------------------
(* The rings *)

LEMMA SlotType ==
    ASSUME NEW m \in Nat
    PROVE  Slot(m) \in Slots
  BY Division, PingsAssumption DEF Slot, Slots

\* Two messages of a slot are the size of the ring apart.
LEMMA SlotsApart ==
    ASSUME NEW k \in Nat, NEW m \in Nat, k < m, Slot(k) = Slot(m)
    PROVE  k + Backup <= m
<1>1. Backup \in Nat \ {0}
    BY PingsAssumption
<1>2. PICK q \in Nat, r \in 0..(Backup - 1) : r = Slot(k) /\ k = Backup * q + r
    BY <1>1, Division DEF Slot
<1>3. PICK t \in Nat, u \in 0..(Backup - 1) : u = Slot(m) /\ m = Backup * t + u
    BY <1>1, Division DEF Slot
<1>4. PICK v \in Int, w \in Int : v = Backup * q /\ w = Backup * t
    BY <1>1, SMT
<1>5. v < w /\ r = u
    BY <1>2, <1>3, <1>4
<1>6. t > q
    <2>1. q > t => Backup * q >= Backup * t + Backup
        BY <1>1, Times
    <2>2. ~(q > t) /\ q # t
        BY <1>1, <1>4, <1>5, <2>1
    <2> QED
        BY <2>2
<1>7. w >= v + Backup
    BY <1>1, <1>4, <1>6, Times
<1> QED
    BY <1>1, <1>2, <1>3, <1>4, <1>5, <1>7

\* The place of the next round trip.
LEMMA NextPlace ==
    ASSUME NEW i \in 0..(RttSamples - 1)
    PROVE  (i + 1) % RttSamples = IF i = RttSamples - 1 THEN 0 ELSE i + 1
<1>1. RttSamples \in Nat \ {0}
    BY PingsAssumption
<1>2. CASE i = RttSamples - 1
    <2>1. i + 1 \in Int /\ 1 \in Int /\ 0 \in 0..(RttSamples - 1)
          /\ i + 1 = RttSamples * 1 + 0
        BY <1>1, <1>2, SMT
    <2>2. (i + 1) % RttSamples = 0
        BY <1>1, <2>1, Remainder
    <2> QED
        BY <1>2, <2>2
<1>3. CASE i # RttSamples - 1
    <2>1. i + 1 \in Int /\ 0 \in Int /\ i + 1 \in 0..(RttSamples - 1)
          /\ i + 1 = RttSamples * 0 + (i + 1)
        BY <1>1, <1>3, SMT
    <2>2. (i + 1) % RttSamples = i + 1
        BY <1>1, <2>1, Remainder
    <2> QED
        BY <1>3, <2>2
<1> QED
    BY <1>2, <1>3

-----------------------------------------------------------------------------
(* The invariant *)

SentAt(k) == Signed(start + history[k].sent)
AckedAt(k) == Signed(start + history[k].acked)

\* The messages are sent in order, and the client never acknowledges an older one
\* than before.
HistoryInv ==
    /\ \A k \in Messages : history[k].sent # Never <=> k < outgoing
    /\ \A k \in Messages : history[k].acked # Never =>
          k <= acknowledge /\ history[k].sent # Never /\ history[k].sent <= history[k].acked
    /\ acknowledge # 0 => history[acknowledge].acked # Never
    /\ \A j, k \in Messages :
          j < k /\ history[j].acked # Never /\ history[k].acked # Never
            => history[j].acked <= history[k].acked

\* What a slot keeps of its message: the time of its sending, and of its first
\* acknowledgement, unless that one reads as none.
FrameInv(s) ==
    LET f == frames[s]
        k == f.message
    IN  k # 0 =>
            /\ k < outgoing /\ Slot(k) = s
            /\ f.fix => f.sent = SentAt(k)
            /\ history[k].acked = Never => f.of # k
            /\ history[k].acked # Never /\ AckedAt(k) # -1 => f.acked # -1
            /\ f.of = k /\ f.ackedFix /\ AckedAt(k) # -1 => f.acked = AckedAt(k)

FramesInv == \A s \in Slots : FrameInv(s)

\* The place i of the ring is written to before the place j.
Older(i, j) ==
    IF i >= estimate.rttIndex THEN j < estimate.rttIndex \/ i < j
                              ELSE j < estimate.rttIndex /\ i < j

Places == 0..(RttSamples - 1)

\* What the estimate keeps of a message is its own, and the ring is in order.
EstimateInv ==
    /\ \A s \in Slots : estimate.sentSequence[s] # 0 =>
          /\ estimate.sentSequence[s] < outgoing /\ Slot(estimate.sentSequence[s]) = s
          /\ estimate.sentTime[s] = SentAt(estimate.sentSequence[s])
    /\ estimate.lastAcked <= acknowledge
    /\ estimate.lastAcked # 0 => history[estimate.lastAcked].acked # Never
    /\ \A i \in Places : estimate.rtt[i].message # 0 =>
          /\ estimate.rtt[i].message <= estimate.lastAcked
          /\ estimate.rtt[i].value =
                Signed(estimate.rtt[i].time - SentAt(estimate.rtt[i].message))
    /\ \A i, j \in Places : Older(i, j) =>
          estimate.rtt[i].message = 0 \/ estimate.rtt[i].message < estimate.rtt[j].message

\* In the first days: the slots hold the last messages, each is measured when it is
\* first acknowledged, and a round trip leaves the ring only for newer ones.
RingInv ==
    /\ netStatus
    /\ \A k \in Messages :
          k < outgoing => estimate.sentSequence[Slot(k)] = k \/ k + Backup < outgoing
    /\ acknowledge # 0 /\ estimate.sentSequence[Slot(acknowledge)] = acknowledge
          => estimate.lastAcked = acknowledge
    /\ \A i \in Places :
          LET r == estimate.rtt[i] IN
          /\ r.message = 0 => r.time = 0
          /\ r.message # 0 => /\ history[r.message].acked # Never
                              /\ r.time = start + history[r.message].acked
                              /\ r.value = Delay(r.message)
    /\ \A k \in Messages : Kept(k) =>
          \/ \E i \in Places : estimate.rtt[i].message = k
          \/ \A i \in Places : estimate.rtt[i].message > k

\* The net ping is the delay of a message.
OfAMessage == \E m \in Messages : history[m].acked # Never /\ estimate.netPing = Delay(m)

\* When the window started, and what the net ping is of since.
WindowInv ==
    /\ estimate.windowStart = 0 \/ estimate.windowStart >= start
    /\ estimate.windowStart <= start + elapsed
    /\ \A m \in Messages : history[m].acked # Never =>
          estimate.windowStart > start + history[m].acked - Second
    /\ OfAMessage \/ \A k \in Messages : Kept(k) =>
          \/ estimate.windowStart <= start + history[k].acked
          \/ estimate.windowStart > start + history[k].acked + Memory

Inv ==
    /\ TypeOK /\ HistoryInv /\ FramesInv /\ EstimateInv
    /\ InFirstDays => RingInv /\ WindowInv /\ NetPingMeasured /\ NetPingIsSmallest

-----------------------------------------------------------------------------
(* The steps *)

\* What a packet changes of the estimate, place by place.
Measures(m) ==
    netStatus /\ estimate.sentSequence[Slot(m)] = m /\ estimate.lastAcked # m

Keeps(m) == Measures(m) /\ Since(m) \in 0..MaxRtt

RingAfter(m) ==
    IF Keeps(m)
    THEN [estimate.rtt EXCEPT ![estimate.rttIndex] =
            [time |-> Milliseconds, value |-> Since(m), message |-> m]]
    ELSE estimate.rtt

RecentOf(rtts) ==
    {i \in Places : rtts[i].time # 0 /\ Signed(Milliseconds - rtts[i].time) <= Memory}

Ends == netStatus /\ ~(Signed(Milliseconds - estimate.windowStart) < Second)

NetPingOf(rtts) ==
    IF RecentOf(rtts) = {} THEN estimate.netPing
    ELSE Min({rtts[i].value : i \in RecentOf(rtts)})

\* A packet that acknowledges m makes this of the estimate.
PacketMakes(m, e) ==
    /\ e.sentTime = estimate.sentTime /\ e.sentSequence = estimate.sentSequence
    /\ e.lastAcked = IF Measures(m) THEN m ELSE estimate.lastAcked
    /\ e.rtt = RingAfter(m)
    /\ e.rttIndex = IF ~Keeps(m) THEN estimate.rttIndex
                    ELSE IF estimate.rttIndex = RttSamples - 1 THEN 0
                    ELSE estimate.rttIndex + 1
    /\ e.windowStart = IF Ends THEN Milliseconds ELSE estimate.windowStart
    /\ e.netPing = IF Ends THEN NetPingOf(RingAfter(m)) ELSE estimate.netPing

\* The smallest of some round trips is one of them.
LEMMA MinIsLeast ==
    ASSUME NEW V \in SUBSET Nat, V # {}
    PROVE  Min(V) \in V /\ \A x \in V : Min(V) <= x
  BY LowestNumber, Zenon DEF Min

\* The counters of the type invariant, as numbers.
LEMMA Counters ==
    ASSUME TypeOK
    PROVE  /\ MaxMessages \in Nat /\ Backup \in Nat \ {0}
           /\ outgoing \in 1..(MaxMessages + 1) /\ acknowledge \in 0..MaxMessages
           /\ acknowledge < outgoing
           /\ elapsed \in Nat /\ scenario.elapsed \in Nat
           /\ elapsed # Never /\ elapsed \in Never..elapsed
<1>1. MaxMessages \in Nat /\ Backup \in Nat \ {0}
    BY PingsAssumption
<1>2. /\ outgoing \in 1..(MaxMessages + 1) /\ acknowledge \in 0..MaxMessages
      /\ acknowledge < outgoing
    BY DEF TypeOK
<1>3. elapsed \in 0..scenario.elapsed /\ scenario \in Scenarios
    BY DEF TypeOK
<1>4. scenario.elapsed \in 0..(Half - 1) /\ Half \in Nat \ {0}
    BY <1>3, PingsAssumption
<1>5. elapsed \in Nat /\ scenario.elapsed \in Nat
    BY <1>3, <1>4
<1>6. elapsed # Never /\ elapsed \in Never..elapsed
    BY <1>5 DEF Never
<1> QED
    BY <1>1, <1>2, <1>5, <1>6

LEMMA ClockType ==
    ASSUME TypeOK
    PROVE  /\ start \in Clock /\ Milliseconds \in Clock
           /\ \A m \in Nat : Since(m) \in Clock
<1>1. start \in Clock /\ elapsed \in Nat
    BY PingsAssumption DEF TypeOK, start
<1>2. Milliseconds \in Clock
    BY <1>1, Turns DEF Milliseconds, Clock
<1>3. ASSUME NEW m \in Nat PROVE Since(m) \in Clock
    <2>1. estimate.sentTime[Slot(m)] \in Clock
        BY SlotType DEF TypeOK, EstimateType
    <2>2. PICK x \in Int : x = Milliseconds - estimate.sentTime[Slot(m)]
        BY <1>2, <2>1 DEF Clock
    <2> QED
        BY <2>2, Turns DEF Since
<1> QED
    BY <1>1, <1>2, <1>3

\* A window that ends changes two parts of an estimate.
WindowEnded(e, c, v) == [e EXCEPT !.windowStart = c, !.netPing = v]

LEMMA WindowedType ==
    ASSUME NEW e, NEW c, NEW v, NEW w,
           e \in EstimateType, c \in Clock, v \in 0..MaxRtt,
           w = WindowEnded(e, c, v)
    PROVE  /\ w \in EstimateType
           /\ w.sentTime = e.sentTime /\ w.sentSequence = e.sentSequence
           /\ w.lastAcked = e.lastAcked /\ w.rtt = e.rtt /\ w.rttIndex = e.rttIndex
           /\ w.windowStart = c /\ w.netPing = v
<1>1. PICK A, B, C, D, E : /\ A = [Slots -> Clock] /\ B = [Slots -> 0..MaxMessages]
                           /\ C = 0..MaxMessages
                           /\ D = [0..(RttSamples - 1) -> [time : Clock, value : 0..MaxRtt,
                                                          message : 0..MaxMessages]]
                           /\ E = 0..(RttSamples - 1)
    OBVIOUS
<1>2. PICK F, G : F = Clock /\ G = 0..MaxRtt
    OBVIOUS
<1>3. EstimateType = [sentTime : A, sentSequence : B, lastAcked : C, rtt : D,
                      rttIndex : E, windowStart : F, netPing : G]
    BY <1>1, <1>2, ZenonT(60) DEF EstimateType
<1>4. c \in F /\ v \in G
    BY <1>2, ZenonT(60)
<1>5. e \in [sentTime : A, sentSequence : B, lastAcked : C, rtt : D,
            rttIndex : E, windowStart : F, netPing : G]
    BY <1>3, ZenonT(60)
<1>6. /\ w \in [sentTime : A, sentSequence : B, lastAcked : C, rtt : D,
                 rttIndex : E, windowStart : F, netPing : G]
      /\ w.sentTime = e.sentTime /\ w.sentSequence = e.sentSequence
      /\ w.lastAcked = e.lastAcked /\ w.rtt = e.rtt /\ w.rttIndex = e.rttIndex
      /\ w.windowStart = c /\ w.netPing = v
    BY <1>4, <1>5, ZenonT(60) DEF WindowEnded
<1> QED
    BY <1>3, <1>6, ZenonT(60)

LEMMA PacketEstimate ==
    ASSUME TypeOK, NEW m \in Messages
    PROVE  PacketMakes(m, PacketReceived(m)) /\ PacketReceived(m) \in EstimateType
<1> DEFINE r == RoundTrip(m)
<1>1. estimate \in EstimateType /\ m \in Nat
    BY DEF TypeOK, Messages
<1>2. Milliseconds \in Clock /\ Since(m) \in Clock
    BY <1>1, ClockType
<1>3. (estimate.rttIndex + 1) % RttSamples =
        IF estimate.rttIndex = RttSamples - 1 THEN 0 ELSE estimate.rttIndex + 1
    BY <1>1, NextPlace DEF EstimateType
<1>4. CASE ~netStatus
    BY <1>1, <1>4 DEF PacketReceived, PacketMakes, Measures, Keeps, RingAfter, Ends
<1>5. CASE netStatus
    <2>1. /\ r.sentTime = estimate.sentTime /\ r.sentSequence = estimate.sentSequence
          /\ r.lastAcked = IF Measures(m) THEN m ELSE estimate.lastAcked
          /\ r.rtt = RingAfter(m)
          /\ r.rttIndex = IF ~Keeps(m) THEN estimate.rttIndex
                          ELSE (estimate.rttIndex + 1) % RttSamples
          /\ r.windowStart = estimate.windowStart /\ r.netPing = estimate.netPing
          /\ r \in EstimateType
        <3>1. CASE ~Measures(m)
            BY <1>1, <1>5, <3>1 DEF RoundTrip, Measures, Keeps, RingAfter
        <3>2. CASE Measures(m) /\ ~Keeps(m)
            <4>1. r = [estimate EXCEPT !.lastAcked = m]
                BY <1>5, <3>2 DEF RoundTrip, Measured, Measures, Keeps
            <4>2. r \in EstimateType
                BY <1>1, <4>1, SMTT(60) DEF EstimateType, Messages
            <4>3. /\ r.sentTime = estimate.sentTime
                  /\ r.sentSequence = estimate.sentSequence
                  /\ r.lastAcked = m /\ r.rtt = estimate.rtt
                  /\ r.rttIndex = estimate.rttIndex
                  /\ r.windowStart = estimate.windowStart /\ r.netPing = estimate.netPing
                BY <1>1, <4>1, SMTT(60) DEF EstimateType
            <4> QED
                BY <3>2, <4>2, <4>3 DEF RingAfter
        <3>3. CASE Keeps(m)
            <4>1. PICK t : t = [time |-> Milliseconds, value |-> Since(m), message |-> m]
                OBVIOUS
            <4>2. r = [[estimate EXCEPT !.lastAcked = m] EXCEPT
                        !.rtt[estimate.rttIndex] = t,
                        !.rttIndex = (estimate.rttIndex + 1) % RttSamples]
                BY <1>1, <1>5, <3>3, <4>1
                DEF RoundTrip, Measured, Measures, Keeps, EstimateType
            <4>3. t \in [time : Clock, value : 0..MaxRtt, message : 0..MaxMessages]
                BY <1>2, <3>3, <4>1 DEF Keeps, Messages
            <4>4. (estimate.rttIndex + 1) % RttSamples \in 0..(RttSamples - 1)
                <5>1. estimate.rttIndex \in 0..(RttSamples - 1) /\ RttSamples \in Nat \ {0}
                    BY <1>1, PingsAssumption DEF EstimateType
                <5>2. PICK x \in Nat : x = estimate.rttIndex
                    BY <5>1
                <5> QED
                    BY <1>3, <5>1, <5>2, SMTT(60)
            <4>5. PICK n \in Places : n = estimate.rttIndex
                BY <1>1 DEF EstimateType, Places
            <4>6. PICK u : u = [estimate.rtt EXCEPT ![n] = t]
                OBVIOUS
            <4>7. u \in [Places -> [time : Clock, value : 0..MaxRtt, message : 0..MaxMessages]]
                BY <1>1, <4>3, <4>5, <4>6 DEF EstimateType, Places
            <4>8. r = [estimate EXCEPT !.lastAcked = m, !.rtt = u,
                        !.rttIndex = (estimate.rttIndex + 1) % RttSamples]
                BY <1>1, <4>2, <4>5, <4>6 DEF EstimateType
            <4>9. RingAfter(m) = u /\ Measures(m)
                BY <3>3, <4>1, <4>5, <4>6 DEF RingAfter, Keeps
            <4>10. PICK x \in 0..(RttSamples - 1) : x = (estimate.rttIndex + 1) % RttSamples
                BY <4>4
            <4>11. r = [estimate EXCEPT !.lastAcked = m, !.rtt = u, !.rttIndex = x]
                BY <4>8, <4>10
            <4>12. /\ r.sentTime = estimate.sentTime /\ r.sentSequence = estimate.sentSequence
                   /\ r.lastAcked = m /\ r.rtt = u /\ r.rttIndex = x
                   /\ r.windowStart = estimate.windowStart /\ r.netPing = estimate.netPing
                BY <1>1, <4>11 DEF EstimateType
            <4>13. r \in EstimateType
                <5>1. m \in 0..MaxMessages
                    BY DEF Messages
                <5> QED
                    BY <1>1, <4>7, <4>11, <5>1 DEF EstimateType, Places
            <4> QED
                BY <3>3, <4>9, <4>10, <4>12, <4>13
        <3> QED
            BY <3>1, <3>2, <3>3 DEF Keeps
    <2> HIDE DEF r
    <2>2. Recent(r) = RecentOf(RingAfter(m)) /\ NetPing(r) = NetPingOf(RingAfter(m))
        <3>1. DOMAIN r.rtt = Places
            BY <2>1 DEF EstimateType, Places
        <3>2. Recent(r) = RecentOf(RingAfter(m))
            BY <2>1, <3>1 DEF Recent, RecentOf
        <3> QED
            BY <2>1, <3>2 DEF NetPing, NetPingOf
    <2>3. NetPing(r) \in 0..MaxRtt
        <3>1. CASE Recent(r) = {}
            BY <1>1, <2>1, <3>1 DEF NetPing, EstimateType
        <3>2. CASE Recent(r) # {}
            <4>1. PICK V : V = {r.rtt[i].value : i \in Recent(r)}
                OBVIOUS
            <4>2. V # {} /\ V \subseteq 0..MaxRtt
                <5>1. \A i \in Recent(r) : r.rtt[i].value \in 0..MaxRtt
                    BY <2>1 DEF Recent, EstimateType
                <5> QED
                    BY <3>2, <4>1, <5>1
            <4>3. V \in SUBSET Nat /\ Min(V) \in V
                BY <4>2, MinIsLeast
            <4> QED
                BY <3>2, <4>1, <4>2, <4>3 DEF NetPing
        <3> QED
            BY <3>1, <3>2
    <2>4. PacketReceived(m) = Windowed(r)
        BY <1>5 DEF PacketReceived, r
    <2>5. PICK t \in 0..MaxRtt : t = NetPing(r)
        BY <2>3
    <2>6. CASE Signed(Milliseconds - r.windowStart) < Second
        <3>1. Windowed(r) = r /\ ~Ends
            BY <2>1, <2>6 DEF Windowed, Ends
        <3> QED
            BY <1>3, <2>1, <2>4, <3>1 DEF PacketMakes
    <2>7. CASE ~(Signed(Milliseconds - r.windowStart) < Second)
        <3>1. Windowed(r) = [r EXCEPT !.windowStart = Milliseconds, !.netPing = t] /\ Ends
            BY <1>5, <2>1, <2>5, <2>7 DEF Windowed, Ends
        <3>2. PICK w : w = [r EXCEPT !.windowStart = Milliseconds, !.netPing = t]
            OBVIOUS
        <3>3. /\ w \in EstimateType
              /\ w.sentTime = r.sentTime /\ w.sentSequence = r.sentSequence
              /\ w.lastAcked = r.lastAcked /\ w.rtt = r.rtt
              /\ w.rttIndex = r.rttIndex
              /\ w.windowStart = Milliseconds /\ w.netPing = t
            <4>1. r \in EstimateType /\ Milliseconds \in Clock /\ t \in 0..MaxRtt
                BY <1>2, <2>1, <2>5
            <4>2. w = WindowEnded(r, Milliseconds, t)
                BY <3>2 DEF WindowEnded
            <4> HIDE DEF r
            <4> QED
                BY <4>1, <4>2, WindowedType
        <3> QED
            BY <1>3, <2>1, <2>2, <2>4, <2>5, <3>1, <3>2, <3>3, SMTT(60) DEF PacketMakes
    <2> QED
        BY <2>6, <2>7
<1> QED
    BY <1>4, <1>5 DEF TypeOK

-----------------------------------------------------------------------------
(* Types *)

LEMMA SettingsType ==
    ASSUME scenario \in Scenarios
    PROVE  /\ \A s \in scenario.settings :
                s = <<s[1], s[2]>> /\ s[1] \in BOOLEAN /\ s[2] \in BOOLEAN
           /\ settings \in scenario.settings => pingFix \in BOOLEAN /\ netStatus \in BOOLEAN
<1>1. scenario.settings \in SUBSET (BOOLEAN \X BOOLEAN)
    BY PingsAssumption
<1>2. ASSUME NEW s \in scenario.settings
      PROVE  s = <<s[1], s[2]>> /\ s[1] \in BOOLEAN /\ s[2] \in BOOLEAN
    BY <1>1, <1>2
<1>3. settings \in scenario.settings => pingFix \in BOOLEAN /\ netStatus \in BOOLEAN
    <2>1. SUFFICES ASSUME settings \in scenario.settings
                   PROVE  pingFix \in BOOLEAN /\ netStatus \in BOOLEAN
        OBVIOUS
    <2>2. settings[1] \in BOOLEAN /\ settings[2] \in BOOLEAN
        BY <1>2, <2>1
    <2> QED
        BY <2>2 DEF settings
<1> QED
    BY <1>2, <1>3

LEMMA NowType ==
    ASSUME TypeOK
    PROVE  Now \in Int
  BY ClockType DEF Now, TypeOK, Clock

LEMMA TypeInit ==
    ASSUME Init
    PROVE  TypeOK
<1>1. elapsed \in 0..scenario.elapsed /\ serverTime \in 1..(elapsed + 1)
    BY PingsAssumption DEF Init
<1>2. settings \in scenario.settings
    <2>1. PICK s \in scenario.settings : pingFix = s[1] /\ netStatus = s[2]
        BY DEF Init
    <2>2. s = <<s[1], s[2]>>
        BY <2>1, SettingsType DEF Init
    <2> QED
        BY <2>1, <2>2 DEF settings
<1>3. frames \in [Slots -> FrameType]
    <2>1. UnusedFrame \in FrameType
        BY PingsAssumption DEF UnusedFrame, FrameType
    <2> QED
        BY <2>1 DEF Init
<1>4. estimate \in EstimateType
    <2>1. 0 \in Clock /\ 0 \in 0..MaxRtt /\ 0 \in 0..MaxMessages /\ 0 \in 0..(RttSamples - 1)
        BY PingsAssumption DEF Clock
    <2>2. NoRtt \in [time : Clock, value : 0..MaxRtt, message : 0..MaxMessages]
        BY <2>1 DEF NoRtt
    <2> QED
        BY <2>1, <2>2 DEF Init, NewEstimate, EstimateType
<1>5. history \in [Messages -> [sent : Never..elapsed, acked : Never..elapsed]]
    BY DEF Init, Never
<1>6. outgoing \in 1..(MaxMessages + 1) /\ acknowledge \in 0..MaxMessages
      /\ acknowledge < outgoing
    BY PingsAssumption DEF Init
<1> QED
    BY <1>1, <1>2, <1>3, <1>4, <1>5, <1>6 DEF TypeOK, Init

\* Time passes, and the settings change: the estimates are left alone.
Quiet ==
    /\ elapsed' >= elapsed
    /\ UNCHANGED <<scenario, outgoing, acknowledge, frames, estimate, history>>

LEMMA QuietSteps ==
    ASSUME TypeOK, Tick \/ ServerFrame \/ Toggle \/ UNCHANGED vars
    PROVE  Quiet /\ TypeOK'
<1>1. ASSUME elapsed' \in elapsed..scenario.elapsed,
             UNCHANGED <<scenario, outgoing, acknowledge, frames, estimate, history>>,
             serverTime' \in 1..(elapsed' + 1), settings' \in scenario.settings
      PROVE  Quiet /\ TypeOK'
    <2>1. elapsed \in Nat /\ elapsed' \in 0..scenario.elapsed /\ elapsed' >= elapsed
        BY <1>1, PingsAssumption DEF TypeOK
    <2>2. history' \in [Messages -> [sent : Never..elapsed', acked : Never..elapsed']]
        BY <1>1, <2>1 DEF TypeOK, Never
    <2> QED
        BY <1>1, <2>1, <2>2 DEF TypeOK, Quiet
<1>2. elapsed \in Nat /\ scenario.elapsed \in Nat
    BY PingsAssumption DEF TypeOK
<1>3. CASE Tick
    BY <1>1, <1>2, <1>3 DEF Tick, TypeOK, settings
<1>4. CASE ServerFrame
    BY <1>1, <1>2, <1>4 DEF ServerFrame, TypeOK, settings
<1>5. CASE Toggle
    <2>1. PICK s \in scenario.settings : pingFix' = s[1] /\ netStatus' = s[2]
        BY <1>5 DEF Toggle
    <2>2. s = <<s[1], s[2]>>
        BY <2>1, SettingsType DEF TypeOK
    <2>3. settings' \in scenario.settings
        BY <2>1, <2>2, ZenonT(60) DEF settings
    <2> QED
        BY <1>1, <1>2, <1>5, <2>3 DEF Toggle, TypeOK
<1>6. CASE UNCHANGED vars
    BY <1>1, <1>2, <1>6 DEF vars, TypeOK, settings
<1> QED
    BY <1>3, <1>4, <1>5, <1>6

LEMMA SendType ==
    ASSUME TypeOK, SendMessageToClient
    PROVE  TypeOK'
<1>1. outgoing \in Nat /\ outgoing \in Messages /\ Slot(outgoing) \in Slots
    BY SlotType, Counters DEF SendMessageToClient, Messages
<1>2. frames' \in [Slots -> FrameType]
    <2>1. pingFix \in BOOLEAN /\ Now \in Int
        BY SettingsType, NowType DEF TypeOK
    <2>2. [sent |-> Now, acked |-> -1, message |-> outgoing, of |-> 0,
           fix |-> pingFix, ackedFix |-> FALSE] \in FrameType
        BY <1>1, <2>1, PingsAssumption DEF FrameType, Messages
    <2> QED
        BY <1>1, <2>2 DEF TypeOK, SendMessageToClient
<1>3. estimate' \in EstimateType
    <2>1. outgoing \in 0..MaxMessages /\ Milliseconds \in Clock
        BY <1>1, ClockType DEF Messages
    <2>2. estimate \in EstimateType
        BY DEF TypeOK
    <2> QED
        BY <1>1, <2>1, <2>2 DEF SendMessageToClient, SnapshotSent, EstimateType
<1>4. history' \in [Messages -> [sent : Never..elapsed, acked : Never..elapsed]]
    <2>1. elapsed \in Never..elapsed
        BY Counters
    <2> QED
        BY <1>1, <2>1 DEF SendMessageToClient, TypeOK
<1>5. outgoing' \in 1..(MaxMessages + 1) /\ acknowledge < outgoing'
    <2>1. outgoing' = outgoing + 1 /\ outgoing <= MaxMessages
        BY DEF SendMessageToClient
    <2>2. /\ outgoing \in 1..(MaxMessages + 1) /\ acknowledge \in 0..MaxMessages
          /\ acknowledge < outgoing
        BY DEF TypeOK
    <2>3. MaxMessages \in Nat
        BY PingsAssumption
    <2> QED
        BY <2>1, <2>2, <2>3, SMTT(60)
<1>6. /\ scenario \in Scenarios /\ elapsed \in 0..scenario.elapsed
      /\ serverTime \in 1..(elapsed + 1) /\ settings \in scenario.settings
      /\ acknowledge \in 0..MaxMessages
    BY DEF TypeOK
<1>7. /\ scenario' = scenario /\ elapsed' = elapsed /\ serverTime' = serverTime
      /\ settings' = settings /\ acknowledge' = acknowledge
    BY DEF SendMessageToClient, settings
<1> QED
    BY <1>2, <1>3, <1>4, <1>5, <1>6, <1>7, SMTT(60) DEF TypeOK

LEMMA MoveType ==
    ASSUME TypeOK, NEW m \in Messages, UserMove(m)
    PROVE  TypeOK'
<1>1. m \in Nat /\ Slot(m) \in Slots
    BY SlotType DEF Messages
<1>2. frames' \in [Slots -> FrameType]
    <2>1. pingFix \in BOOLEAN /\ Now \in Int /\ m \in 0..MaxMessages
        BY SettingsType, NowType DEF TypeOK, Messages
    <2>2. PICK f \in FrameType : f = frames[Slot(m)]
        BY <1>1 DEF TypeOK
    <2>3. [f EXCEPT !.acked = Now, !.of = m, !.ackedFix = pingFix] \in FrameType
        BY <2>1 DEF FrameType
    <2>4. frames' = [frames EXCEPT ![Slot(m)] =
            IF ~pingFix \/ f.acked = -1
            THEN [f EXCEPT !.acked = Now, !.of = m, !.ackedFix = pingFix] ELSE f]
        BY <1>1, <2>2 DEF UserMove, Acked, TypeOK
    <2> QED
        BY <1>1, <2>2, <2>3, <2>4 DEF TypeOK
<1>3. estimate' \in EstimateType
    BY PacketEstimate DEF UserMove
<1>4. history' \in [Messages -> [sent : Never..elapsed, acked : Never..elapsed]]
    <2>1. elapsed \in Never..elapsed
        BY Counters
    <2> QED
        BY <1>1, <2>1 DEF UserMove, TypeOK
<1>5. acknowledge' \in 0..MaxMessages /\ acknowledge' < outgoing'
    <2>1. acknowledge' = m /\ outgoing' = outgoing /\ m \in 1..(outgoing - 1)
        BY DEF UserMove
    <2>2. m \in 1..MaxMessages /\ MaxMessages \in Nat /\ outgoing \in 1..(MaxMessages + 1)
        BY PingsAssumption DEF Messages, TypeOK
    <2> QED
        BY <2>1, <2>2, SMTT(60)
<1>6. /\ scenario \in Scenarios /\ elapsed \in 0..scenario.elapsed
      /\ serverTime \in 1..(elapsed + 1) /\ settings \in scenario.settings
      /\ outgoing \in 1..(MaxMessages + 1)
    BY DEF TypeOK
<1>7. /\ scenario' = scenario /\ elapsed' = elapsed /\ serverTime' = serverTime
      /\ settings' = settings /\ outgoing' = outgoing
    BY DEF UserMove, settings
<1> QED
    BY <1>2, <1>3, <1>4, <1>5, <1>6, <1>7, SMTT(60) DEF TypeOK

-----------------------------------------------------------------------------
(* Messages *)

LEMMA HistoryInit ==
    ASSUME Init
    PROVE  HistoryInv /\ FramesInv /\ EstimateInv
<1>1. HistoryInv
    BY DEF Init, HistoryInv, Messages, Never
<1>2. FramesInv
    BY DEF Init, FramesInv, FrameInv, UnusedFrame
<1>3. EstimateInv
    BY DEF Init, EstimateInv, NewEstimate, NoRtt, Places
<1> QED
    BY <1>1, <1>2, <1>3

LEMMA QuietHistory ==
    ASSUME HistoryInv, FramesInv, EstimateInv, Quiet
    PROVE  HistoryInv' /\ FramesInv' /\ EstimateInv'
<1>1. HistoryInv'
    BY DEF HistoryInv, Quiet
<1>2. FramesInv'
    BY DEF FramesInv, FrameInv, Quiet, SentAt, AckedAt, start
<1>3. EstimateInv'
    BY DEF EstimateInv, Quiet, SentAt, start, Older
<1> QED
    BY <1>1, <1>2, <1>3

\* What a message that is sent changes of the history, and what an acknowledgement
\* does.
LEMMA SendHistory ==
    ASSUME TypeOK, HistoryInv, SendMessageToClient
    PROVE  /\ outgoing \in Messages /\ outgoing' = outgoing + 1
           /\ history'[outgoing] = [sent |-> elapsed, acked |-> Never]
           /\ \A k \in Messages : k # outgoing => history'[k] = history[k]
           /\ history[outgoing] = [sent |-> Never, acked |-> Never]
<1>1. outgoing \in Messages /\ outgoing \in Nat
    BY Counters DEF SendMessageToClient, Messages
<1>2. history[outgoing].sent = Never
    BY <1>1 DEF HistoryInv
<1>3. history[outgoing].acked = Never
    BY <1>1, Counters DEF HistoryInv
<1>4. history[outgoing] = [sent |-> Never, acked |-> Never]
    BY <1>1, <1>2, <1>3 DEF TypeOK
<1> QED
    BY <1>1, <1>4 DEF SendMessageToClient, TypeOK

LEMMA MoveHistory ==
    ASSUME TypeOK, HistoryInv, NEW m \in Messages, UserMove(m)
    PROVE  /\ m < outgoing /\ m >= acknowledge /\ acknowledge' = m
           /\ history'[m] = [sent |-> history[m].sent,
                             acked |-> IF history[m].acked = Never THEN elapsed
                                       ELSE history[m].acked]
           /\ \A k \in Messages : k # m => history'[k] = history[k]
           /\ history[m].sent \in 0..elapsed
<1>1. m < outgoing /\ m >= acknowledge /\ acknowledge' = m
    BY DEF UserMove, TypeOK, Messages
<1>2. history[m].sent \in 0..elapsed
    BY <1>1 DEF HistoryInv, TypeOK, Never
<1> QED
    BY <1>1, <1>2 DEF UserMove, TypeOK

\* What was acknowledged stays, and what is new is acknowledged now.
LEMMA AckedNow ==
    ASSUME TypeOK, HistoryInv, NEW m \in Messages, UserMove(m)
    PROVE  \A k \in Messages :
              /\ history[k].acked # Never => history'[k] = history[k]
              /\ history'[k].acked # Never =>
                    history'[k] = history[k] \/ history'[k].acked = elapsed
              /\ history'[k].acked \in Never..elapsed /\ history'[k].acked \in Int
<1>1. history[m] = [sent |-> history[m].sent, acked |-> history[m].acked]
    BY DEF TypeOK
<1>2. elapsed \in Int /\ elapsed \in Never..elapsed
      /\ \A k \in Messages : history[k].acked \in Never..elapsed
    BY PingsAssumption DEF TypeOK, Never
<1>3. /\ history'[m] = [sent |-> history[m].sent,
                        acked |-> IF history[m].acked = Never THEN elapsed
                                  ELSE history[m].acked]
      /\ \A k \in Messages : k # m => history'[k] = history[k]
    BY MoveHistory
<1>4. history'[m].acked = IF history[m].acked = Never THEN elapsed ELSE history[m].acked
    BY <1>3
<1>5. \A k \in Messages : history'[k].acked \in Never..elapsed
    BY <1>2, <1>3, <1>4
<1>6. \A k \in Messages : history'[k].acked \in Int
    BY <1>2, <1>5 DEF Never
<1> QED
    BY <1>1, <1>3, <1>4, <1>5, <1>6

LEMMA SendHistoryInv ==
    ASSUME TypeOK, HistoryInv, SendMessageToClient
    PROVE  HistoryInv'
<1>1. /\ outgoing \in Messages /\ outgoing' = outgoing + 1 /\ acknowledge' = acknowledge
      /\ history'[outgoing] = [sent |-> elapsed, acked |-> Never]
      /\ \A k \in Messages : k # outgoing => history'[k] = history[k]
      /\ elapsed \in Nat /\ acknowledge \in Nat /\ acknowledge < outgoing
    BY SendHistory, PingsAssumption DEF TypeOK, SendMessageToClient
<1>2. \A k \in Messages : k \in Nat
    BY DEF Messages
<1>3. \A k \in Messages : history'[k].sent # Never <=> k < outgoing'
    BY <1>1, <1>2 DEF HistoryInv, Never
<1>4. \A k \in Messages : history'[k].acked # Never =>
          k <= acknowledge' /\ history'[k].sent # Never /\ history'[k].sent <= history'[k].acked
    BY <1>1 DEF HistoryInv
<1>5. acknowledge' # 0 => history'[acknowledge'].acked # Never
    <2>1. acknowledge # 0 => acknowledge \in Messages /\ acknowledge # outgoing
        BY <1>1 DEF TypeOK, Messages
    <2> QED
        BY <1>1, <2>1 DEF HistoryInv
<1>6. \A j, k \in Messages :
          j < k /\ history'[j].acked # Never /\ history'[k].acked # Never
            => history'[j].acked <= history'[k].acked
    BY <1>1 DEF HistoryInv
<1> QED
    BY <1>3, <1>4, <1>5, <1>6 DEF HistoryInv

LEMMA MoveHistoryInv ==
    ASSUME TypeOK, HistoryInv, NEW m \in Messages, UserMove(m)
    PROVE  HistoryInv'
<1>1. /\ m < outgoing /\ m >= acknowledge /\ acknowledge' = m
      /\ history'[m] = [sent |-> history[m].sent,
                        acked |-> IF history[m].acked = Never THEN elapsed
                                  ELSE history[m].acked]
      /\ \A k \in Messages : k # m => history'[k] = history[k]
      /\ history[m].sent \in 0..elapsed
      /\ elapsed \in Nat /\ acknowledge \in Nat /\ outgoing' = outgoing
    <2>1. elapsed \in Nat /\ acknowledge \in Nat /\ outgoing' = outgoing
        BY Counters DEF UserMove
    <2> QED
        BY <2>1, MoveHistory
<1>2. \A k \in Messages : k \in Nat
    BY DEF Messages
<1>3. \A k \in Messages : history'[k].sent = history[k].sent
    BY <1>1
<1>4. history'[m].acked # Never /\ (history[m].acked # Never => history'[m] = history[m])
    BY <1>1 DEF Never, TypeOK
<1>5. \A k \in Messages : history[k].acked \in Never..elapsed
    BY DEF TypeOK
<1>6. \A k \in Messages : history'[k].sent # Never <=> k < outgoing'
    BY <1>1, <1>3 DEF HistoryInv
<1>7. \A k \in Messages : history'[k].acked # Never =>
          k <= acknowledge' /\ history'[k].sent # Never /\ history'[k].sent <= history'[k].acked
    <2>1. SUFFICES ASSUME NEW k \in Messages, history'[k].acked # Never
                   PROVE  /\ k <= acknowledge' /\ history'[k].sent # Never
                          /\ history'[k].sent <= history'[k].acked
        OBVIOUS
    <2>2. CASE k = m /\ history[m].acked = Never
        BY <1>1, <1>2, <2>2 DEF Never
    <2>3. CASE ~(k = m /\ history[m].acked = Never)
        <3>1. history'[k] = history[k] /\ k <= acknowledge
            BY <1>1, <1>4, <2>1, <2>3 DEF HistoryInv
        <3> QED
            BY <1>1, <1>2, <2>1, <3>1 DEF HistoryInv
    <2> QED
        BY <2>2, <2>3
<1>8. \A j, k \in Messages :
          j < k /\ history'[j].acked # Never /\ history'[k].acked # Never
            => history'[j].acked <= history'[k].acked
    <2>1. SUFFICES ASSUME NEW j \in Messages, NEW k \in Messages, j < k,
                          history'[j].acked # Never, history'[k].acked # Never
                   PROVE  history'[j].acked <= history'[k].acked
        OBVIOUS
    <2>2. k <= m /\ j # m
        BY <1>1, <1>2, <1>7, <2>1
    <2>3. history'[j] = history[j]
        BY <1>1, <2>2
    <2>4. CASE k = m /\ history[m].acked = Never
        BY <1>1, <1>5, <2>3, <2>4 DEF Never
    <2>5. CASE ~(k = m /\ history[m].acked = Never)
        <3>1. history'[k] = history[k]
            BY <1>1, <1>4, <2>5
        <3> QED
            BY <2>1, <2>3, <3>1 DEF HistoryInv
    <2> QED
        BY <2>4, <2>5
<1> QED
    BY <1>1, <1>4, <1>6, <1>7, <1>8 DEF HistoryInv

-----------------------------------------------------------------------------
(* Frames *)

LEMMA SendFrames ==
    ASSUME TypeOK, HistoryInv, FramesInv, SendMessageToClient
    PROVE  FramesInv'
<1>1. /\ outgoing \in Messages /\ outgoing' = outgoing + 1 /\ scenario' = scenario
      /\ history'[outgoing] = [sent |-> elapsed, acked |-> Never]
      /\ \A k \in Messages : k # outgoing => history'[k] = history[k]
    BY SendHistory DEF SendMessageToClient
<1>2. Slot(outgoing) \in Slots /\ outgoing \in Nat
    BY <1>1, SlotType DEF Messages
<1>3. SUFFICES ASSUME NEW s \in Slots PROVE FrameInv(s)'
    BY DEF FramesInv
<1>4. PICK f \in FrameType : f = frames'[s]
    BY SendType DEF TypeOK
<1>5. CASE s = Slot(outgoing)
    <2>1. f = [sent |-> Now, acked |-> -1, message |-> outgoing, of |-> 0,
               fix |-> pingFix, ackedFix |-> FALSE]
        BY <1>2, <1>4, <1>5 DEF SendMessageToClient, TypeOK
    <2>2. f.message = outgoing /\ f.of = 0 /\ f.sent = Now /\ f.fix = pingFix
        BY <2>1
    <2>3. pingFix => Now = Signed(start + history'[outgoing].sent)
        BY <1>1 DEF Now, Milliseconds
    <2>4. history'[outgoing].acked = Never /\ outgoing # 0
        BY <1>1 DEF Messages
    <2> QED
        BY <1>1, <1>2, <1>4, <1>5, <2>2, <2>3, <2>4 DEF FrameInv, SentAt, start
<1>6. CASE s # Slot(outgoing)
    <2>1. f = frames[s]
        BY <1>2, <1>4, <1>6 DEF SendMessageToClient, TypeOK
    <2>2. FrameInv(s)
        BY DEF FramesInv
    <2>3. f.message # 0 => f.message \in Messages /\ f.message # outgoing
                           /\ f.message < outgoing'
        BY <1>1, <1>2, <2>1, <2>2, <1>4 DEF FrameInv, FrameType, Messages
    <2>4. f.message # 0 => history'[f.message] = history[f.message]
        BY <1>1, <2>3
    <2> QED
        BY <1>1, <1>4, <2>1, <2>2, <2>3, <2>4 DEF FrameInv, SentAt, AckedAt, start
<1> QED
    BY <1>5, <1>6

LEMMA MoveFrames ==
    ASSUME TypeOK, HistoryInv, FramesInv, NEW m \in Messages, UserMove(m)
    PROVE  FramesInv'
<1>1. /\ history'[m] = [sent |-> history[m].sent,
                        acked |-> IF history[m].acked = Never THEN elapsed
                                  ELSE history[m].acked]
      /\ \A k \in Messages : k # m => history'[k] = history[k]
      /\ outgoing' = outgoing /\ scenario' = scenario
    BY MoveHistory DEF UserMove
<1>2. Slot(m) \in Slots /\ m \in Nat /\ m # 0
    BY SlotType DEF Messages
<1>3. SUFFICES ASSUME NEW s \in Slots PROVE FrameInv(s)'
    BY DEF FramesInv
<1>4. PICK f \in FrameType : f = frames[s]
    BY DEF TypeOK
<1>5. PICK g \in FrameType : g = frames'[s]
    BY MoveType DEF TypeOK
<1>6. FrameInv(s)
    BY DEF FramesInv
<1>7. history'[m].acked # Never /\ (history[m].acked # Never => history'[m] = history[m])
    <2>1. history[m] \in [sent : Never..elapsed, acked : Never..elapsed]
        BY DEF TypeOK
    <2>2. history[m] = [sent |-> history[m].sent, acked |-> history[m].acked]
        BY <2>1
    <2> QED
        BY <1>1, <2>2, Counters
<1>8. \A k \in Messages : history'[k].sent = history[k].sent
    BY <1>1
<1>9. CASE s # Slot(m)
    <2>1. g = f
        BY <1>2, <1>4, <1>5, <1>9 DEF UserMove, Acked, TypeOK
    <2>2. f.message # 0 => f.message \in Messages /\ f.message # m
        BY <1>4, <1>6, <1>9 DEF FrameInv, FrameType, Messages
    <2>3. f.message # 0 => history'[f.message] = history[f.message]
        BY <1>1, <2>2
    <2> QED
        BY <1>1, <1>4, <1>5, <1>6, <2>1, <2>3 DEF FrameInv, SentAt, AckedAt, start
<1>10. CASE s = Slot(m) /\ ~pingFix
    <2>1. g = [f EXCEPT !.acked = serverTime, !.of = m, !.ackedFix = FALSE]
        <3>1. pingFix = FALSE
            BY <1>10, SettingsType DEF TypeOK
        <3> QED
            BY <1>2, <1>4, <1>5, <1>10, <3>1 DEF UserMove, Acked, TypeOK, Now
    <2>2. /\ g.acked # -1 /\ g.of = m /\ ~g.ackedFix
          /\ g.message = f.message /\ g.sent = f.sent /\ g.fix = f.fix
        BY <1>4, <2>1, PingsAssumption DEF TypeOK, FrameType
    <2>3. f.message # 0 => f.message \in Messages
        BY <1>4 DEF FrameType, Messages
    <2> QED
        BY <1>1, <1>4, <1>5, <1>6, <1>7, <1>8, <2>2, <2>3 DEF FrameInv, SentAt, AckedAt, start
<1>11. CASE s = Slot(m) /\ pingFix /\ f.acked = -1
    <2>1. g = [f EXCEPT !.acked = Milliseconds, !.of = m, !.ackedFix = pingFix]
        BY <1>2, <1>4, <1>5, <1>11 DEF UserMove, Acked, TypeOK, Now
    <2>2. /\ g.acked = Milliseconds /\ g.of = m
          /\ g.message = f.message /\ g.sent = f.sent /\ g.fix = f.fix
        BY <1>4, <2>1 DEF FrameType
    <2>3. f.message # 0 => f.message \in Messages
        BY <1>4 DEF FrameType, Messages
    <2>4. CASE f.message # m
        <3>1. f.message # 0 => history'[f.message] = history[f.message]
            BY <1>1, <2>3, <2>4
        <3> QED
            BY <1>1, <1>4, <1>5, <1>6, <1>11, <2>2, <2>4, <3>1
            DEF FrameInv, SentAt, AckedAt, start
    <2>5. CASE f.message = m /\ history[m].acked = Never
        <3>1. history'[m].acked = elapsed
            BY <1>1, <2>5
        <3>2. AckedAt(m)' = Milliseconds
            BY <1>1, <3>1 DEF AckedAt, Milliseconds, start
        <3> QED
            BY <1>1, <1>4, <1>5, <1>6, <1>7, <1>8, <2>2, <2>5, <3>2 DEF FrameInv, SentAt, start
    <2>6. CASE f.message = m /\ history[m].acked # Never
        <3>1. AckedAt(m) = -1 /\ history'[m] = history[m]
            BY <1>2, <1>4, <1>6, <1>7, <1>11, <2>6 DEF FrameInv
        <3>2. AckedAt(m)' = -1
            BY <1>1, <3>1 DEF AckedAt, start
        <3> QED
            BY <1>1, <1>4, <1>5, <1>6, <1>7, <1>8, <2>2, <2>6, <3>2 DEF FrameInv, SentAt, start
    <2> QED
        BY <2>4, <2>5, <2>6
<1>12. CASE s = Slot(m) /\ pingFix /\ f.acked # -1
    <2>1. g = f
        BY <1>2, <1>4, <1>5, <1>12 DEF UserMove, Acked, TypeOK
    <2>2. f.message # 0 => f.message \in Messages
        BY <1>4 DEF FrameType, Messages
    <2>3. CASE f.message # m
        <3>1. f.message # 0 => history'[f.message] = history[f.message]
            BY <1>1, <2>2, <2>3
        <3> QED
            BY <1>1, <1>4, <1>5, <1>6, <2>1, <3>1 DEF FrameInv, SentAt, AckedAt, start
    <2>4. CASE f.message = m /\ history[m].acked # Never
        BY <1>1, <1>4, <1>5, <1>6, <1>7, <2>1, <2>4 DEF FrameInv, SentAt, AckedAt, start
    <2>5. CASE f.message = m /\ history[m].acked = Never
        <3>1. f.of # m
            BY <1>2, <1>4, <1>6, <2>5 DEF FrameInv
        <3> QED
            BY <1>1, <1>4, <1>5, <1>6, <1>7, <1>8, <1>12, <2>1, <2>5, <3>1
            DEF FrameInv, SentAt, start
    <2> QED
        BY <2>3, <2>4, <2>5
<1> QED
    BY <1>4, <1>9, <1>10, <1>11, <1>12

-----------------------------------------------------------------------------
(* The estimate *)

\* Only a slot changes with a message that is sent.
LEMMA SendEstimate ==
    ASSUME TypeOK, SendMessageToClient
    PROVE  /\ \A s \in Slots :
                /\ estimate'.sentSequence[s] =
                      IF netStatus /\ s = Slot(outgoing) THEN outgoing
                      ELSE estimate.sentSequence[s]
                /\ estimate'.sentTime[s] =
                      IF netStatus /\ s = Slot(outgoing) THEN Milliseconds
                      ELSE estimate.sentTime[s]
           /\ estimate'.lastAcked = estimate.lastAcked /\ estimate'.rtt = estimate.rtt
           /\ estimate'.rttIndex = estimate.rttIndex
           /\ estimate'.windowStart = estimate.windowStart
           /\ estimate'.netPing = estimate.netPing
<1>1. estimate \in EstimateType
    BY DEF TypeOK
<1>2. CASE netStatus
    <2>1. estimate' = [estimate EXCEPT !.sentTime[Slot(outgoing)] = Milliseconds,
                                       !.sentSequence[Slot(outgoing)] = outgoing]
        BY <1>2 DEF SendMessageToClient, SnapshotSent
    <2> QED
        BY <1>1, <1>2, <2>1 DEF EstimateType
<1>3. CASE ~netStatus
    BY <1>3 DEF SendMessageToClient, SnapshotSent
<1> QED
    BY <1>2, <1>3

LEMMA SendEstimateInv ==
    ASSUME TypeOK, HistoryInv, EstimateInv, SendMessageToClient
    PROVE  EstimateInv'
<1>1. /\ outgoing \in Messages /\ outgoing' = outgoing + 1
      /\ history'[outgoing] = [sent |-> elapsed, acked |-> Never]
      /\ \A k \in Messages : k # outgoing => history'[k] = history[k]
    BY SendHistory
<1>2. Slot(outgoing) \in Slots /\ outgoing \in Nat /\ acknowledge \in Nat
      /\ acknowledge < outgoing /\ acknowledge' = acknowledge /\ scenario' = scenario
    BY <1>1, SlotType DEF Messages, TypeOK, SendMessageToClient
<1>3. PICK o \in Messages : o = outgoing
    BY <1>1
<1>3a. SentAt(o)' = Milliseconds
    BY <1>1, <1>2, <1>3 DEF SentAt, Milliseconds, start
<1>4. \A k \in Messages : k # outgoing => SentAt(k)' = SentAt(k)
    BY <1>1, <1>2 DEF SentAt, start
<1>5. estimate \in EstimateType
    BY DEF TypeOK
<1>6. ASSUME NEW s \in Slots, estimate'.sentSequence[s] # 0
      PROVE  /\ estimate'.sentSequence[s] < outgoing' /\ Slot(estimate'.sentSequence[s]) = s
             /\ estimate'.sentTime[s] = Signed(start + history[estimate.sentSequence[s]].sent)'
    <2>1. CASE netStatus /\ s = Slot(outgoing)
        <3>1. estimate'.sentSequence[s] = outgoing /\ estimate'.sentTime[s] = Milliseconds
            BY <2>1, SendEstimate
        <3> QED
            BY <1>1, <1>2, <1>3, <1>3a, <2>1, <3>1 DEF SentAt
    <2>2. CASE ~(netStatus /\ s = Slot(outgoing))
        <3>1. estimate'.sentSequence[s] = estimate.sentSequence[s]
              /\ estimate'.sentTime[s] = estimate.sentTime[s]
            BY <2>2, SendEstimate
        <3>2. PICK k \in 0..MaxMessages : k = estimate.sentSequence[s]
            BY <1>5 DEF EstimateType
        <3>3. k # 0 /\ k < outgoing /\ Slot(k) = s /\ estimate.sentTime[s] = SentAt(k)
            BY <1>6, <3>1, <3>2 DEF EstimateInv
        <3>4. k \in Messages /\ SentAt(k)' = SentAt(k) /\ k < outgoing'
            BY <1>1, <1>2, <1>4, <3>2, <3>3 DEF Messages
        <3> QED
            BY <3>1, <3>2, <3>3, <3>4 DEF SentAt
    <2> QED
        BY <2>1, <2>2
<1>7. estimate'.lastAcked <= acknowledge'
    BY <1>2, SendEstimate DEF EstimateInv
<1>8. estimate'.lastAcked # 0 => history'[estimate'.lastAcked].acked # Never
    <2>1. estimate.lastAcked # 0 => estimate.lastAcked \in Messages
                                    /\ estimate.lastAcked # outgoing
        BY <1>2, <1>5 DEF EstimateType, Messages, EstimateInv
    <2> QED
        BY <1>1, <2>1, SendEstimate DEF EstimateInv
<1>9. ASSUME NEW i \in Places, estimate'.rtt[i].message # 0
      PROVE  /\ estimate'.rtt[i].message <= estimate'.lastAcked
             /\ estimate'.rtt[i].value =
                   Signed(estimate.rtt[i].time - SentAt(estimate.rtt[i].message))'
    <2>1. estimate'.rtt = estimate.rtt /\ estimate'.lastAcked = estimate.lastAcked
        BY SendEstimate
    <2>2. PICK k \in 0..MaxMessages : k = estimate.rtt[i].message
        BY <1>5 DEF EstimateType, Places
    <2>3. k # 0 /\ k <= estimate.lastAcked
          /\ estimate.rtt[i].value = Signed(estimate.rtt[i].time - SentAt(k))
        BY <1>9, <2>1, <2>2 DEF EstimateInv
    <2>4. k \in Messages /\ k # outgoing
        BY <1>2, <1>5, <2>2, <2>3 DEF EstimateType, EstimateInv, Messages
    <2>5. SentAt(k)' = SentAt(k)
        BY <1>4, <2>4
    <2> QED
        BY <2>1, <2>2, <2>3, <2>5 DEF Signed, SentAt
<1>10. \A i, j \in Places : Older(i, j)' =>
          estimate'.rtt[i].message = 0 \/ estimate'.rtt[i].message < estimate'.rtt[j].message
    BY SendEstimate DEF EstimateInv, Older
<1> QED
    BY <1>6, <1>7, <1>8, <1>9, <1>10 DEF EstimateInv, SentAt

\* The messages that a packet may keep a round trip of are newer than all others.
LEMMA MoveEstimateInv ==
    ASSUME TypeOK, HistoryInv, EstimateInv, NEW m \in Messages, UserMove(m)
    PROVE  EstimateInv'
<1>1. /\ m < outgoing /\ m >= acknowledge /\ acknowledge' = m
      /\ outgoing' = outgoing /\ scenario' = scenario /\ elapsed' = elapsed
    BY MoveHistory DEF UserMove
<1>2. /\ history'[m].acked # Never
      /\ \A k \in Messages : history'[k].sent = history[k].sent
      /\ \A k \in Messages : history[k].acked # Never => history'[k].acked # Never
    <2>1. elapsed # Never
        BY PingsAssumption DEF TypeOK, Never
    <2>2. /\ history'[m] = [sent |-> history[m].sent,
                            acked |-> IF history[m].acked = Never THEN elapsed
                                      ELSE history[m].acked]
          /\ \A k \in Messages : k # m => history'[k] = history[k]
        BY MoveHistory
    <2> QED
        BY <2>1, <2>2
<1>3. \A k \in Messages : SentAt(k)' = SentAt(k)
    BY <1>1, <1>2 DEF SentAt, start
<1>4. estimate \in EstimateType /\ estimate' \in EstimateType
      /\ PacketMakes(m, estimate')
    BY PacketEstimate DEF UserMove, TypeOK
<1>5. m \in Nat /\ Slot(m) \in Slots /\ acknowledge \in Nat
    BY SlotType DEF Messages, TypeOK
<1>6. estimate.lastAcked \in Nat /\ estimate.lastAcked <= m
    BY <1>1, <1>4, <1>5 DEF EstimateInv, EstimateType
<1>7. estimate'.lastAcked = IF Measures(m) THEN m ELSE estimate.lastAcked
    BY <1>4 DEF PacketMakes
<1>8. ASSUME NEW s \in Slots, estimate'.sentSequence[s] # 0
      PROVE  /\ estimate'.sentSequence[s] < outgoing' /\ Slot(estimate'.sentSequence[s]) = s
             /\ estimate'.sentTime[s] = Signed(start + history[estimate.sentSequence[s]].sent)'
    <2>1. estimate'.sentSequence = estimate.sentSequence
          /\ estimate'.sentTime = estimate.sentTime
        BY <1>4 DEF PacketMakes
    <2>2. PICK k \in 0..MaxMessages : k = estimate.sentSequence[s]
        BY <1>4 DEF EstimateType
    <2>3. k # 0 /\ k < outgoing /\ Slot(k) = s /\ estimate.sentTime[s] = SentAt(k)
        BY <1>8, <2>1, <2>2 DEF EstimateInv
    <2>4. k \in Messages
        BY <2>2, <2>3 DEF Messages
    <2> QED
        BY <1>1, <1>3, <2>1, <2>2, <2>3, <2>4 DEF SentAt
<1>9. estimate'.lastAcked <= acknowledge'
    BY <1>1, <1>5, <1>6, <1>7
<1>10. estimate'.lastAcked # 0 => history'[estimate'.lastAcked].acked # Never
    <2>1. estimate.lastAcked # 0 => estimate.lastAcked \in Messages
        BY <1>4 DEF EstimateType, Messages
    <2> QED
        BY <1>2, <1>7, <2>1 DEF EstimateInv
<1>11. CASE ~Keeps(m)
    <2>1. estimate'.rtt = estimate.rtt /\ estimate'.rttIndex = estimate.rttIndex
        BY <1>4, <1>11 DEF PacketMakes, RingAfter
    <2>2. ASSUME NEW i \in Places, estimate'.rtt[i].message # 0
          PROVE  /\ estimate'.rtt[i].message <= estimate'.lastAcked
                 /\ estimate'.rtt[i].value =
                       Signed(estimate.rtt[i].time - SentAt(estimate.rtt[i].message))'
        <3>1. PICK k \in 0..MaxMessages : k = estimate.rtt[i].message
            BY <1>4 DEF EstimateType, Places
        <3>2. k # 0 /\ k <= estimate.lastAcked
              /\ estimate.rtt[i].value = Signed(estimate.rtt[i].time - SentAt(k))
            BY <2>1, <2>2, <3>1 DEF EstimateInv
        <3>3. k \in Messages /\ k <= estimate'.lastAcked
            BY <1>5, <1>6, <1>7, <3>1, <3>2 DEF Messages
        <3> QED
            BY <1>3, <2>1, <3>1, <3>2, <3>3 DEF Signed, SentAt
    <2>3. \A i, j \in Places : Older(i, j)' =>
          estimate'.rtt[i].message = 0 \/ estimate'.rtt[i].message < estimate'.rtt[j].message
        BY <2>1 DEF EstimateInv, Older
    <2> QED
        BY <1>8, <1>9, <1>10, <2>2, <2>3 DEF EstimateInv, SentAt
<1>12. CASE Keeps(m)
    <2>1. Measures(m) /\ estimate'.lastAcked = m /\ estimate.lastAcked < m
        BY <1>5, <1>6, <1>7, <1>12 DEF Keeps, Measures
    <2>2. PICK n \in Places : n = estimate.rttIndex
        BY <1>4 DEF EstimateType, Places
    <2>3. estimate'.rttIndex = IF n = RttSamples - 1 THEN 0 ELSE n + 1
        BY <1>4, <1>12, <2>2 DEF PacketMakes
    <2>4. /\ estimate'.rtt[n] = [time |-> Milliseconds, value |-> Since(m), message |-> m]
          /\ \A i \in Places : i # n => estimate'.rtt[i] = estimate.rtt[i]
        BY <1>4, <1>12, <2>2 DEF PacketMakes, RingAfter, EstimateType, Places
    <2>5. \A i \in Places : estimate.rtt[i].message \in Nat
                            /\ estimate.rtt[i].message < m
        <3>1. \A i \in Places : estimate.rtt[i].message \in 0..MaxMessages
            BY <1>4 DEF EstimateType, Places
        <3>2. \A i \in Places : estimate.rtt[i].message = 0
                                \/ estimate.rtt[i].message <= estimate.lastAcked
            BY DEF EstimateInv
        <3> QED
            BY <1>5, <1>6, <2>1, <3>1, <3>2 DEF Messages
    <2>6. ASSUME NEW i \in Places, estimate'.rtt[i].message # 0
          PROVE  /\ estimate'.rtt[i].message <= estimate'.lastAcked
                 /\ estimate'.rtt[i].value =
                       Signed(estimate.rtt[i].time - SentAt(estimate.rtt[i].message))'
        <3>1. CASE i = n
            <4>1. estimate.sentSequence[Slot(m)] = m /\ m # 0
                BY <2>1 DEF Measures, Messages
            <4>2. estimate.sentTime[Slot(m)] = SentAt(m)
                BY <1>5, <4>1 DEF EstimateInv
            <4>3. Since(m) = Signed(Milliseconds - SentAt(m))
                BY <4>2 DEF Since
            <4>4. /\ estimate'.rtt[i].time = Milliseconds
                  /\ estimate'.rtt[i].value = Since(m) /\ estimate'.rtt[i].message = m
                BY <2>4, <3>1
            <4> QED
                BY <1>3, <1>5, <2>1, <4>3, <4>4 DEF Signed, SentAt
        <3>2. CASE i # n
            <4>1. estimate'.rtt[i] = estimate.rtt[i]
                BY <2>4, <3>2
            <4>2. PICK k \in 0..MaxMessages : k = estimate.rtt[i].message
                BY <1>4 DEF EstimateType, Places
            <4>3. k # 0 /\ k < m
                  /\ estimate.rtt[i].value = Signed(estimate.rtt[i].time - SentAt(k))
                BY <2>5, <2>6, <4>1, <4>2 DEF EstimateInv
            <4>4. k \in Messages /\ k <= estimate'.lastAcked
                BY <1>5, <2>1, <4>2, <4>3 DEF Messages
            <4> QED
                BY <1>3, <4>1, <4>2, <4>3, <4>4 DEF Signed, SentAt
        <3> QED
            BY <3>1, <3>2
    <2>7. ASSUME NEW i \in Places, NEW j \in Places, Older(i, j)'
          PROVE  estimate'.rtt[i].message = 0
                 \/ estimate'.rtt[i].message < estimate'.rtt[j].message
        <3>1. i # n /\ (j = n \/ Older(i, j))
            BY <2>2, <2>3, <2>7, PingsAssumption DEF Older, Places
        <3>2. CASE j = n
            BY <2>4, <2>5, <3>1, <3>2
        <3>3. CASE j # n
            BY <2>4, <3>1, <3>3 DEF EstimateInv
        <3> QED
            BY <3>2, <3>3
    <2> QED
        BY <1>8, <1>9, <1>10, <2>6, <2>7 DEF EstimateInv, SentAt
<1> QED
    BY <1>11, <1>12

-----------------------------------------------------------------------------
(* The first days *)

\* The clock reads what it is.
LEMMA FirstDays ==
    ASSUME TypeOK, InFirstDays
    PROVE  /\ netStatus /\ start \in Nat /\ start > 0 /\ elapsed \in Nat
           /\ start + elapsed < Half /\ Milliseconds = start + elapsed
           /\ \A t \in 0..elapsed : Signed(start + t) = start + t
           /\ \A t \in 0..(start + elapsed) : Signed(Milliseconds - t) = start + elapsed - t
<1>1. start \in Clock /\ elapsed \in Nat
    BY PingsAssumption DEF TypeOK, start
<1>2. netStatus
    <2>1. settings \in scenario.settings /\ \A s \in scenario.settings : s[2]
        BY DEF InFirstDays, TypeOK
    <2>2. settings[2]
        BY <2>1
    <2> QED
        BY <2>2 DEF settings
<1>3. start \in Nat /\ start > 0 /\ start + elapsed < Half
    BY <1>1, PingsAssumption DEF InFirstDays, Clock
<1>4. ASSUME NEW t \in 0..elapsed PROVE Signed(start + t) = start + t
    <2>1. PICK x \in Clock : x = start + t
        BY <1>1, <1>3, PingsAssumption DEF Clock
    <2> QED
        BY <2>1, SameOnClock
<1>5. Milliseconds = start + elapsed
    BY <1>1, <1>4 DEF Milliseconds
<1>6. ASSUME NEW t \in 0..(start + elapsed)
      PROVE  Signed(Milliseconds - t) = start + elapsed - t
    <2>1. PICK x \in Clock : x = start + elapsed - t
        BY <1>1, <1>3, PingsAssumption DEF Clock
    <2>2. Signed(x) = x
        BY SameOnClock
    <2>3. Milliseconds - t = x
        BY <1>1, <1>3, <1>5, <2>1 DEF Clock
    <2> QED
        BY <2>1, <2>2, <2>3, Zenon
<1> QED
    BY <1>1, <1>2, <1>3, <1>4, <1>5, <1>6

LEMMA StillFirstDays ==
    ASSUME TypeOK, scenario' = scenario, elapsed' \in Nat, elapsed' >= elapsed, InFirstDays'
    PROVE  InFirstDays
<1>1. start' = start /\ start \in Int /\ elapsed \in Nat
    BY PingsAssumption DEF start, TypeOK, Clock
<1>2. start > 0 /\ start + elapsed' < Half /\ \A s \in scenario.settings : s[2]
    BY <1>1 DEF InFirstDays
<1>3. start + elapsed < Half
    BY <1>1, <1>2, PingsAssumption
<1> QED
    BY <1>2, <1>3 DEF InFirstDays

LEMMA SendKept ==
    ASSUME TypeOK, HistoryInv, SendMessageToClient, NEW k \in Messages, Kept(k)'
    PROVE  Kept(k) /\ k # outgoing /\ history'[k] = history[k]
<1>1. /\ outgoing \in Messages /\ history[outgoing].sent = Never
      /\ history'[outgoing] = [sent |-> elapsed, acked |-> Never]
      /\ \A j \in Messages : j # outgoing => history'[j] = history[j]
    BY SendHistory
<1>2. history'[k].acked # Never /\ Delay(k)' <= MaxRtt
    BY DEF Kept, InTime
<1>3. k # outgoing /\ history'[k] = history[k]
    BY <1>1, <1>2
<1>4. Delay(k)' = Delay(k)
    BY <1>3 DEF Delay
<1>5. k + Backup > MaxMessages \/ history[k + Backup].sent \notin 0..history[k].acked
    <2>1. SUFFICES ASSUME k + Backup <= MaxMessages
                   PROVE  history[k + Backup].sent \notin 0..history[k].acked
        BY PingsAssumption DEF Messages
    <2>2. k + Backup \in Messages
        BY <2>1, PingsAssumption DEF Messages
    <2>3. CASE k + Backup = outgoing
        BY <1>1, <2>3 DEF Never
    <2>4. CASE k + Backup # outgoing
        <3>1. history'[k + Backup] = history[k + Backup]
            BY <1>1, <2>2, <2>4
        <3>2. ~(k + Backup > MaxMessages)
            BY <2>1, PingsAssumption DEF Messages
        <3> QED
            BY <1>3, <3>1, <3>2 DEF Kept, InTime
    <2> QED
        BY <2>3, <2>4
<1> QED
    BY <1>2, <1>3, <1>4, <1>5 DEF Kept, InTime

LEMMA SendRing ==
    ASSUME TypeOK, HistoryInv, EstimateInv, InFirstDays, RingInv, SendMessageToClient
    PROVE  RingInv'
<1>1. /\ outgoing \in Messages /\ outgoing' = outgoing + 1 /\ outgoing \in Nat
      /\ \A k \in Messages : k # outgoing => history'[k] = history[k]
      /\ history[outgoing].acked = Never
    BY SendHistory DEF Messages
<1>2. acknowledge' = acknowledge /\ acknowledge \in Nat /\ acknowledge < outgoing
      /\ start' = start /\ netStatus /\ netStatus'
    BY FirstDays DEF SendMessageToClient, TypeOK, start, settings
<1>3. ASSUME NEW k \in Messages, k < outgoing'
      PROVE  estimate'.sentSequence[Slot(k)] = k \/ k + Backup < outgoing'
    <2>1. k \in Nat /\ Slot(k) \in Slots
        BY SlotType DEF Messages
    <2>2. CASE k = outgoing
        BY <1>2, <2>1, <2>2, SendEstimate
    <2>3. CASE k < outgoing /\ Slot(k) = Slot(outgoing)
        BY <1>1, <2>1, <2>3, SlotsApart, PingsAssumption
    <2>4. CASE k < outgoing /\ Slot(k) # Slot(outgoing)
        <3>1. estimate'.sentSequence[Slot(k)] = estimate.sentSequence[Slot(k)]
            BY <2>1, <2>4, SendEstimate
        <3>2. estimate.sentSequence[Slot(k)] = k \/ k + Backup < outgoing
            BY <2>4 DEF RingInv
        <3> QED
            BY <1>1, <2>1, <3>1, <3>2, PingsAssumption
    <2> QED
        BY <1>1, <1>3, <2>1, <2>2, <2>3, <2>4
<1>4. acknowledge' # 0 /\ estimate'.sentSequence[Slot(acknowledge')] = acknowledge'
          => estimate'.lastAcked = acknowledge'
    <2>1. PICK a \in Nat : a = acknowledge
        BY <1>2
    <2>2. SUFFICES ASSUME a # 0, estimate'.sentSequence[Slot(a)] = a
                   PROVE  estimate'.lastAcked = a
        BY <1>2, <2>1
    <2>3. Slot(a) \in Slots /\ a < outgoing
        BY <1>2, <2>1, SlotType
    <2>4. estimate'.sentSequence[Slot(a)] =
            IF netStatus /\ Slot(a) = Slot(outgoing) THEN outgoing
            ELSE estimate.sentSequence[Slot(a)]
        BY <2>3, SendEstimate
    <2>5. estimate.sentSequence[Slot(a)] = a
        BY <1>1, <2>2, <2>3, <2>4
    <2>6. estimate.lastAcked = a
        BY <2>1, <2>2, <2>5 DEF RingInv
    <2> QED
        BY <2>6, SendEstimate
<1>5. ASSUME NEW i \in Places
      PROVE  LET r == estimate'.rtt[i] IN
             /\ r.message = 0 => r.time = 0
             /\ r.message # 0 => /\ history'[r.message].acked # Never
                                 /\ r.time = start' + history'[r.message].acked
                                 /\ r.value = history'[r.message].acked
                                              - history'[r.message].sent
    <2>1. PICK k \in 0..MaxMessages : k = estimate.rtt[i].message
        BY DEF TypeOK, EstimateType, Places
    <2>2. estimate'.rtt = estimate.rtt
        BY SendEstimate
    <2>3. /\ k = 0 => estimate.rtt[i].time = 0
          /\ k # 0 => /\ history[k].acked # Never
                      /\ estimate.rtt[i].time = start + history[k].acked
                      /\ estimate.rtt[i].value = history[k].acked - history[k].sent
        BY <2>1 DEF RingInv, Delay
    <2>4. k # 0 => history'[k] = history[k]
        BY <1>1, <2>1, <2>3 DEF Messages
    <2> QED
        BY <1>2, <2>1, <2>2, <2>3, <2>4
<1>6. ASSUME NEW k \in Messages, Kept(k)'
      PROVE  \/ \E i \in Places : estimate'.rtt[i].message = k
             \/ \A i \in Places : estimate'.rtt[i].message > k
    <2>1. Kept(k)
        BY <1>6, SendKept
    <2> QED
        BY <2>1, SendEstimate DEF RingInv
<1> QED
    BY <1>2, <1>3, <1>4, <1>5, <1>6 DEF RingInv, Delay

\* An acknowledgement that counts for the net ping is of before, or it is measured now.
LEMMA MoveKept ==
    ASSUME TypeOK, HistoryInv, EstimateInv, InFirstDays, RingInv,
           NEW m \in Messages, UserMove(m), NEW k \in Messages, Kept(k)'
    PROVE  \/ Kept(k) /\ history'[k] = history[k]
           \/ k = m /\ history[m].acked = Never /\ Keeps(m)
<1>1. /\ history'[m] = [sent |-> history[m].sent,
                        acked |-> IF history[m].acked = Never THEN elapsed
                                  ELSE history[m].acked]
      /\ \A j \in Messages : j # m => history'[j] = history[j]
      /\ history[m].sent \in 0..elapsed /\ m < outgoing
    BY MoveHistory
<1>2. \A j \in Messages : history'[j].sent = history[j].sent
    BY <1>1
<1>3. /\ history'[k].acked # Never /\ Delay(k)' <= MaxRtt
      /\ k + Backup > MaxMessages \/ history'[k + Backup].sent \notin 0..history'[k].acked
    BY DEF Kept, InTime
<1>4. k + Backup > MaxMessages \/ history[k + Backup].sent \notin 0..history'[k].acked
    <2>1. SUFFICES ASSUME ~(k + Backup > MaxMessages)
                   PROVE  history[k + Backup].sent \notin 0..history'[k].acked
        OBVIOUS
    <2>2. k + Backup \in Messages
        BY <2>1, PingsAssumption DEF Messages
    <2> QED
        BY <1>2, <1>3, <2>1, <2>2
<1>5. CASE k = m /\ history[m].acked = Never
    <2>1. history'[m].acked = elapsed
        BY <1>1, <1>5
    <2>2. m + Backup > MaxMessages \/ history[m + Backup].sent = Never
        <3>1. SUFFICES ASSUME ~(m + Backup > MaxMessages)
                       PROVE  history[m + Backup].sent = Never
            OBVIOUS
        <3>2. m + Backup \in Messages
            BY <3>1, PingsAssumption DEF Messages
        <3>3. PICK s : s = history[m + Backup].sent
            OBVIOUS
        <3>4. s \in Never..elapsed
            BY <3>2, <3>3 DEF TypeOK
        <3>5. s \notin 0..elapsed
            BY <1>4, <1>5, <2>1, <3>1, <3>3
        <3>6. elapsed \in Nat /\ Never = -1
            BY Counters DEF Never
        <3> QED
            BY <3>3, <3>4, <3>5, <3>6
    <2>3. ~(m + Backup < outgoing)
        <3>1. ASSUME m + Backup < outgoing PROVE FALSE
            <4>1. m + Backup \in Messages /\ ~(m + Backup > MaxMessages)
                BY <3>1, Counters DEF Messages
            <4>2. history[m + Backup].sent # Never
                BY <3>1, <4>1 DEF HistoryInv
            <4> QED
                BY <2>2, <4>1, <4>2
        <3> QED
            BY <3>1
    <2>4. estimate.sentSequence[Slot(m)] = m
        BY <1>1, <2>3 DEF RingInv
    <2>5. estimate.lastAcked # m
        BY <1>5 DEF EstimateInv, Messages
    <2>6. Measures(m)
        BY <2>4, <2>5 DEF Measures, RingInv
    <2>7. m \in Nat /\ Slot(m) \in Slots /\ m # 0
        BY SlotType DEF Messages
    <2>8. estimate.sentTime[Slot(m)] = start + history[m].sent
        BY <1>1, <2>4, <2>7, FirstDays DEF EstimateInv, SentAt
    <2>9. PICK t \in 0..(start + elapsed) : t = start + history[m].sent
        BY <1>1, FirstDays
    <2>10. Since(m) = elapsed - history[m].sent
        <3>1. Since(m) = start + elapsed - t
            BY <2>8, <2>9, FirstDays DEF Since
        <3> QED
            BY <1>1, <2>9, <3>1, FirstDays
    <2>11. history'[m].acked - history'[m].sent <= MaxRtt
        BY <1>3, <1>5 DEF Delay
    <2>12. elapsed - history[m].sent \in 0..MaxRtt
        BY <1>1, <1>2, <2>1, <2>11, FirstDays, PingsAssumption
    <2> QED
        BY <1>5, <2>6, <2>10, <2>12 DEF Keeps
<1>6. CASE ~(k = m /\ history[m].acked = Never)
    <2>1. history'[k] = history[k]
        <3>1. CASE k # m
            BY <1>1, <3>1
        <3>2. CASE k = m
            <4>1. history[m] = [sent |-> history[m].sent, acked |-> history[m].acked]
                BY DEF TypeOK
            <4> QED
                BY <1>1, <1>6, <3>2, <4>1
        <3> QED
            BY <3>1, <3>2
    <2>2. Delay(k)' = Delay(k)
        BY <2>1 DEF Delay
    <2> QED
        BY <1>3, <1>4, <2>1, <2>2 DEF Kept, InTime
<1> QED
    BY <1>5, <1>6

\* A round trip is measured at the first acknowledgement, and is its delay.
LEMMA KeepsFirst ==
    ASSUME TypeOK, HistoryInv, EstimateInv, InFirstDays, RingInv,
           NEW m \in Messages, UserMove(m), Keeps(m)
    PROVE  /\ history[m].acked = Never /\ history'[m].acked = elapsed
           /\ history'[m].sent = history[m].sent /\ Since(m) = elapsed - history[m].sent
           /\ \A i \in Places : estimate.rtt[i].message \in Nat
                                /\ estimate.rtt[i].message < m
<1>1. /\ history'[m] = [sent |-> history[m].sent,
                        acked |-> IF history[m].acked = Never THEN elapsed
                                  ELSE history[m].acked]
      /\ history[m].sent \in 0..elapsed /\ m >= acknowledge
    BY MoveHistory
<1>2. m \in Nat /\ Slot(m) \in Slots /\ m # 0 /\ acknowledge \in Nat
    BY SlotType DEF Messages, TypeOK
<1>3. estimate.sentSequence[Slot(m)] = m /\ estimate.lastAcked # m
    BY DEF Keeps, Measures
<1>4. history[m].acked = Never
    <2>1. SUFFICES ASSUME history[m].acked # Never PROVE FALSE
        OBVIOUS
    <2>2. m = acknowledge
        BY <1>1, <1>2, <2>1 DEF HistoryInv
    <2> QED
        BY <1>2, <1>3, <2>2 DEF RingInv
<1>5. estimate.sentTime[Slot(m)] = start + history[m].sent
    BY <1>1, <1>2, <1>3, FirstDays DEF EstimateInv, SentAt
<1>6. PICK t \in 0..(start + elapsed) : t = start + history[m].sent
    BY <1>1, FirstDays
<1>7. Since(m) = elapsed - history[m].sent
    <2>1. Since(m) = start + elapsed - t
        BY <1>5, <1>6, FirstDays DEF Since
    <2> QED
        BY <1>1, <1>6, <2>1, FirstDays
<1>8. ASSUME NEW i \in Places
      PROVE  estimate.rtt[i].message \in Nat /\ estimate.rtt[i].message < m
    <2>1. estimate.rtt[i].message \in 0..MaxMessages /\ estimate.lastAcked \in 0..MaxMessages
        BY DEF TypeOK, EstimateType, Places
    <2>2. estimate.rtt[i].message = 0 \/ estimate.rtt[i].message <= estimate.lastAcked
        BY DEF EstimateInv
    <2>3. estimate.lastAcked < m
        BY <1>1, <1>2, <1>3, <2>1 DEF EstimateInv
    <2> QED
        BY <1>2, <2>1, <2>2, <2>3
<1> QED
    BY <1>1, <1>4, <1>7, <1>8

LEMMA MoveRing ==
    ASSUME TypeOK, HistoryInv, EstimateInv, InFirstDays, RingInv,
           NEW m \in Messages, UserMove(m)
    PROVE  RingInv'
<1>1. /\ acknowledge' = m /\ outgoing' = outgoing /\ scenario' = scenario
      /\ elapsed' = elapsed /\ start' = start /\ netStatus'
    BY FirstDays DEF UserMove, start, settings
<1>2. \A k \in Messages : history[k].acked # Never => history'[k] = history[k]
    BY AckedNow
<1>3. estimate \in EstimateType /\ PacketMakes(m, estimate')
    BY PacketEstimate DEF UserMove, TypeOK
<1>4. estimate'.sentSequence = estimate.sentSequence
      /\ estimate'.lastAcked = IF Measures(m) THEN m ELSE estimate.lastAcked
    BY <1>3 DEF PacketMakes
<1>5. \A k \in Messages : k < outgoing' =>
        estimate'.sentSequence[Slot(k)] = k \/ k + Backup < outgoing'
    BY <1>1, <1>4 DEF RingInv
<1>6. estimate'.sentSequence[Slot(m)] = m => estimate'.lastAcked = m
    BY <1>4 DEF Measures, RingInv
<1>7. PICK n \in Places : n = estimate.rttIndex
    BY <1>3 DEF EstimateType, Places
<1>8. /\ ~Keeps(m) => estimate'.rtt = estimate.rtt
      /\ Keeps(m) =>
            /\ estimate'.rtt[n] = [time |-> Milliseconds, value |-> Since(m), message |-> m]
            /\ \A i \in Places : i # n => estimate'.rtt[i] = estimate.rtt[i]
    BY <1>3, <1>7 DEF PacketMakes, RingAfter, EstimateType, Places
<1>9. ASSUME NEW i \in Places
      PROVE  LET r == estimate'.rtt[i] IN
             /\ r.message = 0 => r.time = 0
             /\ r.message # 0 => /\ history'[r.message].acked # Never
                                 /\ r.time = start' + history'[r.message].acked
                                 /\ r.value = history'[r.message].acked
                                              - history'[r.message].sent
    <2>1. CASE Keeps(m) /\ i = n
        <3>1. /\ estimate'.rtt[i].message = m /\ estimate'.rtt[i].value = Since(m)
              /\ estimate'.rtt[i].time = start + elapsed
            BY <1>8, <2>1, FirstDays
        <3>2. elapsed # Never /\ m # 0
            BY Counters DEF Messages
        <3> QED
            BY <1>1, <2>1, <3>1, <3>2, KeepsFirst
    <2>2. CASE ~(Keeps(m) /\ i = n)
        <3>1. estimate'.rtt[i] = estimate.rtt[i]
            BY <1>8, <2>2
        <3>2. PICK k \in 0..MaxMessages : k = estimate.rtt[i].message
            BY <1>3 DEF EstimateType, Places
        <3>3. /\ k = 0 => estimate.rtt[i].time = 0
              /\ k # 0 => /\ history[k].acked # Never
                          /\ estimate.rtt[i].time = start + history[k].acked
                          /\ estimate.rtt[i].value = history[k].acked - history[k].sent
            BY <3>2 DEF RingInv, Delay
        <3>4. k # 0 => history'[k] = history[k]
            BY <1>2, <3>2, <3>3 DEF Messages
        <3> QED
            BY <1>1, <3>1, <3>2, <3>3, <3>4
    <2> QED
        BY <2>1, <2>2
<1>10. ASSUME NEW k \in Messages, Kept(k)'
       PROVE  \/ \E i \in Places : estimate'.rtt[i].message = k
              \/ \A i \in Places : estimate'.rtt[i].message > k
    <2>1. CASE ~Keeps(m)
        <3>1. Kept(k)
            BY <1>10, <2>1, MoveKept
        <3> QED
            BY <1>8, <2>1, <3>1 DEF RingInv
    <2>2. CASE Keeps(m) /\ ~Kept(k)
        <3>1. k = m
            BY <1>10, <2>2, MoveKept
        <3> QED
            BY <1>8, <2>2, <3>1
    <2>3. CASE Keeps(m) /\ Kept(k)
        <3>1. \A i \in Places : estimate.rtt[i].message \in Nat
                                /\ estimate.rtt[i].message < m
            BY <2>3, KeepsFirst
        <3>2. estimate'.rtt[n].message = m
            BY <1>8, <2>3
        <3>3. CASE \E i \in Places : i # n /\ estimate.rtt[i].message = k
            BY <1>8, <2>3, <3>3
        <3>4. CASE estimate.rtt[n].message = k
            <4>1. ASSUME NEW i \in Places PROVE estimate'.rtt[i].message > k
                <5>1. CASE i = n
                    BY <3>1, <3>2, <3>4, <5>1 DEF Messages
                <5>2. CASE i # n
                    <6>1. Older(n, i)
                        BY <1>7, <5>2 DEF Older, Places
                    <6>2. estimate.rtt[n].message < estimate.rtt[i].message
                        BY <3>4, <6>1 DEF EstimateInv, Messages
                    <6> QED
                        BY <1>8, <2>3, <3>1, <3>4, <5>2, <6>2
                <5> QED
                    BY <5>1, <5>2
            <4> QED
                BY <4>1
        <3>5. CASE \A i \in Places : estimate.rtt[i].message > k
            <4>1. ASSUME NEW i \in Places PROVE estimate'.rtt[i].message > k
                <5>1. estimate.rtt[i].message > k /\ estimate.rtt[i].message < m
                      /\ estimate.rtt[i].message \in Nat
                    BY <3>1, <3>5
                <5> QED
                    BY <1>8, <2>3, <3>2, <5>1 DEF Messages
            <4> QED
                BY <4>1
        <3> QED
            BY <2>3, <3>3, <3>4, <3>5 DEF RingInv
    <2> QED
        BY <2>1, <2>2, <2>3
<1> QED
    BY <1>1, <1>5, <1>6, <1>9, <1>10 DEF RingInv, Delay

-----------------------------------------------------------------------------
(* The net ping *)

\* The net ping is not measured, and what counts for it is of before, or is now.
Steady ==
    /\ scenario' = scenario /\ elapsed' \in Nat /\ elapsed' >= elapsed
    /\ estimate'.windowStart = estimate.windowStart /\ estimate'.netPing = estimate.netPing
    /\ \A k \in Messages : history[k].acked # Never => history'[k] = history[k]
    /\ \A k \in Messages : history'[k].acked # Never =>
          history'[k] = history[k] \/ history'[k].acked = elapsed
    /\ \A k \in Messages : Kept(k)' =>
          (Kept(k) /\ history'[k] = history[k]) \/ history'[k].acked = elapsed

LEMMA StillOfAMessage ==
    ASSUME Steady, OfAMessage
    PROVE  OfAMessage'
<1>1. PICK k \in Messages : history[k].acked # Never /\ estimate.netPing = Delay(k)
    BY DEF OfAMessage
<1>2. history'[k] = history[k]
    BY <1>1 DEF Steady
<1> QED
    BY <1>1, <1>2 DEF Steady, OfAMessage, Delay

\* The messages acknowledged in a window, by their numbers.
LEMMA WindowFinite ==
    ASSUME MaxMessages \in Nat, NEW W \in SUBSET Messages
    PROVE  IsFiniteSet(W) /\ Cardinality(W) \in Nat
<1>1. IsFiniteSet(Messages)
    BY FS_Interval DEF Messages
<1> QED
    BY <1>1, FS_Subset, FS_CardinalityType

LEMMA SteadySmallest ==
    ASSUME TypeOK, InFirstDays, InFirstDays', WindowInv, Steady, NetPingIsSmallest
    PROVE  NetPingIsSmallest'
<1> DEFINE measured == Signed(estimate.windowStart - start)
           W == AckedBetween(measured - Memory, measured)
           B == {k \in W : Kept(k) /\ history[k].acked < measured}
<1>1. start' = start /\ start \in Nat /\ elapsed \in Nat /\ measured' = measured
    BY FirstDays DEF Steady, start, Signed
<1>2. SUFFICES ASSUME estimate'.windowStart # 0, Cardinality(W') <= RttSamples, B' # {}
               PROVE  /\ \A k \in B' : estimate'.netPing <= Delay(k)'
                      /\ \E k \in W' : estimate'.netPing = Delay(k)'
    BY DEF NetPingIsSmallest
<1>3. estimate.windowStart # 0
    BY <1>2 DEF Steady
<1>4. measured \in 0..elapsed
    <2>1. PICK t \in 0..elapsed : t = estimate.windowStart - start
        BY <1>1, <1>3 DEF WindowInv, TypeOK, EstimateType, Clock
    <2>2. t \in Clock
        BY <1>1, <2>1, FirstDays, PingsAssumption DEF Clock
    <2> QED
        BY <2>1, <2>2, SameOnClock
<1> HIDE DEF measured
<1>5. W \subseteq W' /\ W' \in SUBSET Messages /\ W \in SUBSET Messages
    BY <1>1 DEF AckedBetween, Delay, Steady
<1>6. \A k \in B' : k \in B /\ Delay(k)' = Delay(k)
    <2>1. SUFFICES ASSUME NEW k \in B' PROVE k \in B /\ Delay(k)' = Delay(k)
        OBVIOUS
    <2>2. /\ k \in Messages /\ Kept(k)' /\ history'[k].acked < measured
          /\ history'[k].acked # Never /\ Delay(k)' <= MaxRtt
          /\ history'[k].acked \in (measured - Memory)..measured
        BY <1>1 DEF AckedBetween
    <2>3. ~(history'[k].acked = elapsed)
        BY <1>1, <1>4, <2>2
    <2>4. Kept(k) /\ history'[k] = history[k]
        BY <2>2, <2>3 DEF Steady
    <2> QED
        BY <2>2, <2>4 DEF AckedBetween, Delay
<1>7. Cardinality(W) <= RttSamples
    <2>1. IsFiniteSet(W') /\ Cardinality(W') \in Nat /\ Cardinality(W) \in Nat
        BY <1>5, WindowFinite, PingsAssumption
    <2>2. Cardinality(W) <= Cardinality(W')
        BY <1>5, <2>1, FS_Subset
    <2> QED
        BY <1>2, <2>1, <2>2, PingsAssumption
<1>8. B # {}
    BY <1>2, <1>6
<1>9. /\ \A k \in B : estimate.netPing <= Delay(k)
      /\ \E k \in W : estimate.netPing = Delay(k)
    BY <1>3, <1>7, <1>8 DEF NetPingIsSmallest, measured
<1>10. \A k \in W : Delay(k)' = Delay(k)
    BY DEF AckedBetween, Steady, Delay
<1> QED
    BY <1>5, <1>6, <1>9, <1>10 DEF Steady

LEMMA SteadyWindow ==
    ASSUME TypeOK, InFirstDays, WindowInv, Steady
    PROVE  OfAMessage' \/ \A k \in Messages : Kept(k)' =>
             \/ estimate'.windowStart <= start' + history'[k].acked
             \/ estimate'.windowStart > start' + history'[k].acked + Memory
<1>1. start' = start /\ start \in Nat /\ elapsed \in Nat
    BY FirstDays DEF Steady, start
<1>2. CASE OfAMessage
    BY <1>2, StillOfAMessage
<1>3. CASE ~OfAMessage
    <2>1. SUFFICES ASSUME NEW k \in Messages, Kept(k)'
                   PROVE  \/ estimate'.windowStart <= start' + history'[k].acked
                          \/ estimate'.windowStart > start' + history'[k].acked + Memory
        OBVIOUS
    <2>2. CASE history'[k].acked = elapsed
        BY <1>1, <2>2 DEF WindowInv, Steady
    <2>3. CASE Kept(k) /\ history'[k] = history[k]
        BY <1>1, <1>3, <2>3 DEF WindowInv, Steady
    <2> QED
        BY <2>1, <2>2, <2>3 DEF Steady
<1> QED
    BY <1>2, <1>3

\* A packet that ends no window leaves the net ping alone.
LEMMA MoveSteady ==
    ASSUME TypeOK, HistoryInv, EstimateInv, InFirstDays, RingInv,
           NEW m \in Messages, UserMove(m), ~Ends
    PROVE  Steady
<1>2. \A k \in Messages : history[k].acked # Never => history'[k] = history[k]
    BY AckedNow
<1>3. \A k \in Messages : history'[k].acked # Never =>
        history'[k] = history[k] \/ history'[k].acked = elapsed
    BY AckedNow
<1>4. \A k \in Messages : Kept(k)' =>
        (Kept(k) /\ history'[k] = history[k]) \/ history'[k].acked = elapsed
    BY MoveKept, KeepsFirst
<1>5. PacketMakes(m, estimate')
    BY PacketEstimate DEF UserMove
<1>6. scenario' = scenario /\ elapsed' = elapsed /\ elapsed \in Nat
    BY FirstDays DEF UserMove
<1> QED
    BY <1>2, <1>3, <1>4, <1>5, <1>6 DEF Steady, PacketMakes

\* What is recent when a window ends: the round trips of the ring that are of a
\* message acknowledged in the last seconds.
LEMMA RecentRoundTrips ==
    ASSUME TypeOK, HistoryInv, EstimateInv, InFirstDays, RingInv,
           NEW m \in Messages, UserMove(m)
    PROVE  /\ \A i \in RecentOf(RingAfter(m)) :
                /\ i \in Places /\ estimate'.rtt[i].message \in Messages
                /\ estimate'.rtt[i].value = Delay(estimate.rtt[i].message)'
                /\ history'[estimate'.rtt[i].message].acked # Never
                /\ history'[estimate'.rtt[i].message].acked >= elapsed - Memory
           /\ \A i \in Places :
                /\ estimate'.rtt[i].message # 0
                /\ history'[estimate'.rtt[i].message].acked >= elapsed - Memory
                => i \in RecentOf(RingAfter(m))
<1>1. estimate' \in EstimateType /\ estimate'.rtt = RingAfter(m) /\ start' = start
    BY PacketEstimate DEF UserMove, PacketMakes, start
<1>2. RingInv'
    BY MoveRing
<1>3. \A k \in Messages : history'[k].acked \in Never..elapsed
    BY AckedNow
<1>4. ASSUME NEW i \in Places
      PROVE  /\ estimate'.rtt[i].time = 0 =>  i \notin RecentOf(RingAfter(m))
             /\ estimate'.rtt[i].message # 0 => estimate'.rtt[i].message \in Messages
             /\ estimate'.rtt[i].message # 0 =>
                  /\ estimate'.rtt[i].value = Delay(estimate.rtt[i].message)'
                  /\ history'[estimate'.rtt[i].message].acked # Never
                  /\ i \in RecentOf(RingAfter(m)) <=>
                        history'[estimate'.rtt[i].message].acked >= elapsed - Memory
    <2>1. PICK k \in 0..MaxMessages : k = estimate'.rtt[i].message
        BY <1>1 DEF EstimateType, Places
    <2>2. estimate'.rtt[i].time = 0 => i \notin RecentOf(RingAfter(m))
        BY <1>1 DEF RecentOf
    <2>3. ASSUME k # 0
          PROVE  /\ k \in Messages /\ estimate'.rtt[i].value = Delay(k)'
                 /\ history'[k].acked # Never
                 /\ i \in RecentOf(RingAfter(m)) <=> history'[k].acked >= elapsed - Memory
        <3>1. k \in Messages
            BY <2>3 DEF Messages
        <3>2. /\ history'[k].acked # Never
              /\ estimate'.rtt[i].time = start + history'[k].acked
              /\ estimate'.rtt[i].value = history'[k].acked - history'[k].sent
            BY <1>1, <1>2, <2>1, <2>3 DEF RingInv, Delay
        <3>3. PICK t \in 0..elapsed : t = history'[k].acked
            BY <1>3, <3>1, <3>2, FirstDays DEF Never
        <3>4. PICK u \in 0..(start + elapsed) : u = start + t
            BY FirstDays
        <3>5. estimate'.rtt[i].time = u /\ u # 0
            BY <3>2, <3>3, <3>4, FirstDays
        <3>6. Signed(Milliseconds - u) = elapsed - t
            BY <3>4, FirstDays
        <3>7. i \in RecentOf(RingAfter(m)) <=> elapsed - t <= Memory
            BY <1>1, <3>5, <3>6 DEF RecentOf
        <3>8. elapsed - t <= Memory <=> t >= elapsed - Memory
            BY FirstDays, PingsAssumption
        <3> QED
            BY <3>1, <3>2, <3>3, <3>7, <3>8 DEF Delay
    <2> QED
        BY <2>1, <2>2, <2>3 DEF Delay
<1>5. \A i \in Places : estimate'.rtt[i].message = 0 => estimate'.rtt[i].time = 0
    BY <1>2 DEF RingInv
<1>6. RecentOf(RingAfter(m)) \subseteq Places
    BY DEF RecentOf
<1> QED
    BY <1>4, <1>5, <1>6 DEF Delay

\* A round trip that counts is in the ring, or the ring is full of later ones.
LEMMA InRingOrLater ==
    ASSUME TypeOK, HistoryInv, EstimateInv, InFirstDays, RingInv,
           NEW m \in Messages, UserMove(m), NEW k \in Messages, Kept(k)'
    PROVE  \/ \E i \in Places : estimate'.rtt[i].message = k
           \/ \A i \in Places :
                /\ estimate'.rtt[i].message \in Messages /\ estimate'.rtt[i].message > k
                /\ history'[estimate'.rtt[i].message].acked # Never
                /\ history'[estimate'.rtt[i].message].acked >= history'[k].acked
<1>1. RingInv' /\ HistoryInv' /\ estimate' \in EstimateType
    BY MoveRing, MoveHistoryInv, PacketEstimate DEF UserMove
<1>2. history'[k].acked # Never
    BY DEF Kept, InTime
<1>3. CASE \A i \in Places : estimate'.rtt[i].message > k
    <2>1. SUFFICES ASSUME NEW i \in Places
                   PROVE  /\ estimate'.rtt[i].message \in Messages
                          /\ estimate'.rtt[i].message > k
                          /\ history'[estimate'.rtt[i].message].acked # Never
                          /\ history'[estimate'.rtt[i].message].acked >= history'[k].acked
        OBVIOUS
    <2>2. PICK j \in 0..MaxMessages : j = estimate'.rtt[i].message
        BY <1>1 DEF EstimateType, Places
    <2>3. j > k /\ j \in Messages /\ j # 0
        BY <1>3, <2>2 DEF Messages
    <2>4. history'[j].acked # Never
        BY <1>1, <2>2, <2>3 DEF RingInv
    <2>5. history'[k].acked <= history'[j].acked
        <3>1. k < j
            BY <2>3 DEF Messages
        <3> QED
            BY <1>1, <1>2, <2>3, <2>4, <3>1 DEF HistoryInv
    <2>6. history'[k].acked \in Int /\ history'[j].acked \in Int
        BY <2>3, AckedNow
    <2>7. history'[j].acked >= history'[k].acked
        BY <2>5, <2>6
    <2> QED
        BY <2>2, <2>3, <2>4, <2>7
<1>4. CASE ~\A i \in Places : estimate'.rtt[i].message > k
    BY <1>1, <1>4 DEF RingInv
<1> QED
    BY <1>3, <1>4

\* At the end of a window the net ping is the smallest of what is recent, and all
\* that counts is.
LEMMA WindowEnds ==
    ASSUME TypeOK, HistoryInv, EstimateInv, InFirstDays, RingInv,
           NEW m \in Messages, UserMove(m), Ends
    PROVE  /\ estimate'.windowStart = start + elapsed
           /\ \A k \in Messages : Kept(k)' /\ history'[k].acked >= elapsed - Memory
                => RecentOf(RingAfter(m)) # {}
           /\ RecentOf(RingAfter(m)) = {} => estimate'.netPing = estimate.netPing
           /\ RecentOf(RingAfter(m)) # {} =>
                /\ \E i \in RecentOf(RingAfter(m)) : estimate'.netPing = estimate'.rtt[i].value
                /\ \A i \in RecentOf(RingAfter(m)) : estimate'.netPing <= estimate'.rtt[i].value
<1>1. PacketMakes(m, estimate') /\ estimate' \in EstimateType
    BY PacketEstimate DEF UserMove
<1>2. estimate'.windowStart = start + elapsed
    BY <1>1, FirstDays DEF PacketMakes
<1>3. PICK Q : Q = RecentOf(RingAfter(m))
    OBVIOUS
<1>4. estimate'.rtt = RingAfter(m) /\ estimate'.netPing = NetPingOf(RingAfter(m))
    BY <1>1 DEF PacketMakes
<1>5. Q = {} => estimate'.netPing = estimate.netPing
    BY <1>3, <1>4 DEF NetPingOf
<1>6. ASSUME Q # {}
      PROVE  /\ \E i \in Q : estimate'.netPing = estimate'.rtt[i].value
             /\ \A i \in Q : estimate'.netPing <= estimate'.rtt[i].value
    <2>1. PICK V : V = {estimate'.rtt[i].value : i \in Q}
        OBVIOUS
    <2>2. estimate'.netPing = Min(V)
        BY <1>3, <1>4, <1>6, <2>1 DEF NetPingOf
    <2>3. \A i \in Q : estimate'.rtt[i].value \in Nat
        <3>1. Q \subseteq Places
            BY <1>3 DEF RecentOf
        <3>2. \A i \in Places : estimate'.rtt[i].value \in 0..MaxRtt
            BY <1>1 DEF EstimateType, Places
        <3> QED
            BY <3>1, <3>2
    <2>4. V \in SUBSET Nat /\ V # {}
        BY <1>6, <2>1, <2>3
    <2>5. Min(V) \in V /\ \A x \in V : Min(V) <= x
        BY <2>4, MinIsLeast
    <2> QED
        BY <2>1, <2>2, <2>5
<1>7. ASSUME NEW k \in Messages, Kept(k)', history'[k].acked >= elapsed - Memory
      PROVE  Q # {}
    <2>1. CASE \E i \in Places : estimate'.rtt[i].message = k
        <3>1. PICK i \in Places : estimate'.rtt[i].message = k
            BY <2>1
        <3>2. k # 0
            BY DEF Messages
        <3> QED
            BY <1>3, <1>7, <3>1, <3>2, RecentRoundTrips
    <2>2. CASE \A i \in Places :
                /\ estimate'.rtt[i].message \in Messages /\ estimate'.rtt[i].message > k
                /\ history'[estimate'.rtt[i].message].acked # Never
                /\ history'[estimate'.rtt[i].message].acked >= history'[k].acked
        <3>1. 0 \in Places
            BY PingsAssumption DEF Places
        <3>2. PICK j \in Messages : j = estimate'.rtt[0].message
            BY <2>2, <3>1
        <3>3. history'[j].acked >= history'[k].acked /\ j # 0
            BY <2>2, <3>1, <3>2 DEF Messages
        <3>4. history'[k].acked \in Int /\ history'[j].acked \in Int
            BY MoveType DEF TypeOK, Never
        <3>5. history'[j].acked >= elapsed - Memory
            BY <1>7, <3>3, <3>4, FirstDays, PingsAssumption
        <3> QED
            BY <1>3, <3>1, <3>2, <3>3, <3>5, RecentRoundTrips
    <2> QED
        BY <1>7, <2>1, <2>2, InRingOrLater
<1> QED
    BY <1>2, <1>3, <1>5, <1>6, <1>7

\* What is measured of something recent is the delay of a message.
LEMMA EndsOfAMessage ==
    ASSUME TypeOK, HistoryInv, EstimateInv, InFirstDays, RingInv,
           NEW m \in Messages, UserMove(m), Ends, RecentOf(RingAfter(m)) # {}
    PROVE  OfAMessage'
<1>1. PICK i \in RecentOf(RingAfter(m)) : estimate'.netPing = estimate'.rtt[i].value
    BY WindowEnds
<1>2. PICK k \in Messages : k = estimate'.rtt[i].message
    BY <1>1, RecentRoundTrips
<1>3. estimate'.rtt[i].value = Delay(k)' /\ history'[k].acked # Never
    BY <1>1, <1>2, RecentRoundTrips DEF Delay
<1> QED
    BY <1>1, <1>3 DEF OfAMessage

LEMMA MoveOfAMessage ==
    ASSUME TypeOK, HistoryInv, EstimateInv, InFirstDays, RingInv,
           NEW m \in Messages, UserMove(m), OfAMessage
    PROVE  OfAMessage'
<1>1. CASE ~Ends
    BY <1>1, MoveSteady, StillOfAMessage
<1>2. CASE Ends /\ RecentOf(RingAfter(m)) # {}
    BY <1>2, EndsOfAMessage
<1>3. CASE Ends /\ RecentOf(RingAfter(m)) = {}
    <2>1. estimate'.netPing = estimate.netPing
        BY <1>3, WindowEnds
    <2>2. PICK k \in Messages : history[k].acked # Never /\ estimate.netPing = Delay(k)
        BY DEF OfAMessage
    <2>3. history'[k] = history[k]
        BY <2>2, AckedNow
    <2> QED
        BY <2>1, <2>2, <2>3 DEF OfAMessage, Delay
<1> QED
    BY <1>1, <1>2, <1>3

LEMMA MoveWindow ==
    ASSUME TypeOK, HistoryInv, EstimateInv, InFirstDays, RingInv, WindowInv,
           NEW m \in Messages, UserMove(m)
    PROVE  WindowInv'
<1>1. start' = start /\ elapsed' = elapsed
    BY DEF UserMove, start
<1>2. start \in Nat /\ elapsed \in Nat /\ estimate.windowStart \in Int
      /\ estimate'.windowStart \in Int
    <2>1. estimate \in EstimateType /\ estimate' \in EstimateType
        BY MoveType DEF TypeOK
    <2>2. estimate.windowStart \in Int /\ estimate'.windowStart \in Int
        BY <2>1 DEF EstimateType, Clock
    <2> QED
        BY <2>2, FirstDays
<1>3. \A k \in Messages : history'[k].acked \in Never..elapsed
    BY AckedNow
<1>4. \A k \in Messages : history'[k].acked # Never =>
        history'[k] = history[k] \/ history'[k].acked = elapsed
    BY AckedNow
<1>5. CASE Ends
    <2>1. estimate'.windowStart = start + elapsed
        BY <1>5, WindowEnds
    <2>2. \A k \in Messages : history'[k].acked # Never =>
            estimate'.windowStart > start' + history'[k].acked - Second
        BY <1>1, <1>2, <1>3, <2>1, PingsAssumption DEF Never
    <2>3. OfAMessage' \/ \A k \in Messages : Kept(k)' =>
             \/ estimate'.windowStart <= start' + history'[k].acked
             \/ estimate'.windowStart > start' + history'[k].acked + Memory
        <3>1. SUFFICES ASSUME ~OfAMessage', NEW k \in Messages, Kept(k)'
                       PROVE  estimate'.windowStart > start' + history'[k].acked + Memory
            OBVIOUS
        <3>2. ~(history'[k].acked >= elapsed - Memory)
            BY <1>5, <3>1, WindowEnds, EndsOfAMessage
        <3> QED
            BY <1>1, <1>2, <1>3, <2>1, <3>2, PingsAssumption DEF Never
    <2> QED
        BY <1>1, <1>2, <2>1, <2>2, <2>3 DEF WindowInv
<1>6. CASE ~Ends
    <2>1. Steady
        BY <1>6, MoveSteady
    <2>2. estimate'.windowStart = estimate.windowStart
        BY <2>1 DEF Steady
    <2>3. PICK u \in 0..(start + elapsed) : u = estimate.windowStart
        BY <1>2 DEF WindowInv
    <2>4. start + elapsed - u < Second
        <3>1. Signed(Milliseconds - u) = start + elapsed - u
            BY FirstDays
        <3> QED
            BY <1>6, <2>3, <3>1, FirstDays DEF Ends
    <2>5. ASSUME NEW k \in Messages, history'[k].acked # Never
          PROVE  estimate'.windowStart > start' + history'[k].acked - Second
        <3>1. history'[k].acked <= elapsed /\ history'[k].acked \in Int
            BY <1>2, <1>3 DEF Never
        <3> QED
            BY <1>1, <1>2, <2>2, <2>3, <2>4, <3>1, PingsAssumption
    <2> QED
        BY <1>1, <2>1, <2>2, <2>5, SteadyWindow DEF WindowInv
<1> QED
    BY <1>5, <1>6

LEMMA MoveMeasured ==
    ASSUME TypeOK, HistoryInv, EstimateInv, InFirstDays, RingInv, WindowInv,
           NEW m \in Messages, UserMove(m), NetPingMeasured
    PROVE  NetPingMeasured'
<1>1. SUFFICES ASSUME NEW k \in Messages, NEW later \in Messages,
                      Kept(k)', history'[later].acked # Never,
                      history'[later].acked - history'[k].acked \in Second..Memory
               PROVE  OfAMessage'
    BY DEF NetPingMeasured, OfAMessage
<1>2. start' = start /\ elapsed' = elapsed /\ WindowInv'
    BY MoveWindow DEF UserMove, start
<1>3. /\ start \in Nat /\ elapsed \in Nat /\ estimate'.windowStart \in Int
      /\ history'[k].acked \in Never..elapsed /\ history'[later].acked \in Never..elapsed
    <2>1. estimate' \in EstimateType
        BY PacketEstimate DEF UserMove
    <2>2. estimate'.windowStart \in Int
        BY <2>1 DEF EstimateType, Clock
    <2> QED
        BY <2>2, FirstDays, AckedNow
<1>4. history'[later] = history[later] \/ history'[later].acked = elapsed
    BY <1>1, AckedNow
<1>5. CASE history'[later].acked = elapsed
    <2>1. /\ estimate'.windowStart > start + elapsed - Second
          /\ estimate'.windowStart <= start + elapsed
        BY <1>1, <1>2, <1>5 DEF WindowInv
    <2>2. ~(estimate'.windowStart <= start + history'[k].acked)
        BY <1>1, <1>3, <1>5, <2>1, PingsAssumption DEF Never
    <2>3. ~(estimate'.windowStart > start + history'[k].acked + Memory)
        BY <1>1, <1>3, <1>5, <2>1, PingsAssumption DEF Never
    <2> QED
        BY <1>1, <1>2, <2>2, <2>3 DEF WindowInv
<1>6. CASE history'[later].acked # elapsed
    <2>1. history'[k].acked # elapsed
        BY <1>1, <1>3, <1>6, PingsAssumption DEF Never
    <2>2. Kept(k) /\ history'[k] = history[k]
        BY <1>1, <2>1, MoveKept, KeepsFirst
    <2>3. OfAMessage
        BY <1>1, <1>4, <1>6, <2>2 DEF NetPingMeasured, OfAMessage
    <2> QED
        BY <2>3, MoveOfAMessage
<1> QED
    BY <1>5, <1>6

\* A ring full of later round trips holds more of them than fit in the window.
LEMMA RingHoldsWindow ==
    ASSUME TypeOK, HistoryInv, EstimateInv, InFirstDays, RingInv,
           NEW m \in Messages, UserMove(m),
           Cardinality(AckedBetween(elapsed - Memory, elapsed)') <= RttSamples,
           NEW k \in AckedBetween(elapsed - Memory, elapsed)', Kept(k)'
    PROVE  \E i \in Places : estimate'.rtt[i].message = k
<1>1. PICK W : W = AckedBetween(elapsed - Memory, elapsed)'
    OBVIOUS
<1>2. W = {j \in Messages : /\ history'[j].acked # Never
                            /\ history'[j].acked \in (elapsed - Memory)..elapsed
                            /\ Delay(j)' <= MaxRtt}
    BY <1>1 DEF AckedBetween, UserMove
<1>3. SUFFICES ASSUME ~\E i \in Places : estimate'.rtt[i].message = k
               PROVE  FALSE
    OBVIOUS
<1>4. k \in W /\ k \in Messages
    BY <1>1, <1>2
<1>5. ASSUME NEW i \in Places
      PROVE  estimate'.rtt[i].message \in W /\ estimate'.rtt[i].message > k
    <2>1. PICK j \in Messages : j = estimate'.rtt[i].message
        BY <1>3, <1>4, InRingOrLater
    <2>2. j > k /\ history'[j].acked # Never /\ history'[j].acked >= history'[k].acked
        BY <1>3, <1>4, <2>1, InRingOrLater
    <2>3. /\ history'[j].acked \in Never..elapsed /\ history'[j].acked \in Int
          /\ history'[k].acked \in Int
        BY <1>4, AckedNow
    <2>4. history'[j].acked \in (elapsed - Memory)..elapsed
        BY <1>2, <1>4, <2>2, <2>3, FirstDays, PingsAssumption DEF Never
    <2>5. Delay(j)' <= MaxRtt
        <3>1. Delay(j)' = estimate'.rtt[i].value
            BY <2>1, MoveRing DEF RingInv, Delay, Messages
        <3>2. estimate'.rtt[i].value \in 0..MaxRtt
            BY MoveType DEF TypeOK, EstimateType, Places
        <3> QED
            BY <3>1, <3>2
    <2> QED
        BY <1>2, <2>1, <2>2, <2>4, <2>5
<1>6. ASSUME NEW i \in Places, NEW j \in Places, i # j
      PROVE  estimate'.rtt[i].message # estimate'.rtt[j].message
    <2>1. PICK n \in Places : n = estimate'.rttIndex
        BY MoveType DEF TypeOK, EstimateType, Places
    <2>2. Older(i, j)' \/ Older(j, i)'
        BY <1>6, <2>1 DEF Older, Places
    <2>3. EstimateInv'
        BY MoveEstimateInv
    <2>4. \A x \in Places : estimate'.rtt[x].message \in Nat /\ estimate'.rtt[x].message # 0
        BY <1>2, <1>5 DEF Messages
    <2>5. estimate'.rtt[i].message < estimate'.rtt[j].message
          \/ estimate'.rtt[j].message < estimate'.rtt[i].message
        BY <2>2, <2>3, <2>4 DEF EstimateInv
    <2> QED
        BY <2>4, <2>5
<1>7. PICK f : f = [x \in 0..RttSamples |->
                        IF x = RttSamples THEN k ELSE estimate'.rtt[x].message]
    OBVIOUS
<1>8. RttSamples \in Nat
      /\ \A x \in 0..RttSamples : x = RttSamples \/ x \in Places
    BY PingsAssumption DEF Places
<1>9. f \in [0..RttSamples -> W]
    BY <1>4, <1>5, <1>7, <1>8
<1>10. ASSUME NEW x \in 0..RttSamples, NEW y \in 0..RttSamples, x # y PROVE f[x] # f[y]
    <2>1. CASE x \in Places /\ y \in Places
        <3>1. x # RttSamples /\ y # RttSamples
            BY <1>8, <2>1 DEF Places
        <3> QED
            BY <1>6, <1>7, <1>10, <2>1, <3>1
    <2>2. CASE x = RttSamples /\ y \in Places
        <3>1. y # RttSamples /\ estimate'.rtt[y].message > k
            BY <1>5, <1>8, <2>2 DEF Places
        <3> QED
            BY <1>4, <1>7, <2>2, <3>1 DEF Messages
    <2>3. CASE y = RttSamples /\ x \in Places
        <3>1. x # RttSamples /\ estimate'.rtt[x].message > k
            BY <1>5, <1>8, <2>3 DEF Places
        <3> QED
            BY <1>4, <1>7, <2>3, <3>1 DEF Messages
    <2> QED
        BY <1>8, <1>10, <2>1, <2>2, <2>3
<1>11. IsFiniteSet(W) /\ Cardinality(W) \in Nat
    BY <1>2, WindowFinite, PingsAssumption
<1>12. IsFiniteSet(0..RttSamples) /\ Cardinality(0..RttSamples) = RttSamples + 1
    BY <1>8, FS_Interval
<1>13. Cardinality(W) < Cardinality(0..RttSamples)
    BY <1>1, <1>8, <1>11, <1>12
<1> QED
    BY <1>9, <1>10, <1>11, <1>12, <1>13, FS_PigeonHole

LEMMA MoveSmallest ==
    ASSUME TypeOK, HistoryInv, EstimateInv, InFirstDays, RingInv, WindowInv,
           NEW m \in Messages, UserMove(m), NetPingIsSmallest
    PROVE  NetPingIsSmallest'
<1>1. start' = start /\ elapsed' = elapsed /\ start \in Nat /\ elapsed \in Nat
    BY FirstDays DEF UserMove, start
<1>2. CASE ~Ends
    <2>1. InFirstDays'
        BY <1>1 DEF InFirstDays, UserMove
    <2> QED
        BY <1>2, <2>1, MoveSteady, SteadySmallest
<1>3. CASE Ends
    <2>1. estimate'.windowStart - start' = elapsed
        BY <1>1, <1>3, WindowEnds
    <2>2. elapsed \in Clock
        BY <1>1, FirstDays, PingsAssumption DEF Clock
    <2>3. Signed(estimate'.windowStart - start') = elapsed
        BY <2>1, <2>2, SameOnClock
    <2> DEFINE W == AckedBetween(elapsed - Memory, elapsed)'
               B == {k \in W : Kept(k)' /\ history'[k].acked < elapsed}
               Q == RecentOf(RingAfter(m))
    <2>4. SUFFICES ASSUME Cardinality(W) <= RttSamples, B # {}
                   PROVE  /\ \A k \in B : estimate'.netPing <= Delay(k)'
                          /\ \E k \in W : estimate'.netPing = Delay(k)'
        BY <1>1, <2>3 DEF NetPingIsSmallest, Signed, AckedBetween
    <2>5. W = {j \in Messages : /\ history'[j].acked # Never
                                /\ history'[j].acked \in (elapsed - Memory)..elapsed
                                /\ Delay(j)' <= MaxRtt}
        BY <1>1 DEF AckedBetween
    <2>6. ASSUME NEW k \in B
          PROVE  \E i \in Q : estimate'.rtt[i].value = Delay(k)'
        <3>1. k \in W /\ Kept(k)' /\ k \in Messages /\ k # 0
              /\ history'[k].acked >= elapsed - Memory
            BY <1>1, <2>5, PingsAssumption DEF Messages
        <3>2. PICK i \in Places : estimate'.rtt[i].message = k
            BY <2>4, <3>1, RingHoldsWindow
        <3>3. i \in Q
            BY <3>1, <3>2, RecentRoundTrips
        <3>4. estimate'.rtt[i].value = Delay(k)'
            BY <3>2, <3>3, RecentRoundTrips DEF Delay
        <3> QED
            BY <3>3, <3>4
    <2>7. Q # {}
        BY <2>4, <2>6
    <2>8. \A k \in B : estimate'.netPing <= Delay(k)'
        BY <1>3, <2>6, <2>7, WindowEnds
    <2>9. \E k \in W : estimate'.netPing = Delay(k)'
        <3>1. PICK i \in Q : estimate'.netPing = estimate'.rtt[i].value
            BY <1>3, <2>7, WindowEnds
        <3>2. PICK k \in Messages : k = estimate'.rtt[i].message
            BY <3>1, RecentRoundTrips
        <3>3. /\ i \in Places /\ estimate'.rtt[i].value = Delay(k)'
              /\ history'[k].acked # Never /\ history'[k].acked >= elapsed - Memory
            BY <3>1, <3>2, RecentRoundTrips DEF Delay
        <3>4. estimate'.rtt[i].value \in 0..MaxRtt
            BY <3>3, MoveType DEF TypeOK, EstimateType, Places
        <3>5. history'[k].acked \in Never..elapsed /\ history'[k].acked \in Int
            BY AckedNow
        <3>6. history'[k].acked \in (elapsed - Memory)..elapsed
            BY <1>1, <3>3, <3>5, PingsAssumption DEF Never
        <3>7. k \in W
            BY <2>5, <3>3, <3>4, <3>6
        <3> QED
            BY <3>1, <3>3, <3>7
    <2> QED
        BY <2>8, <2>9
<1> QED
    BY <1>2, <1>3

LEMMA InitNetPing ==
    ASSUME Init, InFirstDays
    PROVE  RingInv /\ WindowInv /\ NetPingMeasured /\ NetPingIsSmallest
<1>1. \A k \in Messages : history[k].acked = Never
    BY DEF Init
<1>2. netStatus /\ start \in Nat /\ start > 0 /\ elapsed = 0
    BY FirstDays, TypeInit DEF Init
<1>3. \A k \in Messages : ~Kept(k)
    BY <1>1 DEF Kept, InTime
<1>4. /\ \A s \in Slots : estimate.sentSequence[s] = 0
      /\ \A i \in Places : estimate.rtt[i] = [time |-> 0, value |-> 0, message |-> 0]
      /\ estimate.windowStart = 0 /\ acknowledge = 0 /\ outgoing = 1
    BY DEF Init, NewEstimate, NoRtt, Places
<1>5. RingInv
    BY <1>2, <1>3, <1>4 DEF RingInv, Messages
<1>6. WindowInv
    BY <1>1, <1>2, <1>3, <1>4 DEF WindowInv
<1>7. NetPingMeasured
    BY <1>3 DEF NetPingMeasured
<1>8. NetPingIsSmallest
    BY <1>4 DEF NetPingIsSmallest
<1> QED
    BY <1>5, <1>6, <1>7, <1>8

\* Time, frames, settings and messages that are sent leave the net ping alone.
LEMMA SteadyNetPing ==
    ASSUME TypeOK, InFirstDays, InFirstDays', WindowInv, Steady,
           \A k \in Messages : history'[k].acked # Never => history'[k] = history[k],
           \A k \in Messages : Kept(k)' => Kept(k),
           NetPingMeasured, NetPingIsSmallest
    PROVE  WindowInv' /\ NetPingMeasured' /\ NetPingIsSmallest'
<1>1. /\ start' = start /\ start \in Nat /\ elapsed \in Nat /\ elapsed' >= elapsed
      /\ estimate'.windowStart = estimate.windowStart /\ estimate.windowStart \in Int
    <2>1. estimate \in EstimateType
        BY DEF TypeOK
    <2>2. estimate.windowStart \in Int
        BY <2>1 DEF EstimateType, Clock
    <2> QED
        BY <2>2, FirstDays DEF Steady, start
<1>2. /\ estimate'.windowStart = 0 \/ estimate'.windowStart >= start'
      /\ \A k \in Messages : history'[k].acked # Never =>
            estimate'.windowStart > start' + history'[k].acked - Second
    BY <1>1 DEF WindowInv
<1>3. estimate'.windowStart <= start' + elapsed'
    <2>1. estimate.windowStart <= start + elapsed /\ elapsed' \in Nat
        BY <1>1 DEF WindowInv, Steady
    <2> QED
        BY <1>1, <2>1
<1>4. WindowInv'
    BY <1>2, <1>3, SteadyWindow DEF WindowInv
<1>5. NetPingMeasured'
    <2>1. SUFFICES ASSUME NEW k \in Messages, NEW later \in Messages,
                          Kept(k)', history'[later].acked # Never,
                          history'[later].acked - history'[k].acked \in Second..Memory
                   PROVE  OfAMessage'
        BY DEF NetPingMeasured, OfAMessage
    <2>2. history'[k].acked # Never
        BY <2>1 DEF Kept, InTime
    <2>3. Kept(k) /\ history'[k] = history[k] /\ history'[later] = history[later]
        BY <2>1, <2>2
    <2>4. OfAMessage
        BY <2>1, <2>3 DEF NetPingMeasured, OfAMessage
    <2> QED
        BY <2>4, StillOfAMessage
<1>6. NetPingIsSmallest'
    BY SteadySmallest
<1> QED
    BY <1>4, <1>5, <1>6

LEMMA QuietNetPing ==
    ASSUME TypeOK, TypeOK', HistoryInv, Quiet, InFirstDays, InFirstDays',
           RingInv, WindowInv, NetPingMeasured, NetPingIsSmallest
    PROVE  RingInv' /\ WindowInv' /\ NetPingMeasured' /\ NetPingIsSmallest'
<1>1. /\ scenario' = scenario /\ elapsed' >= elapsed /\ outgoing' = outgoing
      /\ acknowledge' = acknowledge /\ estimate' = estimate /\ history' = history
      /\ start' = start
    BY DEF Quiet, start
<1>2. \A k \in Messages : Kept(k)' => Kept(k)
    BY <1>1 DEF Kept, InTime, Delay
<1>3. netStatus'
    <2>1. settings' \in scenario'.settings /\ \A s \in scenario'.settings : s[2]
        BY DEF InFirstDays, TypeOK
    <2>2. (settings')[2]
        BY <2>1
    <2> QED
        BY <2>2 DEF settings
<1>4. RingInv'
    <2>1. \A k \in Messages : Kept(k)' =>
            \/ \E i \in Places : estimate'.rtt[i].message = k
            \/ \A i \in Places : estimate'.rtt[i].message > k
        BY <1>1, <1>2 DEF RingInv
    <2> QED
        BY <1>1, <1>3, <2>1 DEF RingInv, Delay
<1>5. Steady
    <2>1. elapsed' \in Nat
        BY PingsAssumption DEF TypeOK
    <2> QED
        BY <1>1, <1>2, <2>1 DEF Steady
<1> QED
    BY <1>1, <1>2, <1>4, <1>5, SteadyNetPing

LEMMA SendNetPing ==
    ASSUME TypeOK, HistoryInv, EstimateInv, SendMessageToClient, InFirstDays, InFirstDays',
           RingInv, WindowInv, NetPingMeasured, NetPingIsSmallest
    PROVE  RingInv' /\ WindowInv' /\ NetPingMeasured' /\ NetPingIsSmallest'
<1>1. /\ scenario' = scenario /\ elapsed' = elapsed /\ elapsed \in Nat
      /\ history[outgoing].acked = Never /\ history'[outgoing].acked = Never
      /\ \A k \in Messages : k # outgoing => history'[k] = history[k]
    BY SendHistory, FirstDays DEF SendMessageToClient
<1>2. \A k \in Messages : history[k].acked # Never => history'[k] = history[k]
    BY <1>1
<1>3. \A k \in Messages : history'[k].acked # Never => history'[k] = history[k]
    BY <1>1
<1>4. \A k \in Messages : Kept(k)' => Kept(k) /\ history'[k] = history[k]
    BY SendKept
<1>5. Steady
    BY <1>1, <1>2, <1>3, <1>4, SendEstimate DEF Steady
<1> QED
    BY <1>3, <1>4, <1>5, SendRing, SteadyNetPing

LEMMA InvNext ==
    ASSUME Inv, [Next]_vars
    PROVE  Inv'
<1> DEFINE Net == RingInv /\ WindowInv /\ NetPingMeasured /\ NetPingIsSmallest
<1>1. TypeOK /\ HistoryInv /\ FramesInv /\ EstimateInv /\ (InFirstDays => Net)
    BY DEF Inv
<1>2. elapsed \in Nat
    BY <1>1, PingsAssumption DEF TypeOK
<1>3. CASE Tick \/ ServerFrame \/ Toggle \/ UNCHANGED vars
    <2>1. Quiet /\ TypeOK'
        BY <1>1, <1>3, QuietSteps
    <2>2. HistoryInv' /\ FramesInv' /\ EstimateInv'
        BY <1>1, <2>1, QuietHistory
    <2>3. InFirstDays' => InFirstDays
        <3>1. scenario' = scenario /\ elapsed' >= elapsed /\ elapsed' \in Nat
            BY <2>1, PingsAssumption DEF Quiet, TypeOK
        <3> QED
            BY <1>1, <3>1, StillFirstDays
    <2>4. InFirstDays' => Net'
        BY <1>1, <2>1, <2>3, QuietNetPing
    <2> QED
        BY <2>1, <2>2, <2>4 DEF Inv
<1>4. CASE SendMessageToClient
    <2>1. TypeOK' /\ HistoryInv' /\ FramesInv' /\ EstimateInv'
        BY <1>1, <1>4, SendType, SendHistoryInv, SendFrames, SendEstimateInv
    <2>2. InFirstDays' => InFirstDays
        BY <1>4 DEF SendMessageToClient, InFirstDays, start
    <2>3. InFirstDays' => Net'
        BY <1>1, <1>4, <2>2, SendNetPing
    <2> QED
        BY <2>1, <2>3 DEF Inv
<1>5. ASSUME NEW m \in Messages, UserMove(m) PROVE Inv'
    <2>1. TypeOK' /\ HistoryInv' /\ FramesInv' /\ EstimateInv'
        BY <1>1, <1>5, MoveType, MoveHistoryInv, MoveFrames, MoveEstimateInv
    <2>2. InFirstDays' => InFirstDays
        BY <1>5 DEF UserMove, InFirstDays, start
    <2>3. InFirstDays' => Net'
        BY <1>1, <1>5, <2>2, MoveRing, MoveWindow, MoveMeasured, MoveSmallest
    <2> QED
        BY <2>1, <2>3 DEF Inv
<1> QED
    BY <1>3, <1>4, <1>5 DEF Next

-----------------------------------------------------------------------------
(* The ping *)

\* A sequence of values, each made of the one before by a step.
Iterates(set, base, l, step) ==
    \E h \in [0..l -> set] : h[0] = base /\ \A n \in 1..l : h[n] = step[n][h[n - 1]]

LEMMA HasIterates ==
    ASSUME NEW set, NEW base, NEW l, NEW step,
           base \in set, l \in Nat, step \in [1..l -> [set -> set]]
    PROVE  Iterates(set, base, l, step)
BY Iterated DEF Iterates

\* The sum of the deltas is between as many times the bounds of one.
LEMMA TotalBetween ==
    ASSUME NEW lo \in Int, NEW hi \in Int,
           \A s \in Slots : Counted(frames[s]) /\ Delta(s) \in lo..hi
    PROVE  Total \in Int /\ Backup * lo <= Total /\ Total <= Backup * hi
<1> DEFINE Term(n) == IF Counted(frames[n - 1]) THEN Delta(n - 1) ELSE 0
           IsSum(f) == f = [n \in 0..Backup |-> IF n = 0 THEN 0 ELSE f[n - 1] + Term(n)]
           step == [n \in 1..Backup |-> [x \in Int |-> x + Term(n)]]
<1>1. Backup \in Nat \ {0}
    BY PingsAssumption
<1>2. \A n \in 1..Backup : Term(n) \in lo..hi
    <2>1. \A n \in 1..Backup : n - 1 \in Slots
        BY <1>1 DEF Slots
    <2> QED
        BY <2>1
<1>3. PICK term \in [1..Backup -> lo..hi] : \A n \in 1..Backup : term[n] = Term(n)
    <2>1. [n \in 1..Backup |-> Term(n)] \in [1..Backup -> lo..hi]
        BY <1>2
    <2> QED
        BY <2>1
<1> HIDE DEF Term
<1>4. PICK adds : adds = step
    OBVIOUS
<1> HIDE DEF step
<1>5. PICK h \in [0..Backup -> Int] :
            h[0] = 0 /\ \A n \in 1..Backup : h[n] = adds[n][h[n - 1]]
    <2>1. PICK numbers : numbers = Int
        OBVIOUS
    <2>2. PICK none : none = 0
        OBVIOUS
    <2>3. none \in numbers /\ Backup \in Nat
        BY <1>1, <2>1, <2>2
    <2>4. adds \in [1..Backup -> [numbers -> numbers]]
        BY <1>3, <1>4, <2>1 DEF step
    <2>5. Iterates(numbers, none, Backup, adds)
        BY <2>3, <2>4, HasIterates, Zenon
    <2> QED
        BY <2>1, <2>2, <2>5 DEF Iterates
<1>6. IsSum(h)
    <2>1. \A n \in 1..Backup : n \in 0..Backup /\ n - 1 \in 0..Backup
        BY <1>1
    <2>2. \A n \in 1..Backup : h[n] = h[n - 1] + Term(n)
        BY <1>4, <1>5, <2>1 DEF step
    <2>3. \A n \in 0..Backup : n = 0 \/ n \in 1..Backup
        BY <1>1
    <2> QED
        BY <1>5, <2>2, <2>3
<1>7. PICK f : IsSum(f) /\ Total = f[Backup]
    <2>1. Total = (CHOOSE f : IsSum(f))[Backup]
        BY DEF Total, Term
    <2>2. IsSum(CHOOSE f : IsSum(f))
        BY <1>6
    <2> QED
        BY <2>1, <2>2
<1>8. f[0] = 0 /\ \A n \in 1..Backup : f[n] = f[n - 1] + term[n]
    <2>1. 0 \in 0..Backup /\ \A n \in 1..Backup : n \in 0..Backup /\ n # 0
        BY <1>1
    <2> QED
        BY <1>3, <1>7, <2>1
<1> DEFINE Bounded(n) == f[n] \in Int /\ n * lo <= f[n] /\ f[n] <= n * hi
           All == {n \in Nat : n <= Backup => Bounded(n)}
<1>9. 0 \in All
    BY <1>8
<1>10. ASSUME NEW n \in Nat, Bounded(n), n + 1 <= Backup PROVE Bounded(n + 1)
    <2>1. n + 1 \in 1..Backup /\ (n + 1) - 1 = n
        BY <1>1, <1>10
    <2>2. PICK d \in lo..hi : d = term[n + 1]
        BY <1>3, <2>1
    <2>3. PICK x \in Int : x = f[n]
        BY <1>10
    <2>4. f[n + 1] = x + d
        BY <1>8, <2>1, <2>2, <2>3
    <2>5. PICK u \in Int, v \in Int : u = n * lo /\ v = n * hi
        BY SMT
    <2>6. (n + 1) * lo = u + lo /\ (n + 1) * hi = v + hi
        BY <2>5, SMT
    <2>7. u <= x /\ x <= v
        BY <1>10, <2>3, <2>5
    <2> QED
        BY <2>2, <2>3, <2>4, <2>6, <2>7
<1>11. Backup \in All
    <2> HIDE DEF Bounded
    <2>1. \A n \in Nat : n \in All => n + 1 \in All
        BY <1>1, <1>10
    <2> HIDE DEF All
    <2> QED
        BY <1>1, <1>9, <2>1, Induction
<1> QED
    BY <1>1, <1>7, <1>11

\* A slot that holds an acknowledgement of its own counts, and its delta is the delay
\* of its message.
OwnAndRead(s) == OwnReal(frames[s]) /\ AckedAt(frames[s].message) \notin {-1, 0}

LEMMA DeltaIsDelay ==
    ASSUME TypeOK, HistoryInv, FramesInv, NEW s \in Slots, OwnAndRead(s)
    PROVE  /\ Counted(frames[s]) /\ Delta(s) = Delay(frames[s].message)
           /\ Delay(frames[s].message) \in 0..elapsed
<1>1. PICK k : k = frames[s].message
    OBVIOUS
<1>2. frames[s] \in FrameType /\ elapsed \in Nat /\ elapsed < Half /\ start \in Int
    BY PingsAssumption DEF TypeOK, start, Clock
<1>3. /\ k # 0 /\ frames[s].of = k /\ frames[s].fix /\ frames[s].ackedFix
      /\ AckedAt(k) # -1 /\ AckedAt(k) # 0
    BY <1>1 DEF OwnAndRead, OwnReal
<1>4. k \in Messages
    BY <1>1, <1>2, <1>3, PingsAssumption DEF FrameType, Messages
<1>5. FrameInv(s)
    BY DEF FramesInv
<1>6. /\ frames[s].sent = SentAt(k) /\ frames[s].acked = AckedAt(k)
      /\ history[k].acked # Never
    BY <1>1, <1>3, <1>5 DEF FrameInv
<1>7. history[k] \in [sent : Never..elapsed, acked : Never..elapsed]
    BY <1>4 DEF TypeOK
<1>8. history[k].sent # Never /\ history[k].sent <= history[k].acked
    BY <1>4, <1>6 DEF HistoryInv
<1>9. PICK x \in 0..elapsed, y \in 0..elapsed :
            x = history[k].sent /\ y = history[k].acked /\ x <= y
    BY <1>2, <1>6, <1>7, <1>8 DEF Never
<1>10. PICK u \in Int, v \in Int : u = start + x /\ v = start + y /\ v - u = y - x
    BY <1>2, <1>9
<1>11. v - u \in Clock
    BY <1>2, <1>9, <1>10, PingsAssumption DEF Clock
<1>12. Signed(Signed(v) - Signed(u)) = v - u
    BY <1>10, <1>11, Difference
<1>13. Delta(s) = y - x /\ Delay(k) = y - x
    BY <1>6, <1>9, <1>10, <1>12 DEF Delta, SentAt, AckedAt, Delay
<1>14. Counted(frames[s])
    BY <1>3, <1>6 DEF Counted
<1>15. y - x \in 0..elapsed
    BY <1>2, <1>9
<1> QED
    BY <1>1, <1>13, <1>14, <1>15

\* The smallest and the largest of some numbers up to a bound.
LEMMA Extremes ==
    ASSUME NEW bound \in Nat, NEW V \in SUBSET (0..bound), V # {}
    PROVE  \E lo, hi \in V : \A x \in V : lo <= x /\ x <= hi
<1>1. V \in SUBSET Nat
    OBVIOUS
<1>2. PICK lo \in V : \A x \in V : lo <= x
    BY <1>1, LowestNumber
<1>3. PICK W : W = {bound - x : x \in V}
    OBVIOUS
<1>4. W \in SUBSET Nat /\ W # {}
    BY <1>3
<1>5. PICK w \in W : \A y \in W : w <= y
    BY <1>4, LowestNumber
<1>6. PICK hi \in V : w = bound - hi
    BY <1>3, <1>5
<1>7. ASSUME NEW x \in V PROVE x <= hi
    <2>1. w <= bound - x
        BY <1>3, <1>5
    <2> QED
        BY <1>6, <2>1
<1> QED
    BY <1>2, <1>7

LEMMA PingIsAmongDelays ==
    ASSUME TypeOK, HistoryInv, FramesInv
    PROVE  PingAmongDelays
<1> DEFINE delays == {Delay(frames[s].message) : s \in Slots}
<1> SUFFICES ASSUME pingFix, \A s \in Slots : OwnAndRead(s)
             PROVE  /\ Ping \in 1..MaxPing
                    /\ Ping < MaxPing => \E delay \in delays : delay <= Ping
                    /\ Ping > 1 => \E delay \in delays : Ping <= delay
    BY DEF PingAmongDelays, OwnAndRead, AckedAt
<1>1. elapsed \in Nat /\ Backup \in Nat \ {0} /\ MaxPing \in Nat \ {0} /\ 0 \in Slots
    BY PingsAssumption DEF TypeOK, Slots
<1>2. \A s \in Slots :
        /\ Counted(frames[s]) /\ Delta(s) = Delay(frames[s].message)
        /\ Delay(frames[s].message) \in 0..elapsed
    BY DeltaIsDelay
<1>3. delays \in SUBSET (0..elapsed) /\ delays # {}
    BY <1>1, <1>2
<1>4. PICK lo \in delays, hi \in delays : \A x \in delays : lo <= x /\ x <= hi
    BY <1>1, <1>3, Extremes
<1>5. lo \in Nat /\ hi \in Nat /\ \A s \in Slots : Counted(frames[s]) /\ Delta(s) \in lo..hi
    <2>1. \A s \in Slots : Delta(s) \in delays /\ Delta(s) \in 0..elapsed
        BY <1>2
    <2>2. lo \in 0..elapsed /\ hi \in 0..elapsed
        BY <1>3
    <2> QED
        BY <1>1, <1>2, <1>4, <2>1, <2>2
<1> HIDE DEF delays
<1>6. PICK total \in Int : total = Total /\ Backup * lo <= total /\ total <= Backup * hi
    BY <1>5, TotalBetween
<1>7. Samples = Slots /\ Cardinality(Slots) = Backup
    <2>1. Samples = Slots
        BY <1>5 DEF Samples
    <2>2. 0 \in Int /\ Backup - 1 \in Int
        BY <1>1
    <2>3. Cardinality(0..(Backup - 1)) = Backup
        BY <1>1, <2>2, FS_Interval
    <2> QED
        BY <2>1, <2>3 DEF Slots
<1>8. total \in Nat
    <2>1. Backup * lo \in Nat
        BY <1>1, <1>5, Multiple
    <2> QED
        BY <1>6, <2>1
<1>9. PICK q \in Nat, r \in 0..(Backup - 1) : q = total \div Backup /\ total = Backup * q + r
    BY <1>1, <1>8, Division
<1>10. PICK c \in Int : c = Backup * q
    BY <1>1, SMT
<1>11. lo <= q
    <2>1. lo > q => Backup * lo >= Backup * q + Backup
        BY <1>1, <1>5, Times
    <2>2. PICK a \in Int : a = Backup * lo
        BY <1>1, <1>5, SMT
    <2> QED
        BY <1>1, <1>5, <1>6, <1>9, <1>10, <2>1, <2>2
<1>12. q <= hi
    <2>1. q > hi => Backup * q >= Backup * hi + Backup
        BY <1>1, <1>5, Times
    <2>2. PICK a \in Int : a = Backup * hi
        BY <1>1, <1>5, SMT
    <2> QED
        BY <1>1, <1>5, <1>6, <1>9, <1>10, <2>1, <2>2
<1>13. Quotient(Total, Cardinality(Samples)) = q
    BY <1>6, <1>7, <1>8, <1>9 DEF Quotient
<1>14. Ping = IF q > MaxPing THEN MaxPing ELSE IF q < 1 THEN 1 ELSE q
    <2>1. Samples # {}
        BY <1>1, <1>7
    <2> QED
        BY <1>1, <1>13, <2>1 DEF Ping
<1> QED
    BY <1>1, <1>4, <1>5, <1>11, <1>12, <1>14

-----------------------------------------------------------------------------
(* The theorems of the pings *)

LEMMA PingsFollow ==
    ASSUME Inv
    PROVE  TypeOK /\ PingsAreDelays
<1>1. RttOfItsMessage
    <2>1. \A i \in Places : estimate.rtt[i].message # 0 =>
            estimate.rtt[i].value = Signed(estimate.rtt[i].time - SentAt(estimate.rtt[i].message))
        BY DEF Inv, EstimateInv
    <2>2. ASSUME NEW i \in Places, NEW j \in Places, estimate.rtt[i].message # 0,
                 estimate.rtt[j].message = estimate.rtt[i].message
          PROVE  j = i
        <3>1. Older(i, j) => estimate.rtt[i].message < estimate.rtt[j].message
            BY <2>2 DEF Inv, EstimateInv
        <3>2. Older(j, i) => estimate.rtt[j].message < estimate.rtt[i].message
            BY <2>2 DEF Inv, EstimateInv
        <3>3. estimate.rtt[i].message \in Nat /\ estimate.rttIndex \in Places
            <4>1. estimate \in EstimateType
                BY DEF Inv, TypeOK
            <4>2. /\ estimate.rttIndex \in Places
                  /\ estimate.rtt \in
                        [Places -> [time : Clock, value : 0..MaxRtt, message : 0..MaxMessages]]
                BY <4>1 DEF EstimateType, Places
            <4>3. estimate.rtt[i].message \in 0..MaxMessages
                BY <4>2
            <4> QED
                BY <4>2, <4>3
        <3>4. ~Older(i, j) /\ ~Older(j, i)
            BY <2>2, <3>1, <3>2, <3>3
        <3> QED
            BY <3>3, <3>4, PingsAssumption DEF Older, Places
    <2>3. DOMAIN estimate.rtt = Places
        BY DEF Inv, TypeOK, EstimateType, Places
    <2> QED
        BY <2>1, <2>2, <2>3 DEF RttOfItsMessage, SentAt
<1>2. NetPingMeasured /\ NetPingIsSmallest
    BY DEF Inv, NetPingMeasured, NetPingIsSmallest
<1>3. PingAmongDelays
    BY PingIsAmongDelays DEF Inv
<1> QED
    BY <1>1, <1>2, <1>3 DEF Inv, PingsAreDelays, NetPingAsDocumented

\* Whatever the clock reads when the client comes, the losses and the settings: what
\* a slot keeps is of the message it says, and the ring of round trips is in order
\* (SV_SendMessageToClient, SV_UserMove, PacketReceived).
THEOREM SlotsAreOfTheirMessages == Spec => []Inv
<1>1. Init => Inv
    BY TypeInit, HistoryInit, InitNetPing DEF Inv
<1>2. Inv /\ [Next]_vars => Inv'
    BY InvNext
<1> QED
    BY <1>1, <1>2, PTL DEF Spec

\* The variables of the pings, whatever follows whom.
THEOREM PingsTypeOK == Spec => []TypeOK
<1>1. Inv => TypeOK
    BY PingsFollow
<1> QED
    BY <1>1, SlotsAreOfTheirMessages, PTL

\* The ping is between the delays of the messages, the net ping is the smallest
\* round trip of the last seconds, for rings of any size (SV_CalcPings,
\* PacketReceived).
THEOREM PingsAreOfTheirMessages == Spec => []PingsAreDelays
<1>1. Inv => PingsAreDelays
    BY PingsFollow
<1> QED
    BY <1>1, SlotsAreOfTheirMessages, PTL

\* So they are where the pings are checked beside what else is shown of a client.
THEOREM PingsShownAreDelays == MCSpec => []PingsAreDelays
<1>1. MCInit => Init
    BY DEF MCInit
<1>2. [MCNext]_<<part, vars, timenudgeVars, clientTimeVars, netRatesVars, pagesVars>> =>
        [Next]_vars
    BY DEF MCNext
<1>3. MCSpec => Spec
    BY <1>1, <1>2, PTL DEF MCSpec, Spec
<1> QED
    BY <1>3, PingsAreOfTheirMessages, PTL

-----------------------------------------------------------------------------
(* The pages *)

LEMMA PagesConstantsHold ==
    /\ Chunk \in Nat \ {0} /\ Command \in Nat /\ Quotes \in Nat
    /\ LineLengths \subseteq Nat \ {0} /\ Chunk + Quotes <= Command
  BY PartsAssumption DEF P!PagesConstants

\* The lines end one after the other.
EndsOf(lines, ends) ==
    /\ ends \in [0..Len(lines) -> Nat]
    /\ ends[0] = 0
    /\ \A n \in 1..Len(lines) : ends[n] = ends[n - 1] + lines[n]
    /\ \A m, n \in 0..Len(lines) : m <= n => ends[m] <= ends[n]

Lines == Seq(Nat \ {0})

LEMMA EndsFollow ==
    ASSUME text \in Lines
    PROVE  EndsOf(text, P!Ends)
<1> DEFINE IsEnd(f) ==
              f = [n \in 0..Len(text) |-> IF n = 0 THEN 0 ELSE f[n - 1] + text[n]]
           step == [n \in 1..Len(text) |-> [x \in Nat |-> x + text[n]]]
<1>1. PICK l \in Nat : l = Len(text)
    BY DEF Lines
<1>2. \A n \in 1..l : text[n] \in Nat \ {0}
    BY <1>1 DEF Lines
<1>3. PICK adds : adds = step
    OBVIOUS
<1> HIDE DEF step
<1>4. PICK h \in [0..l -> Nat] : h[0] = 0 /\ \A n \in 1..l : h[n] = adds[n][h[n - 1]]
    <2>1. PICK numbers : numbers = Nat
        OBVIOUS
    <2>2. PICK none : none = 0
        OBVIOUS
    <2>3. none \in numbers /\ l \in Nat
        BY <1>1, <2>1, <2>2
    <2>4. adds \in [1..l -> [numbers -> numbers]]
        BY <1>1, <1>2, <1>3, <2>1 DEF step
    <2>5. Iterates(numbers, none, l, adds)
        BY <2>3, <2>4, HasIterates, Zenon
    <2> QED
        BY <2>1, <2>2, <2>5 DEF Iterates
<1>5. IsEnd(h)
    <2>1. \A n \in 1..l : n \in 0..l /\ n - 1 \in 0..l
        BY <1>1
    <2>2. \A n \in 1..l : h[n] = h[n - 1] + text[n]
        BY <1>1, <1>3, <1>4, <2>1 DEF step
    <2>3. \A n \in 0..l : n = 0 \/ n \in 1..l
        BY <1>1
    <2> QED
        BY <1>1, <1>4, <2>2, <2>3
<1>6. PICK f : IsEnd(f) /\ P!Ends = f
    <2>1. P!Ends = CHOOSE f : IsEnd(f)
        BY DEF P!Ends
    <2>2. IsEnd(CHOOSE f : IsEnd(f))
        BY <1>5
    <2> QED
        BY <2>1, <2>2
<1>7. /\ f = [n \in 0..l |-> f[n]] /\ f[0] = 0
      /\ \A n \in 1..l : f[n] = f[n - 1] + text[n]
    <2>1. 0 \in 0..l /\ \A n \in 1..l : n \in 0..l /\ n # 0
        BY <1>1
    <2> QED
        BY <1>1, <1>6, <2>1
<1> DEFINE Grows(n) == \A m \in 0..n : f[m] \in Nat /\ f[m] <= f[n]
           All == {n \in Nat : n <= l => Grows(n)}
<1>8. 0 \in All
    BY <1>7
<1>9. ASSUME NEW n \in Nat, Grows(n), n + 1 <= l PROVE Grows(n + 1)
    <2>1. n + 1 \in 1..l /\ (n + 1) - 1 = n
        BY <1>1, <1>9
    <2>2. PICK d \in Nat : d = text[n + 1]
        BY <1>2, <2>1
    <2>3. f[n + 1] = f[n] + d /\ f[n] \in Nat
        <3>1. n \in 0..n
            OBVIOUS
        <3> QED
            BY <1>7, <1>9, <2>1, <2>2, <3>1
    <2>4. f[n] <= f[n + 1]
        BY <2>3
    <2>5. ASSUME NEW m \in 0..(n + 1) PROVE f[m] \in Nat /\ f[m] <= f[n + 1]
        <3>1. CASE m = n + 1
            BY <2>3, <3>1
        <3>2. CASE m # n + 1
            <4>1. m \in 0..n
                BY <3>2
            <4>2. f[m] \in Nat /\ f[m] <= f[n]
                BY <1>9, <4>1
            <4> QED
                BY <2>3, <2>4, <4>2
        <3> QED
            BY <3>1, <3>2
    <2> QED
        BY <2>3, <2>5
<1>10. Nat \subseteq All
    <2> HIDE DEF Grows
    <2>1. \A n \in Nat : n \in All => n + 1 \in All
        BY <1>1, <1>9
    <2> HIDE DEF All
    <2> QED
        BY <1>8, <2>1, Induction
<1>11. \A n \in 0..l : Grows(n)
    BY <1>1, <1>10
<1>12. f \in [0..l -> Nat] /\ \A m, n \in 0..l : m <= n => f[m] <= f[n]
    <2>1. \A n \in 0..l : n \in 0..n
        BY <1>1
    <2>2. \A n \in 0..l : f[n] \in Nat
        BY <1>11, <2>1
    <2>3. \A m, n \in 0..l : m <= n => m \in 0..n
        BY <1>1
    <2> QED
        BY <1>7, <1>11, <2>2, <2>3
<1> QED
    BY <1>1, <1>6, <1>7, <1>12 DEF EndsOf

PageType == [from : Nat, to : Nat, newline : BOOLEAN, next : Nat]

\* What a page takes.
PageInv(page) ==
    /\ page \in PageType
    /\ page.from < page.to /\ page.to - page.from <= Chunk
    /\ page.newline => page.to - page.from < Chunk

\* No line is cut that a page could take.
CutsNoShortLine(lines, ends, to) ==
    \A l \in DOMAIN lines : lines[l] <= Chunk /\ to > ends[l - 1] => to >= ends[l]

\* The pages go on where the one before ended, to the end of the text at most; the
\* position is there, or behind a newline that was added at the end.
PagesInv ==
    /\ kind \in {"status", "config"} /\ text \in Lines
    /\ at \in Nat /\ pages \in Seq(PageType)
    /\ pages = <<>> => at = 0
    /\ pages # <<>> => /\ Len(pages) # 0
                       /\ pages[Len(pages)].to <= P!Length
                       /\ \/ at = pages[Len(pages)].to
                          \/ pages[Len(pages)].to = P!Length /\ at > P!Length
    /\ \A n \in 1..Len(pages) :
          /\ PageInv(pages[n])
          /\ pages[n].from = IF n = 1 THEN 0 ELSE pages[n - 1].to
          /\ kind = "config" => CutsNoShortLine(text, P!Ends, pages[n].to)

\* What a page is, of either kind.
LEMMA StatusPageFollows ==
    ASSUME at \in Nat, P!Length \in Nat, at < P!Length
    PROVE  LET page == P!StatusPage IN
           /\ PageInv(page) /\ page.from = at /\ page.to <= P!Length /\ page.next \in Nat
           /\ page.next = page.to \/ (page.to = P!Length /\ page.next > P!Length)
<1>1. Chunk \in Nat \ {0}
    BY PagesConstantsHold
<1>2. PICK to \in Nat : /\ to = P!Least(at + Chunk, P!Length)
                        /\ at < to /\ to - at <= Chunk /\ to <= P!Length
                        /\ (to - at < Chunk => to = P!Length)
    BY <1>1 DEF P!Least
<1>3. PICK page : page = P!StatusPage
    OBVIOUS
<1>4. CASE to - at < Chunk
    <2>1. page = [from |-> at, to |-> to, newline |-> TRUE, next |-> to + 1]
        BY <1>2, <1>3, <1>4 DEF P!StatusPage
    <2> QED
        BY <1>2, <1>3, <1>4, <2>1 DEF PageInv, PageType
<1>5. CASE ~(to - at < Chunk)
    <2>1. page = [from |-> at, to |-> to, newline |-> FALSE, next |-> to]
        <3>1. (to - at < Chunk) = FALSE
            BY <1>5
        <3>2. page = [from |-> at, to |-> to, newline |-> (to - at < Chunk),
                      next |-> IF to - at < Chunk THEN to + 1 ELSE to]
            BY <1>2, <1>3, Zenon DEF P!StatusPage
        <3> QED
            BY <3>1, <3>2, Zenon
    <2>2. page \in PageType
        BY <1>2, <2>1 DEF PageType
    <2>3. page.from = at /\ page.to = to /\ page.next = to /\ ~page.newline
        BY <2>1
    <2> QED
        BY <1>2, <1>3, <2>2, <2>3 DEF PageInv
<1> QED
    BY <1>4, <1>5

LEMMA ConfigPageFollows ==
    ASSUME text \in Lines, at \in Nat, at < P!Length
    PROVE  LET page == P!ConfigPage IN
           /\ PageInv(page) /\ page.from = at /\ page.to <= P!Length
           /\ page.next = page.to /\ CutsNoShortLine(text, P!Ends, page.to)
<1>1. Chunk \in Nat \ {0}
    BY PagesConstantsHold
<1>2. PICK l \in Nat : l = Len(text) /\ DOMAIN text = 1..l
    BY DEF Lines
<1>3. PICK e : e = P!Ends /\ EndsOf(text, e)
    BY EndsFollow
<1>4. /\ \A n \in 0..l : e[n] \in Nat
      /\ e[0] = 0 /\ \A n \in 1..l : e[n] = e[n - 1] + text[n]
      /\ \A m, n \in 0..l : m <= n => e[m] <= e[n]
    BY <1>2, <1>3 DEF EndsOf
<1>5. \A n \in 1..l : text[n] \in Nat \ {0} /\ n \in 0..l /\ n - 1 \in 0..l
    BY <1>2 DEF Lines
<1>6. P!Length = e[l] /\ e[l] \in Nat /\ l \in 1..l
    <2>1. P!Length = e[l]
        BY <1>2, <1>3 DEF P!Length
    <2>2. l # 0
        BY <1>4, <2>1
    <2> QED
        BY <1>2, <1>4, <2>1, <2>2
<1>7. PICK whole : whole = {x \in {e[n] : n \in 1..l} : x > at /\ x - at <= Chunk}
    OBVIOUS
<1>8. PICK to : to = IF whole # {} THEN P!Max(whole) ELSE at + Chunk
    OBVIOUS
<1>9. P!ConfigPage = [from |-> at, to |-> to, newline |-> FALSE, next |-> to]
    BY <1>2, <1>3, <1>7, <1>8 DEF P!ConfigPage
<1>10. CASE whole # {}
    <2>1. PICK bound \in Nat : bound = at + Chunk
        BY <1>1
    <2>2. whole \in SUBSET (0..bound)
        <3>1. ASSUME NEW x \in whole PROVE x \in 0..bound
            <4>1. PICK n \in 1..l : x = e[n] /\ x > at /\ x - at <= Chunk
                BY <1>7
            <4>2. x \in Nat
                BY <1>4, <1>5, <4>1
            <4> QED
                BY <1>1, <2>1, <4>1, <4>2
        <3> QED
            BY <3>1
    <2>3. \E lo, hi \in whole : \A x \in whole : lo <= x /\ x <= hi
        BY <1>10, <2>1, <2>2, Extremes
    <2>4. PICK hi \in whole : \A x \in whole : hi >= x
        BY <2>2, <2>3
    <2>5. to \in whole
        BY <1>8, <1>10, <2>4 DEF P!Max
    <2>6. PICK n \in 1..l : to = e[n] /\ to > at /\ to - at <= Chunk
        BY <1>7, <2>5
    <2>7. to \in Nat /\ to <= P!Length
        BY <1>4, <1>5, <1>6, <2>6
    <2>8. ASSUME NEW i \in 1..l, to > e[i - 1] PROVE to >= e[i]
        <3>1. i - 1 \in 0..l /\ n \in 0..l /\ i \in 0..l
            BY <1>5
        <3>2. ~(n <= i - 1)
            <4>1. n <= i - 1 => e[n] <= e[i - 1]
                BY <1>4, <3>1
            <4> QED
                BY <1>4, <2>6, <2>8, <3>1, <4>1
        <3>3. i <= n
            BY <1>2, <3>2
        <3>4. e[i] <= e[n]
            BY <1>4, <3>1, <3>3
        <3> QED
            BY <1>4, <2>6, <3>1, <3>4
    <2>9. CutsNoShortLine(text, P!Ends, to)
        BY <1>2, <1>3, <2>8 DEF CutsNoShortLine
    <2> QED
        BY <1>1, <1>9, <2>6, <2>7, <2>9 DEF PageInv, PageType
<1>11. CASE whole = {}
    <2>1. to \in Nat /\ to = at + Chunk
        BY <1>1, <1>8, <1>11
    <2>2. \A n \in 1..l : e[n] > at => e[n] > to
        <3>1. ASSUME NEW n \in 1..l, e[n] > at PROVE e[n] > to
            <4>1. e[n] \in Nat /\ ~(e[n] - at <= Chunk)
                BY <1>4, <1>5, <1>7, <1>11, <3>1
            <4> QED
                BY <1>1, <2>1, <4>1
        <3> QED
            BY <3>1
    <2>3. to <= P!Length
        BY <1>6, <2>1, <2>2
    <2>4. ASSUME NEW i \in 1..l, text[i] <= Chunk, to > e[i - 1] PROVE to >= e[i]
        <3>1. e[i] \in Nat /\ e[i - 1] \in Nat /\ e[i] = e[i - 1] + text[i]
              /\ text[i] \in Nat
            BY <1>4, <1>5
        <3>2. CASE i = 1
            <4>1. e[i - 1] = 0
                BY <1>4, <3>2
            <4> QED
                BY <1>1, <2>1, <2>4, <3>1, <4>1
        <3>3. CASE i # 1
            <4>1. i - 1 \in 1..l
                BY <3>3
            <4>2. e[i - 1] <= at
                BY <2>1, <2>2, <2>4, <3>1, <4>1
            <4> QED
                BY <1>1, <2>1, <2>4, <3>1, <4>2
        <3> QED
            BY <3>2, <3>3
    <2>5. CutsNoShortLine(text, P!Ends, to)
        BY <1>2, <1>3, <2>4 DEF CutsNoShortLine
    <2> QED
        BY <1>1, <1>9, <2>1, <2>3, <2>5 DEF PageInv, PageType
<1> QED
    BY <1>10, <1>11

LEMMA PagesInit ==
    ASSUME P!Init
    PROVE  PagesInv
<1>1. kind \in {"status", "config"} /\ text = <<>> /\ at = 0 /\ pages = <<>>
    BY DEF P!Init
<1>2. text \in Lines /\ pages \in Seq(PageType) /\ Len(pages) = 0
    BY <1>1 DEF Lines
<1>3. \A n : ~(n \in 1..Len(pages))
    BY <1>2
<1> QED
    BY <1>1, <1>2, <1>3 DEF PagesInv

LEMMA WriteLinePages ==
    ASSUME PagesInv, NEW length \in LineLengths, P!WriteLine(length)
    PROVE  PagesInv'
<1>1. pages = <<>> /\ pages' = pages /\ kind' = kind /\ at' = at
    BY DEF P!WriteLine
<1>2. Len(pages) = 0 /\ \A n : ~(n \in 1..Len(pages))
    BY <1>1
<1>3. text' \in Lines
    <2>1. length \in Nat \ {0} /\ text \in Lines
        BY PagesConstantsHold DEF PagesInv
    <2>2. text' = text \/ text' = Append(text, length)
        BY DEF P!WriteLine
    <2> QED
        BY <2>1, <2>2 DEF Lines
<1> QED
    BY <1>1, <1>2, <1>3 DEF PagesInv

LEMMA PagePages ==
    ASSUME PagesInv, P!Page
    PROVE  PagesInv'
<1>1. PICK page : page = IF kind = "status" THEN P!StatusPage ELSE P!ConfigPage
    OBVIOUS
<1>2. /\ at < P!Length /\ pages' = Append(pages, page) /\ at' = page.next
      /\ kind' = kind /\ text' = text
    BY <1>1 DEF P!Page
<1>3. P!Length' = P!Length /\ P!Ends' = P!Ends
    BY <1>2 DEF P!Length, P!Ends
<1>4. P!Length \in Nat
    <2>1. EndsOf(text, P!Ends) /\ Len(text) \in Nat
        BY EndsFollow DEF PagesInv, Lines
    <2> QED
        BY <2>1 DEF EndsOf, P!Length
<1>5. /\ PageInv(page) /\ page.from = at /\ page.to <= P!Length /\ page.next \in Nat
      /\ page.next = page.to \/ (page.to = P!Length /\ page.next > P!Length)
      /\ kind = "config" => CutsNoShortLine(text, P!Ends, page.to)
    <2>1. CASE kind = "status"
        BY <1>1, <1>2, <1>4, <2>1, StatusPageFollows DEF PagesInv
    <2>2. CASE kind = "config"
        BY <1>1, <1>2, <2>2, ConfigPageFollows DEF PagesInv, PageInv, PageType
    <2> QED
        BY <2>1, <2>2 DEF PagesInv
<1>6. PICK l \in Nat : l = Len(pages) /\ DOMAIN pages = 1..l
    BY DEF PagesInv
<1>7. /\ pages' \in Seq(PageType) /\ Len(pages') = l + 1 /\ pages'[l + 1] = page
      /\ \A n \in 1..l : pages'[n] = pages[n]
    <2>1. pages \in Seq(PageType) /\ page \in PageType
        BY <1>5 DEF PagesInv, PageInv
    <2> QED
        BY <1>2, <1>6, <2>1
<1>8. page.from = IF l = 0 THEN 0 ELSE pages[l].to
    <2>1. CASE l = 0
        BY <1>5, <1>6, <2>1 DEF PagesInv
    <2>2. CASE l # 0
        BY <1>2, <1>4, <1>5, <1>6, <2>2 DEF PagesInv
    <2> QED
        BY <2>1, <2>2
<1>9. ASSUME NEW n \in 1..(l + 1)
      PROVE  /\ PageInv(pages'[n])
             /\ pages'[n].from = IF n = 1 THEN 0 ELSE pages'[n - 1].to
             /\ kind = "config" => CutsNoShortLine(text, P!Ends, pages'[n].to)
    <2>1. CASE n = l + 1
        <3>1. l # 0 => pages'[l] = pages[l] /\ (l + 1) - 1 = l /\ l + 1 # 1
            BY <1>6, <1>7
        <3>2. l = 0 => l + 1 = 1
            OBVIOUS
        <3> QED
            BY <1>5, <1>7, <1>8, <2>1, <3>1, <3>2
    <2>2. CASE n # l + 1
        <3>1. n \in 1..l /\ (n # 1 => n - 1 \in 1..l)
            BY <1>6, <2>2
        <3>2. pages'[n] = pages[n] /\ (n # 1 => pages'[n - 1] = pages[n - 1])
            BY <1>7, <3>1
        <3>3. /\ PageInv(pages[n])
              /\ pages[n].from = IF n = 1 THEN 0 ELSE pages[n - 1].to
              /\ kind = "config" => CutsNoShortLine(text, P!Ends, pages[n].to)
            BY <1>6, <3>1 DEF PagesInv
        <3> QED
            BY <3>2, <3>3
    <2> QED
        BY <2>1, <2>2
<1>10. \A n \in 1..(l + 1) :
            /\ PageInv(pages'[n])
            /\ pages'[n].from = IF n = 1 THEN 0 ELSE pages'[n - 1].to
            /\ kind' = "config" => CutsNoShortLine(text', P!Ends', pages'[n].to)
    BY <1>2, <1>3, <1>9
<1>11. at' \in Nat /\ pages' # <<>> /\ l + 1 # 0 /\ pages'[l + 1].to <= P!Length
       /\ (\/ at' = pages'[l + 1].to
           \/ pages'[l + 1].to = P!Length /\ at' > P!Length)
    BY <1>2, <1>5, <1>6, <1>7
<1> QED
    BY <1>2, <1>3, <1>7, <1>10, <1>11 DEF PagesInv

LEMMA PagesFollow ==
    ASSUME PagesInv
    PROVE  EveryCharacterOnce
<1>1. PICK l \in Nat : l = Len(pages) /\ DOMAIN pages = 1..l
    BY DEF PagesInv
<1>2. ASSUME NEW n \in 1..l
      PROVE  /\ pages[n].from = (IF n = 1 THEN 0 ELSE pages[n - 1].to)
             /\ pages[n].to > pages[n].from
             /\ pages[n].to - pages[n].from + (IF pages[n].newline THEN 1 ELSE 0) + Quotes
                    <= Command
             /\ kind = "config" => \A i \in DOMAIN text :
                    text[i] <= Chunk /\ pages[n].to > P!Ends[i - 1] => pages[n].to >= P!Ends[i]
    <2>1. PICK page : page = pages[n]
        OBVIOUS
    <2>2. /\ PageInv(page)
          /\ page.from = (IF n = 1 THEN 0 ELSE pages[n - 1].to)
          /\ kind = "config" => CutsNoShortLine(text, P!Ends, page.to)
        BY <1>1, <2>1 DEF PagesInv
    <2>3. page.to > page.from
          /\ page.to - page.from + (IF page.newline THEN 1 ELSE 0) + Quotes <= Command
        <3>1. PICK x \in Nat, y \in Nat : x = page.from /\ y = page.to /\ x < y
                    /\ y - x <= Chunk /\ (page.newline => y - x < Chunk)
            BY <2>2 DEF PageInv, PageType
        <3> QED
            BY <3>1, PagesConstantsHold
    <2> QED
        BY <2>1, <2>2, <2>3 DEF CutsNoShortLine
<1>3. pages # <<>> /\ at >= P!Length => P!Last(pages).to = P!Length
    <2>1. SUFFICES ASSUME pages # <<>>, at >= P!Length
                   PROVE  pages[Len(pages)].to = P!Length
        BY DEF P!Last
    <2>2. /\ pages[Len(pages)].to <= P!Length
          /\ \/ at = pages[Len(pages)].to
             \/ pages[Len(pages)].to = P!Length /\ at > P!Length
        BY <2>1 DEF PagesInv
    <2>3. P!Length \in Nat
        <3>1. EndsOf(text, P!Ends) /\ Len(text) \in Nat
            BY EndsFollow DEF PagesInv, Lines
        <3> QED
            BY <3>1 DEF EndsOf, P!Length
    <2>4. at \in Nat
        BY DEF PagesInv
    <2> QED
        BY <2>1, <2>2, <2>3, <2>4
<1> QED
    BY <1>1, <1>2, <1>3 DEF EveryCharacterOnce, P!EveryCharacterOnce

\* Whatever the lines, a page and a buffer are: the client receives every character
\* of the text once, in commands that are not too long (NetStatus, PrintToClient).
THEOREM TextsArriveWhole == MCSpec => []EveryCharacterOnce
<1>1. MCInit => PagesInv
    BY PagesInit DEF MCInit
<1>2. PagesInv /\ [MCNext]_<<part, vars, timenudgeVars, clientTimeVars, netRatesVars, pagesVars>>
        => PagesInv'
    <2> SUFFICES ASSUME PagesInv,
                        [MCNext]_<<part, vars, timenudgeVars, clientTimeVars, netRatesVars,
                                   pagesVars>>
                 PROVE  PagesInv'
        OBVIOUS
    <2>1. CASE UNCHANGED pagesVars
        <3>1. kind' = kind /\ text' = text /\ at' = at /\ pages' = pages
            BY <2>1 DEF pagesVars
        <3>2. P!Length' = P!Length /\ P!Ends' = P!Ends
            BY <3>1 DEF P!Length, P!Ends
        <3> QED
            BY <3>1, <3>2 DEF PagesInv
    <2>2. CASE P!Next
        BY <2>2, WriteLinePages, PagePages DEF P!Next
    <2> QED
        BY <2>1, <2>2 DEF MCNext
<1>3. PagesInv => EveryCharacterOnce
    BY PagesFollow
<1> QED
    BY <1>1, <1>2, <1>3, PTL DEF MCSpec

-----------------------------------------------------------------------------
(* The simulated client *)

\* The delta of a client stays between 6 ms more than the interval and 5 ms behind
\* the time of the server: it only moves back after an extrapolation, which takes a
\* delta that is not that far behind, and forward without one, which takes one that
\* is further than 5 ms.
ClientInv ==
    /\ input.interval \in 1..94 /\ input.frameMs \in Nat
    /\ phase \in Nat
    /\ realtime \in Nat /\ snapshots \in Nat /\ clServerTime \in Int
    /\ serverTimeDelta \in (-input.interval - 6)..(-5)
    /\ extrapolated => serverTimeDelta >= -input.interval - 4
    /\ ~extrapolated => serverTimeDelta <= -6
    /\ clServerTime <= realtime
    /\ snapshots > 0 => realtime - clServerTime <= input.interval + input.frameMs + 6

LEMMA ClientConstantsHold ==
    /\ Phases \in Nat \ {0} /\ WarmSnapshots \in Nat
    /\ \A i \in Inputs : ~S!TooLong(i.interval) => i.interval \in 1..94 /\ i.frameMs \in Nat
<1>1. /\ Inputs \subseteq [interval : Nat \ {0}, frameMs : 1..100, framesPerPacket : Nat \ {0}]
      /\ Phases \in Nat \ {0} /\ WarmSnapshots \in Nat
    BY PartsAssumption DEF S!ClientTimeConstants
<1>2. ASSUME NEW i \in Inputs, ~S!TooLong(i.interval)
      PROVE  i.interval \in 1..94 /\ i.frameMs \in Nat
    <2>1. i.interval \in Nat \ {0} /\ i.frameMs \in 1..100
        BY <1>1
    <2> QED
        BY <1>2, <2>1 DEF S!TooLong
<1> QED
    BY <1>1, <1>2

LEMMA ClientInit ==
    ASSUME S!Init
    PROVE  ClientInv
<1>1. input \in Inputs /\ ~S!TooLong(input.interval)
    BY DEF S!Init
<1>2. input.interval \in 1..94 /\ input.frameMs \in Nat
    BY <1>1, ClientConstantsHold
<1>3. /\ phase = 0 /\ realtime = 0 /\ snapshots = 0 /\ clServerTime = 0
      /\ serverTimeDelta = -input.interval - 5 /\ ~extrapolated
    BY DEF S!Init
<1> QED
    BY <1>2, <1>3 DEF ClientInv

\* The time since the newest snapshot is less than an interval.
LEMMA SinceSnapshot ==
    ASSUME ClientInv
    PROVE  /\ \E since \in 0..(input.interval - 1) : S!SnapTime = realtime - since
           /\ S!Arrived \in Nat \ {0} /\ S!SnapTime \in Int
<1>1. PICK p \in 1..94 : p = input.interval
    BY DEF ClientInv
<1>2. p \in Nat \ {0} /\ realtime \in Nat
    BY DEF ClientInv
<1>3. PICK q \in Nat, since \in 0..(p - 1) : q = realtime \div p /\ realtime = p * q + since
    BY <1>2, Division
<1>4. S!Arrived = q + 1 /\ S!SnapTime = q * p
    BY <1>1, <1>3 DEF S!SnapTime, S!Arrived
<1>5. PICK x \in Nat : x = p * q /\ x = q * p
    BY <1>2, Multiple
<1> QED
    BY <1>1, <1>2, <1>3, <1>4, <1>5

\* So a client never moves its time by halves.
LEMMA CloseToServer ==
    ASSUME ClientInv
    PROVE  S!DeltaDelta \in 0..100
<1>1. PICK since \in 0..(input.interval - 1) : S!SnapTime = realtime - since
    BY SinceSnapshot
<1>2. input.interval \in 1..94 /\ realtime \in Nat
      /\ serverTimeDelta \in (-input.interval - 6)..(-5)
    BY DEF ClientInv
<1>3. S!NewDelta = -since
    BY <1>1, <1>2 DEF S!NewDelta
<1> QED
    BY <1>1, <1>2, <1>3 DEF S!DeltaDelta, S!Abs

LEMMA ClientFrame ==
    ASSUME ClientInv, S!Frame
    PROVE  ClientInv'
<1>1. /\ input' = input /\ realtime' = realtime + input.frameMs /\ snapshots' = S!Arrived
      /\ phase' = phase /\ phase \in Nat
    BY DEF S!Frame, ClientInv
<1>2. PICK since \in 0..(input.interval - 1) : S!SnapTime = realtime - since
    BY SinceSnapshot
<1>3. /\ input.interval \in 1..94 /\ input.frameMs \in Nat /\ realtime \in Nat
      /\ clServerTime \in Int /\ clServerTime <= realtime
      /\ serverTimeDelta \in (-input.interval - 6)..(-5)
      /\ extrapolated => serverTimeDelta >= -input.interval - 4
      /\ ~extrapolated => serverTimeDelta <= -6
    BY DEF ClientInv
<1>4. PICK delta : delta = IF S!NewSnapshot THEN S!AdjustTimeDelta ELSE serverTimeDelta
    OBVIOUS
<1>5. /\ serverTimeDelta' = delta
      /\ extrapolated' = (S!Extrapolates(delta)
                            \/ (extrapolated /\ ~(S!NewSnapshot /\ S!DeltaDelta <= 100)))
      /\ clServerTime' = S!Later(clServerTime, realtime + delta)
    BY <1>4 DEF S!Frame
<1>6. S!DeltaDelta \in 0..100
    BY CloseToServer
<1>7. S!AdjustTimeDelta = IF extrapolated THEN serverTimeDelta - 2 ELSE serverTimeDelta + 1
    BY <1>6 DEF S!AdjustTimeDelta
<1>8. delta \in (-input.interval - 6)..(-5)
    <2>1. CASE S!NewSnapshot /\ extrapolated
        BY <1>3, <1>4, <1>7, <2>1
    <2>2. CASE S!NewSnapshot /\ ~extrapolated
        BY <1>3, <1>4, <1>7, <2>2
    <2>3. CASE ~S!NewSnapshot
        BY <1>3, <1>4, <2>3
    <2> QED
        BY <2>1, <2>2, <2>3
<1>9. S!Extrapolates(delta) <=> delta >= -since - 5
    BY <1>2, <1>3, <1>8 DEF S!Extrapolates
<1>10. extrapolated' => delta >= -input.interval - 4
    <2>1. CASE S!Extrapolates(delta)
        BY <1>2, <1>3, <1>8, <1>9, <2>1
    <2>2. CASE ~S!Extrapolates(delta)
        <3>1. extrapolated' => extrapolated /\ ~(S!NewSnapshot /\ S!DeltaDelta <= 100)
            BY <1>5, <2>2, Zenon
        <3>2. S!DeltaDelta <= 100
            BY <1>6
        <3>3. extrapolated' => extrapolated /\ ~S!NewSnapshot
            BY <3>1, <3>2, Zenon
        <3>4. extrapolated /\ ~S!NewSnapshot => delta = serverTimeDelta
            BY <1>4
        <3> QED
            BY <1>3, <3>3, <3>4
    <2> QED
        BY <2>1, <2>2
<1>11. ~extrapolated' => delta <= -6
    <2>1. ~extrapolated' => ~S!Extrapolates(delta)
        BY <1>5, Zenon
    <2> QED
        BY <1>2, <1>3, <1>8, <1>9, <2>1
<1>12. /\ clServerTime' \in Int /\ clServerTime' <= realtime
       /\ clServerTime' >= realtime + delta
    BY <1>3, <1>5, <1>8 DEF S!Later
<1>13. S!Arrived \in Nat
    BY SinceSnapshot
<1> QED
    BY <1>1, <1>3, <1>5, <1>8, <1>10, <1>11, <1>12, <1>13 DEF ClientInv

LEMMA Product ==
    ASSUME NEW m \in Nat, NEW f \in Nat
    PROVE  (m + 1) * f \in Nat
<1>1. m + 1 \in Nat \ {0}
    OBVIOUS
<1> QED
    BY <1>1, Multiple

LEMMA ClientPhase ==
    ASSUME ClientInv, S!NextPhase
    PROVE  ClientInv'
<1>1. /\ input' = input /\ snapshots' = 0 /\ clServerTime' = 0
      /\ serverTimeDelta' = -input.interval - 5 /\ ~extrapolated'
      /\ realtime' = ((phase + 1) * input.frameMs) \div Phases
      /\ phase' = phase + 1
    BY DEF S!NextPhase
<1>2. input.interval \in 1..94 /\ input.frameMs \in Nat /\ phase \in Nat
    BY DEF ClientInv
<1>3. PICK x \in Nat : x = (phase + 1) * input.frameMs
    BY <1>2, Product
<1>4. realtime' \in Nat
    BY <1>1, <1>3, ClientConstantsHold, Division
<1> QED
    BY <1>1, <1>2, <1>4 DEF ClientInv

LEMMA ClientFollows ==
    ASSUME ClientInv
    PROVE  S!SettlesAsAClient
<1>1. S!NeverByHalves
    BY CloseToServer DEF S!NeverByHalves
<1>2. S!NearItsBalance
    BY ClientConstantsHold DEF ClientInv, S!NearItsBalance
<1> QED
    BY <1>1, <1>2 DEF S!SettlesAsAClient

-----------------------------------------------------------------------------
(* The timenudge *)

NextIndex(i) == IF i = 2 THEN 0 ELSE i + 1

MedianType == [history : [0..2 -> Int], index : 0..2, filled : BOOLEAN]

\* The history holds the last estimates: from its start, or around the index.
MedianInv ==
    LET n == Len(estimated)
        i == median.index
        h == median.history
    IN  /\ estimated \in Seq(Int) /\ median \in MedianType
        /\ ~median.filled => /\ i = n
                             /\ \A k \in 1..n : h[k - 1] = estimated[k]
        /\ median.filled => /\ 3 <= n
                            /\ h[i] = estimated[n - 2]
                            /\ h[NextIndex(i)] = estimated[n - 1]
                            /\ h[NextIndex(NextIndex(i))] = estimated[n]

\* What is shown is of it.
ShownInv ==
    /\ "known" \in DOMAIN shown
    /\ shown.known =>
          /\ Len(estimated) > 0
          /\ shown.timenudge = IF median.filled
                               THEN T!Median3(median.history[0], median.history[1],
                                              median.history[2])
                               ELSE estimated[Len(estimated)]

SamplesInv ==
    /\ window.delays \in Nat /\ window.lags \in Nat
    /\ window.lags <= window.delays /\ window.delays <= WindowSamples
    /\ DOMAIN window = {"delays", "lags", "start"}

TimenudgeInv == MedianInv /\ ShownInv /\ SamplesInv

LEMMA TimenudgeConstantsHold ==
    Estimates \subseteq Int /\ WindowSamples \in Nat \ {0}
  BY PartsAssumption DEF T!TimenudgeConstants

LEMMA TimenudgeInit ==
    ASSUME T!Init
    PROVE  TimenudgeInv
<1>1. /\ median = [history |-> [i \in 0..2 |-> 0], index |-> 0, filled |-> FALSE]
      /\ estimated = <<>> /\ shown = [timenudge |-> 0, known |-> FALSE]
      /\ window = [delays |-> 0, lags |-> 0, start |-> 0]
    BY DEF T!Init, T!NewMedian
<1>2. MedianInv
    <2>1. estimated \in Seq(Int) /\ Len(estimated) = 0 /\ \A k : ~(k \in 1..Len(estimated))
        BY <1>1
    <2>2. median \in MedianType /\ median.index = 0 /\ ~median.filled
        BY <1>1 DEF MedianType
    <2> QED
        BY <2>1, <2>2 DEF MedianInv
<1>3. ShownInv
    <2>1. "known" \in DOMAIN shown /\ ~shown.known
        BY <1>1
    <2> QED
        BY <2>1 DEF ShownInv
<1>4. SamplesInv
    BY <1>1, TimenudgeConstantsHold DEF SamplesInv
<1> QED
    BY <1>2, <1>3, <1>4 DEF TimenudgeInv

LEMMA SamplesPacket ==
    ASSUME SamplesInv, NEW fresh \in BOOLEAN, NEW follow \in BOOLEAN,
           window' = T!WindowAfter(T!Sampled(fresh, follow))
    PROVE  SamplesInv'
<1>1. PICK w : w = T!Sampled(fresh, follow)
    OBVIOUS
<1>2. /\ w.delays \in Nat /\ w.lags \in Nat /\ w.lags <= w.delays
      /\ w.delays <= WindowSamples /\ DOMAIN w = {"delays", "lags", "start"}
    <2>1. CASE clockValid /\ fresh /\ window.delays < WindowSamples
        <3>1. w = [window EXCEPT !.delays = @ + 1, !.lags = IF follow THEN @ + 1 ELSE @]
            BY <1>1, <2>1 DEF T!Sampled
        <3> QED
            BY <2>1, <3>1, TimenudgeConstantsHold DEF SamplesInv
    <2>2. CASE ~(clockValid /\ fresh /\ window.delays < WindowSamples)
        <3>1. w = window
            BY <1>1, <2>2 DEF T!Sampled
        <3> QED
            BY <3>1 DEF SamplesInv
    <2> QED
        BY <2>1, <2>2
<1>3. window' = IF T!Ended THEN [delays |-> 0, lags |-> 0, start |-> now] ELSE w
    BY <1>1 DEF T!WindowAfter
<1> QED
    BY <1>2, <1>3, TimenudgeConstantsHold DEF SamplesInv

LEMMA EstimateMedian ==
    ASSUME MedianInv, NEW nudge \in Int, T!Estimate(nudge)
    PROVE  MedianInv' /\ ShownInv'
<1>1. PICK i \in 0..2 : i = median.index
    BY DEF MedianInv, MedianType
<1>2. PICK h \in [0..2 -> Int] : h = median.history
    BY DEF MedianInv, MedianType
<1>3. PICK n \in Nat : n = Len(estimated)
    BY DEF MedianInv
<1>4. PICK es \in Seq(Int) : es = estimated
    BY DEF MedianInv
<1>5. PICK filled \in BOOLEAN : filled = median.filled
    BY DEF MedianInv, MedianType
<1>6. /\ ~filled => i = n /\ \A k \in 1..n : h[k - 1] = es[k]
      /\ filled => /\ 3 <= n
                   /\ h[i] = es[n - 2]
                   /\ h[NextIndex(i)] = es[n - 1]
                   /\ h[NextIndex(NextIndex(i))] = es[n]
    BY <1>1, <1>2, <1>3, <1>4, <1>5 DEF MedianInv
<1>7. (i + 1) % 3 = NextIndex(i) /\ NextIndex(i) \in 0..2 /\ NextIndex(NextIndex(i)) \in 0..2
    BY DEF NextIndex
<1>8. PICK g \in [0..2 -> Int] : g = [h EXCEPT ![i] = nudge]
    BY <1>1, <1>2
<1>9. PICK now3 : now3 = (median.filled \/ (median.index + 1) % 3 = 0)
    OBVIOUS
<1>10. now3 \in BOOLEAN /\ (now3 <=> (filled \/ NextIndex(i) = 0))
    <2>1. (median.filled \/ (median.index + 1) % 3 = 0) \in BOOLEAN
        BY SMT
    <2>2. (median.filled \/ (median.index + 1) % 3 = 0) <=> (filled \/ NextIndex(i) = 0)
        BY <1>1, <1>5, <1>7
    <2> QED
        BY <1>9, <2>1, <2>2, Zenon
<1>12. median' = [history |-> g, index |-> NextIndex(i), filled |-> now3]
    <2>1. median' = [history |-> [median.history EXCEPT ![median.index] = nudge],
                     index |-> (median.index + 1) % 3, filled |-> now3]
        BY <1>9, Zenon DEF T!Estimate, T!Kept
    <2> QED
        BY <1>1, <1>2, <1>7, <1>8, <2>1, Zenon
<1>13. PICK fs \in Seq(Int) : fs = estimated' /\ fs = Append(es, nudge)
    <2>1. Append(es, nudge) \in Seq(Int)
        OBVIOUS
    <2>2. estimated' = Append(es, nudge)
        BY <1>4 DEF T!Estimate
    <2> QED
        BY <2>1, <2>2
<1>14. /\ Len(fs) = n + 1 /\ fs[n + 1] = nudge
       /\ \A k \in 1..n : fs[k] = es[k]
    BY <1>3, <1>4, <1>13
<1>15. g[i] = nudge /\ \A k \in 0..2 : k # i => g[k] = h[k]
    BY <1>8
<1>16. ASSUME ~now3
       PROVE  NextIndex(i) = n + 1 /\ \A k \in 1..(n + 1) : g[k - 1] = fs[k]
    <2>1. ~filled /\ i # 2
        BY <1>10, <1>16 DEF NextIndex
    <2>2. i = n /\ \A k \in 1..n : h[k - 1] = es[k]
        BY <1>6, <2>1
    <2>3. NextIndex(i) = n + 1
        BY <2>1, <2>2 DEF NextIndex
    <2>4. ASSUME NEW k \in 1..(n + 1) PROVE g[k - 1] = fs[k]
        <3>1. CASE k = n + 1
            BY <1>14, <1>15, <2>2, <3>1
        <3>2. CASE k # n + 1
            <4>1. k \in 1..n /\ k - 1 \in 0..2 /\ k - 1 # i
                BY <2>2, <3>2
            <4> QED
                BY <1>14, <1>15, <2>2, <4>1
        <3> QED
            BY <3>1, <3>2
    <2> QED
        BY <2>3, <2>4
<1>17. ASSUME now3
       PROVE  /\ 3 <= n + 1
              /\ g[NextIndex(i)] = fs[n - 1]
              /\ g[NextIndex(NextIndex(i))] = fs[n]
              /\ g[NextIndex(NextIndex(NextIndex(i)))] = fs[n + 1]
    <2>1. /\ NextIndex(i) # i /\ NextIndex(NextIndex(i)) # i
          /\ NextIndex(NextIndex(NextIndex(i))) = i
        BY DEF NextIndex
    <2>2. g[NextIndex(i)] = h[NextIndex(i)]
          /\ g[NextIndex(NextIndex(i))] = h[NextIndex(NextIndex(i))]
        BY <1>7, <1>15, <2>1
    <2>3. g[NextIndex(NextIndex(NextIndex(i)))] = fs[n + 1]
        BY <1>14, <1>15, <2>1
    <2>4. CASE filled
        <3>1. n - 1 \in 1..n /\ n \in 1..n
            BY <1>6, <2>4
        <3>2. 3 <= n /\ h[NextIndex(i)] = es[n - 1] /\ h[NextIndex(NextIndex(i))] = es[n]
            BY <1>6, <2>4
        <3>3. fs[n - 1] = es[n - 1] /\ fs[n] = es[n]
            BY <1>14, <3>1
        <3>4. 3 <= n + 1
            BY <3>2
        <3> QED
            BY <2>2, <2>3, <3>2, <3>3, <3>4, ZenonT(30)
    <2>5. CASE ~filled
        <3>1. i = 2 /\ n = 2 /\ NextIndex(i) = 0 /\ NextIndex(NextIndex(i)) = 1
            BY <1>6, <1>10, <1>17, <2>5 DEF NextIndex
        <3>2. h[0] = es[1] /\ h[1] = es[2]
            <4>1. 1 \in 1..n /\ 2 \in 1..n /\ 1 - 1 = 0 /\ 2 - 1 = 1
                BY <3>1
            <4> QED
                BY <1>6, <2>5, <4>1
        <3>3. fs[1] = es[1] /\ fs[2] = es[2]
            BY <1>14, <3>1
        <3>4. n - 1 = 1
            BY <3>1
        <3> QED
            BY <2>2, <2>3, <3>1, <3>2, <3>3, <3>4
    <2> QED
        BY <2>4, <2>5
<1>18. MedianInv'
    <2>1. /\ median'.history = g /\ median'.index = NextIndex(i) /\ median'.filled = now3
          /\ median' \in MedianType
        BY <1>7, <1>8, <1>10, <1>12 DEF MedianType
    <2>2. n + 1 - 2 = n - 1 /\ n + 1 - 1 = n
        OBVIOUS
    <2>3. estimated' \in Seq(Int) /\ Len(estimated') = n + 1
        BY <1>13, <1>14
    <2>4. ~median'.filled => /\ median'.index = n + 1
                            /\ \A k \in 1..(n + 1) : median'.history[k - 1] = estimated'[k]
        BY <1>13, <1>16, <2>1
    <2>5. median'.filled =>
            /\ 3 <= n + 1
            /\ median'.history[median'.index] = estimated'[n - 1]
            /\ median'.history[NextIndex(median'.index)] = estimated'[n]
            /\ median'.history[NextIndex(NextIndex(median'.index))] = estimated'[n + 1]
        BY <1>13, <1>17, <2>1
    <2> QED
        BY <2>1, <2>2, <2>3, <2>4, <2>5 DEF MedianInv, NextIndex
<1>19. ShownInv'
    <2>4. "known" \in DOMAIN shown'
        BY DEF T!Estimate
    <2>1. shown'.timenudge = IF median'.filled
                             THEN T!Median3(median'.history[0], median'.history[1],
                                            median'.history[2])
                             ELSE nudge
        BY Zenon DEF T!Estimate
    <2>2. Len(estimated') = n + 1 /\ estimated'[n + 1] = nudge
        BY <1>13, <1>14
    <2>3. n + 1 > 0
        OBVIOUS
    <2> QED
        BY <2>1, <2>2, <2>3, <2>4, Zenon DEF ShownInv, T!Median3, T!Max2, T!Min2
<1> QED
    BY <1>18, <1>19

LEMMA TooLongMedian ==
    ASSUME MedianInv, ShownInv, T!TooLong
    PROVE  MedianInv' /\ ShownInv'
<1>1. median' = [median EXCEPT !.index = 0, !.filled = FALSE] /\ estimated' = <<>>
    BY DEF T!TooLong, T!Restarted
<1>2. shown' = [shown EXCEPT !.known = FALSE]
    BY DEF T!TooLong
<1>3. median' \in MedianType /\ median'.index = 0 /\ ~median'.filled
    <2>1. PICK old \in MedianType : old = median
        BY DEF MedianInv
    <2>2. PICK no \in BOOLEAN : no = FALSE
        OBVIOUS
    <2>3. PICK new : new = [old EXCEPT !.index = 0, !.filled = no]
        OBVIOUS
    <2>4. /\ old \in [history : [0..2 -> Int], index : 0..2, filled : BOOLEAN]
          /\ 0 \in 0..2
        BY <2>1 DEF MedianType
    <2>5. new \in MedianType
        BY <2>2, <2>3, <2>4 DEF MedianType
    <2>6. new.index = 0
        BY <2>3, <2>4
    <2>7. new.filled = no
        BY <2>3, <2>4
    <2> QED
        BY <1>1, <2>1, <2>2, <2>3, <2>5, <2>6, <2>7, Zenon
<1>4. estimated' \in Seq(Int) /\ Len(estimated') = 0 /\ \A k : ~(k \in 1..Len(estimated'))
    <2>1. PICK none : none = estimated'
        OBVIOUS
    <2>2. none = <<>>
        BY <1>1, <2>1
    <2>3. none \in Seq(Int) /\ Len(none) = 0 /\ \A k : ~(k \in 1..Len(none))
        BY <2>2
    <2> QED
        BY <2>1, <2>3
<1>5. MedianInv'
    BY <1>3, <1>4 DEF MedianInv, NextIndex
<1>6. "known" \in DOMAIN shown' /\ ~shown'.known
    BY <1>2 DEF ShownInv
<1> QED
    BY <1>5, <1>6 DEF ShownInv

LEMMA TimenudgeNext ==
    ASSUME TimenudgeInv, T!Next
    PROVE  TimenudgeInv'
<1>1. ASSUME UNCHANGED <<window, median, shown, estimated>> PROVE TimenudgeInv'
    BY <1>1 DEF TimenudgeInv, MedianInv, ShownInv, SamplesInv, NextIndex, T!Median3, T!Max2,
                T!Min2
<1>2. CASE T!Tick \/ T!FrameClock \/ \E mean \in {"short", "long"} : T!SnapshotSent(mean)
    BY <1>1, <1>2 DEF T!Tick, T!FrameClock, T!SnapshotSent
<1>3. ASSUME NEW fresh \in BOOLEAN, NEW follow \in BOOLEAN, NEW known \in BOOLEAN,
             T!PacketReceived(fresh, follow, known)
      PROVE  TimenudgeInv'
    <2>1. SamplesInv'
        BY <1>3, SamplesPacket DEF T!PacketReceived, TimenudgeInv
    <2>2. \/ UNCHANGED <<median, shown, estimated>>
          \/ T!TooLong
          \/ \E nudge \in Estimates : T!Estimate(nudge)
        BY <1>3 DEF T!PacketReceived
    <2>3. MedianInv' /\ ShownInv'
        <3>1. CASE UNCHANGED <<median, shown, estimated>>
            BY <3>1 DEF TimenudgeInv, MedianInv, ShownInv, NextIndex, T!Median3, T!Max2,
                        T!Min2
        <3>2. CASE T!TooLong
            BY <3>2, TooLongMedian DEF TimenudgeInv
        <3>3. ASSUME NEW nudge \in Estimates, T!Estimate(nudge)
              PROVE  MedianInv' /\ ShownInv'
            <4>1. nudge \in Int
                BY TimenudgeConstantsHold
            <4> QED
                BY <3>3, <4>1, EstimateMedian DEF TimenudgeInv
        <3> QED
            BY <2>2, <3>1, <3>2, <3>3
    <2> QED
        BY <2>1, <2>3 DEF TimenudgeInv
<1> QED
    BY <1>2, <1>3 DEF T!Next

\* The median of three is one of them, and no two are on the same side of it.
MiddleOf(m, a, b, c) ==
    /\ m = a \/ m = b \/ m = c
    /\ ~(a < m /\ b < m) /\ ~(a < m /\ c < m) /\ ~(b < m /\ c < m)
    /\ ~(a > m /\ b > m) /\ ~(a > m /\ c > m) /\ ~(b > m /\ c > m)

LEMMA MedianOfThree ==
    ASSUME NEW a \in Int, NEW b \in Int, NEW c \in Int
    PROVE  /\ MiddleOf(T!Median3(a, b, c), a, b, c)
           /\ MiddleOf(T!Median3(a, b, c), b, c, a)
           /\ MiddleOf(T!Median3(a, b, c), c, a, b)
<1>1. PICK u \in Int : u = T!Min2(a, b) /\ u <= a /\ u <= b /\ (u = a \/ u = b)
    BY DEF T!Min2
<1>2. PICK v \in Int : v = T!Max2(a, b) /\ v >= a /\ v >= b /\ (v = a \/ v = b)
                       /\ (u = a => v = b) /\ (u = b => v = a)
    BY <1>1 DEF T!Max2, T!Min2
<1>3. PICK w \in Int : w = T!Min2(v, c) /\ w <= v /\ w <= c /\ (w = v \/ w = c)
    BY DEF T!Min2
<1>4. PICK m \in Int : m = T!Max2(u, w) /\ m >= u /\ m >= w /\ (m = u \/ m = w)
    BY DEF T!Max2
<1>5. T!Median3(a, b, c) = m
    BY <1>1, <1>2, <1>3, <1>4 DEF T!Median3
<1> QED
    BY <1>1, <1>2, <1>3, <1>4, <1>5 DEF MiddleOf

LEMMA TimenudgeFollows ==
    ASSUME TimenudgeInv
    PROVE  T!TimenudgeAsShown
<1>1. T!WindowFits
    BY DEF TimenudgeInv, SamplesInv, T!WindowFits
<1>2. ASSUME shown.known PROVE T!TimenudgeOfRecentWindows
    <2>1. PICK es \in Seq(Int), n \in Nat : es = estimated /\ n = Len(es)
        BY DEF TimenudgeInv, MedianInv
    <2>2. PICK m : m = shown.timenudge
        OBVIOUS
    <2>3. PICK last : last = IF n < 3 THEN {n} ELSE {n - 2, n - 1, n}
        OBVIOUS
    <2>4. n > 0
        BY <1>2, <2>1 DEF TimenudgeInv, ShownInv
    <2>5. /\ \E i \in last : m = es[i]
          /\ \A i, j \in last : i # j =>
                ~(es[i] < m /\ es[j] < m) /\ ~(es[i] > m /\ es[j] > m)
        <3>1. CASE ~median.filled
            <4>1. m = es[n] /\ n < 3
                BY <1>2, <2>1, <2>2, <3>1
                DEF TimenudgeInv, ShownInv, MedianInv, MedianType
            <4> QED
                BY <2>3, <4>1
        <3>2. CASE median.filled
            <4>1. PICK h \in [0..2 -> Int], i \in 0..2 : h = median.history /\ i = median.index
                BY DEF TimenudgeInv, MedianInv, MedianType
            <4>2. 3 <= n /\ h[i] = es[n - 2] /\ h[NextIndex(i)] = es[n - 1]
                  /\ h[NextIndex(NextIndex(i))] = es[n]
                BY <2>1, <3>2, <4>1 DEF TimenudgeInv, MedianInv
            <4>3. m = T!Median3(h[0], h[1], h[2])
                BY <1>2, <2>2, <3>2, <4>1 DEF TimenudgeInv, ShownInv
            <4>4. MiddleOf(m, es[n - 2], es[n - 1], es[n])
                <5>1. /\ MiddleOf(m, h[0], h[1], h[2])
                      /\ MiddleOf(m, h[1], h[2], h[0])
                      /\ MiddleOf(m, h[2], h[0], h[1])
                    <6>1. h[0] \in Int /\ h[1] \in Int /\ h[2] \in Int
                        OBVIOUS
                    <6> QED
                        BY <4>3, <6>1, MedianOfThree
                <5>2. CASE i = 0
                    BY <4>2, <5>1, <5>2 DEF NextIndex
                <5>3. CASE i = 1
                    BY <4>2, <5>1, <5>3 DEF NextIndex
                <5>4. CASE i = 2
                    BY <4>2, <5>1, <5>4 DEF NextIndex
                <5> QED
                    BY <5>2, <5>3, <5>4
            <4>5. last = {n - 2, n - 1, n}
                BY <2>3, <4>2
            <4> QED
                BY <4>4, <4>5 DEF MiddleOf
        <3> QED
            BY <3>1, <3>2
    <2>6. /\ Len(estimated) > 0
          /\ LET q == IF Len(estimated) < 3 THEN {Len(estimated)}
                      ELSE {Len(estimated) - 2, Len(estimated) - 1, Len(estimated)}
             IN  /\ \E i \in q : shown.timenudge = estimated[i]
                 /\ \A i, j \in q : i # j =>
                      /\ ~(estimated[i] < shown.timenudge /\ estimated[j] < shown.timenudge)
                      /\ ~(estimated[i] > shown.timenudge /\ estimated[j] > shown.timenudge)
        BY <2>1, <2>2, <2>3, <2>4, <2>5, ZenonT(60)
    <2> QED
        BY <2>6, ZenonT(60) DEF T!TimenudgeOfRecentWindows
<1>3. ~shown.known => T!TimenudgeOfRecentWindows
    BY DEF T!TimenudgeOfRecentWindows
<1> QED
    BY <1>1, <1>2, <1>3 DEF T!TimenudgeAsShown

\* Whatever the windows give and the clients that are simulated: what is shown is of
\* the last three windows, and the simulated clock settles as the one of a client does
\* (PacketReceived, SimulateClient).
THEOREM TimenudgeIsOfRecentWindows == MCSpec => []TimenudgeAsShown
<1>1. MCInit => TimenudgeInv /\ ClientInv
    BY TimenudgeInit, ClientInit DEF MCInit
<1>2. TimenudgeInv /\ [MCNext]_<<part, vars, timenudgeVars, clientTimeVars, netRatesVars,
                                pagesVars>>
        => TimenudgeInv'
    <2> SUFFICES ASSUME TimenudgeInv, UNCHANGED timenudgeVars PROVE TimenudgeInv'
        BY TimenudgeNext DEF MCNext
    <2>1. UNCHANGED <<window, median, shown, estimated>>
        BY DEF timenudgeVars
    <2> QED
        BY <2>1 DEF TimenudgeInv, MedianInv, ShownInv, SamplesInv, NextIndex, T!Median3,
                    T!Max2, T!Min2
<1>3. ClientInv /\ [MCNext]_<<part, vars, timenudgeVars, clientTimeVars, netRatesVars,
                             pagesVars>>
        => ClientInv'
    <2> SUFFICES ASSUME ClientInv, UNCHANGED clientTimeVars PROVE ClientInv'
        BY ClientFrame, ClientPhase DEF MCNext, S!Next
    <2> QED
        BY DEF ClientInv, clientTimeVars
<1>4. TimenudgeInv /\ ClientInv => TimenudgeAsShown
    BY TimenudgeFollows, ClientFollows DEF TimenudgeAsShown
<1> QED
    BY <1>1, <1>2, <1>3, <1>4, PTL DEF MCSpec

-----------------------------------------------------------------------------
(* The last second: packets *)

LEMMA RatesConstantsHold ==
    /\ PacketSamples \in Nat \ {0} /\ RatesSecond \in Nat \ {0}
    /\ RatesBackup \in Nat \ {0, 1} /\ Header \in Nat
    /\ Sizes \subseteq Nat /\ Cmds \subseteq Nat /\ Intervals \subseteq Nat \ {0}
BY PartsAssumption DEF R!NetRatesConstants

\* The operators of the instance are those of the module.
LEMMA SameOperators ==
    \A W : /\ R!Cardinality(W) = Cardinality(W)
           /\ R!Min(W) = Min(W) /\ R!Max(W) = Max(W)
BY Zenon DEF R!Cardinality, Cardinality, R!Min, Min, R!Max, Max

\* The sums of the first numbers.
Sums(f, l, u) == f[0] = 0 /\ \A n \in 1..l : f[n] = f[n - 1] + u[n]

LEMMA HasSums ==
    ASSUME NEW l \in Nat, NEW u \in [1..l -> Int]
    PROVE  \E f \in [0..l -> Int] : Sums(f, l, u)
<1>1. PICK numbers : numbers = Int
    OBVIOUS
<1>2. PICK none : none = 0
    OBVIOUS
<1>3. PICK adds : adds = [n \in 1..l |-> [x \in Int |-> x + u[n]]]
    OBVIOUS
<1>4. none \in numbers /\ adds \in [1..l -> [numbers -> numbers]]
    BY <1>1, <1>2, <1>3
<1>5. Iterates(numbers, none, l, adds)
    BY <1>4, HasIterates, Zenon
<1>6. PICK f \in [0..l -> Int] : f[0] = 0 /\ \A n \in 1..l : f[n] = adds[n][f[n - 1]]
    BY <1>1, <1>2, <1>5 DEF Iterates
<1>7. \A n \in 1..l : n - 1 \in 0..l
    OBVIOUS
<1>8. \A n \in 1..l : f[n] = f[n - 1] + u[n]
    BY <1>3, <1>6, <1>7
<1> QED
    BY <1>6, <1>8 DEF Sums

\* The numbers after the first ones add nothing.
LEMMA SameSums ==
    ASSUME NEW l \in Nat, NEW p \in 0..l, NEW u, NEW v,
           NEW f \in [0..p -> Int], NEW g \in [0..l -> Int], Sums(f, p, u), Sums(g, l, v),
           \A n \in 1..p : v[n] = u[n], \A n \in 1..l : n > p => v[n] = 0
    PROVE  g[l] = f[p]
<1> DEFINE Same(n) == g[n] = IF n <= p THEN f[n] ELSE f[p]
           All == {n \in Nat : n <= l => Same(n)}
<1>1. 0 \in All
    BY DEF Sums
<1>2. ASSUME NEW n \in Nat, Same(n), n + 1 <= l PROVE Same(n + 1)
    <2>1. /\ n + 1 \in 1..l /\ (n + 1) - 1 = n /\ n \in 0..l
          /\ g[n + 1] = g[n] + v[n + 1]
        BY <1>2 DEF Sums
    <2>2. CASE n + 1 <= p
        <3>1. n + 1 \in 1..p /\ n <= p
            BY <2>2
        <3>2. f[n + 1] = f[n] + u[n + 1]
            BY <2>1, <3>1 DEF Sums
        <3> QED
            BY <1>2, <2>1, <3>1, <3>2
    <2>3. CASE n + 1 > p
        <3>1. v[n + 1] = 0 /\ g[n] \in Int
            BY <2>1, <2>3
        <3>2. g[n + 1] = g[n]
            BY <2>1, <3>1
        <3>3. CASE n = p
            BY <1>2, <2>3, <3>2, <3>3
        <3>4. CASE n # p
            <4>1. ~(n <= p) /\ ~(n + 1 <= p)
                BY <2>3, <3>4
            <4> QED
                BY <1>2, <3>2, <4>1
        <3> QED
            BY <3>3, <3>4
    <2> QED
        BY <2>2, <2>3
<1>3. l \in All
    <2> HIDE DEF Same
    <2>1. \A n \in Nat : n \in All => n + 1 \in All
        BY <1>2
    <2> HIDE DEF All
    <2> QED
        BY <1>1, <2>1, Induction
<1>4. g[l] = IF l <= p THEN f[l] ELSE f[p]
    BY <1>3
<1>5. l <= p => l = p
    OBVIOUS
<1> QED
    BY <1>4, <1>5

\* Numbers that hold every smaller one are the first ones.
LEMMA FirstOnes ==
    ASSUME NEW l \in Nat, NEW W \in SUBSET (1..l),
           \A m, n \in 1..l : n \in W /\ m <= n => m \in W
    PROVE  /\ IsFiniteSet(W) /\ Cardinality(W) \in 0..l
           /\ W = 1..Cardinality(W)
<1>1. PICK rest : rest = (1..l) \ W
    OBVIOUS
<1>2. ASSUME NEW p \in 0..l, W = 1..p
      PROVE  /\ IsFiniteSet(W) /\ Cardinality(W) \in 0..l
             /\ W = 1..Cardinality(W)
    <2>1. IsFiniteSet(1..p) /\ Cardinality(1..p) = IF 1 > p THEN 0 ELSE p - 1 + 1
        BY FS_Interval
    <2>2. Cardinality(1..p) = p
        BY <2>1
    <2> QED
        BY <1>2, <2>1, <2>2
<1>3. CASE rest = {}
    <2>1. \A n \in 1..l : n \in W
        BY <1>1, <1>3, Zenon
    <2>2. W = 1..l
        BY <2>1, Zenon
    <2>3. l \in 0..l
        OBVIOUS
    <2> QED
        BY <1>2, <2>2, <2>3
<1>4. CASE rest # {}
    <2>1. rest \in SUBSET Nat
        BY <1>1
    <2>2. PICK x \in rest : \A y \in rest : x <= y
        BY <1>4, <2>1, LowestNumber
    <2>3. x \in 1..l /\ x \notin W /\ x - 1 \in 0..l
        BY <1>1, <2>2
    <2>4. ASSUME NEW n \in 1..l PROVE n \in W <=> n \in 1..(x - 1)
        <3>1. CASE n < x
            <4>1. n \notin rest
                BY <2>2, <2>3, <3>1
            <4> QED
                BY <1>1, <2>3, <3>1, <4>1
        <3>2. CASE ~(n < x)
            <4>1. x <= n
                BY <2>3, <3>2
            <4>2. n \notin W
                BY <2>3, <4>1
            <4>3. n \notin 1..(x - 1)
                BY <2>3, <4>1
            <4> QED
                BY <4>2, <4>3
        <3> QED
            BY <3>1, <3>2
    <2>5. \A n \in 1..(x - 1) : n \in 1..l
        BY <2>3
    <2>6. W = 1..(x - 1)
        BY <2>4, <2>5
    <2> QED
        BY <1>2, <2>3, <2>6
<1> QED
    BY <1>3, <1>4

PacketType == [time : Nat \ {0}, cmds : Nat]
PacketPlaces == 0..(PacketSamples - 1)

\* The ring holds the last packets, the newest before the place of the next one.
PacketsInv ==
    /\ ratesNow \in Nat \ {0} /\ packetIndex \in PacketPlaces
    /\ ring \in [PacketPlaces -> [time : Nat, cmds : Nat]]
    /\ received \in Seq(PacketType)
    /\ \A n \in 1..Len(received) : received[n].time <= ratesNow
    /\ \A m, n \in 1..Len(received) : m <= n => received[n].time <= received[m].time
    /\ \A n \in 1..PacketSamples :
          IF n <= Len(received) THEN R!Newest(n) = received[n]
          ELSE R!Newest(n).time = 0 \/ ~R!InLastSecond(R!Newest(n).time)

LEMMA Backwards ==
    ASSUME NEW i \in PacketPlaces, NEW n \in 1..PacketSamples
    PROVE  /\ (i - n + PacketSamples) % PacketSamples =
                    IF n <= i THEN i - n ELSE i - n + PacketSamples
           /\ (i - n + PacketSamples) % PacketSamples \in PacketPlaces
<1>1. PICK p \in Nat \ {0} : p = PacketSamples
    BY RatesConstantsHold
<1>2. i \in 0..(p - 1) /\ n \in 1..p
    BY <1>1 DEF PacketPlaces
<1>3. CASE n <= i
    <2>1. i - n + p = p * 1 + (i - n) /\ i - n \in 0..(p - 1) /\ i - n + p \in Int
        BY <1>2, <1>3
    <2>2. (i - n + p) % p = i - n
        BY <2>1, Remainder
    <2> QED
        BY <1>1, <1>3, <2>1, <2>2 DEF PacketPlaces
<1>4. CASE ~(n <= i)
    <2>1. i - n + p = p * 0 + (i - n + p) /\ i - n + p \in 0..(p - 1) /\ i - n + p \in Int
        BY <1>2, <1>4
    <2>2. (i - n + p) % p = i - n + p
        BY <2>1, Remainder
    <2> QED
        BY <1>1, <1>4, <2>1, <2>2 DEF PacketPlaces
<1> QED
    BY <1>3, <1>4

LEMMA NextPacketPlace ==
    ASSUME NEW i \in PacketPlaces
    PROVE  (i + 1) % PacketSamples = IF i = PacketSamples - 1 THEN 0 ELSE i + 1
<1>1. PICK p \in Nat \ {0} : p = PacketSamples
    BY RatesConstantsHold
<1>2. i \in 0..(p - 1)
    BY <1>1 DEF PacketPlaces
<1>3. CASE i = p - 1
    <2>1. i + 1 = p * 1 + 0 /\ 0 \in 0..(p - 1) /\ i + 1 \in Int
        BY <1>2, <1>3
    <2>2. (i + 1) % p = 0
        BY <2>1, Remainder
    <2> QED
        BY <1>1, <1>3, <2>2
<1>4. CASE i # p - 1
    <2>1. i + 1 = p * 0 + (i + 1) /\ i + 1 \in 0..(p - 1) /\ i + 1 \in Int
        BY <1>2, <1>4
    <2>2. (i + 1) % p = i + 1
        BY <2>1, Remainder
    <2> QED
        BY <1>1, <1>4, <2>2
<1> QED
    BY <1>3, <1>4

\* The packets of the last second are the first ones of those that are kept.
LEMMA LastSecondFirst ==
    ASSUME PacketsInv
    PROVE  /\ Cardinality(R!OfLastSecond) \in 0..Len(received)
           /\ R!OfLastSecond = 1..Cardinality(R!OfLastSecond)
<1>1. PICK ps \in Seq(PacketType), l \in Nat : ps = received /\ l = Len(ps)
    BY DEF PacketsInv
<1>2. PICK W : W = R!OfLastSecond
    OBVIOUS
<1>3. PICK t \in Nat, second \in Nat : t = ratesNow /\ second = RatesSecond
    BY RatesConstantsHold DEF PacketsInv
<1>4. W \in SUBSET (1..l) /\ \A n \in 1..l : ps[n].time \in Nat
    <2>1. DOMAIN ps = 1..l /\ \A n \in 1..l : ps[n] \in PacketType
        BY <1>1
    <2>2. W \in SUBSET (1..l)
        BY <1>1, <1>2, <2>1 DEF R!OfLastSecond
    <2> QED
        BY <2>1, <2>2 DEF PacketType
<1>5. \A n \in 1..l : \A x \in Nat : ps[n].time = x => (n \in W <=> t - x < second)
    BY <1>1, <1>2, <1>3 DEF R!OfLastSecond, R!InLastSecond
<1>6. ASSUME NEW m \in 1..l, NEW n \in 1..l, n \in W, m <= n PROVE m \in W
    <2>1. PICK x \in Nat, y \in Nat : x = ps[n].time /\ y = ps[m].time
        BY <1>4
    <2>2. x <= y
        BY <1>1, <1>6, <2>1 DEF PacketsInv
    <2>3. t - x < second
        BY <1>5, <1>6, <2>1
    <2>4. t - y < second
        BY <2>2, <2>3
    <2> QED
        BY <1>5, <2>1, <2>4
<1>7. Cardinality(W) \in 0..l /\ W = 1..Cardinality(W)
    BY <1>4, <1>6, FirstOnes
<1> QED
    BY <1>1, <1>2, <1>7

LEMMA PacketsInit ==
    ASSUME R!Init
    PROVE  PacketsInv
<1>1. /\ ratesNow = 1 /\ packetIndex = 0 /\ received = <<>>
      /\ ring = [i \in 0..(PacketSamples - 1) |-> [time |-> 0, cmds |-> 0]]
    BY DEF R!Init
<1>2. 0 \in PacketPlaces
    BY RatesConstantsHold DEF PacketPlaces
<1>3. /\ received \in Seq(PacketType) /\ Len(received) = 0
      /\ \A n : ~(n \in 1..Len(received))
    BY <1>1
<1>4. ring \in [PacketPlaces -> [time : Nat, cmds : Nat]]
      /\ \A i \in PacketPlaces : ring[i].time = 0
    BY <1>1 DEF PacketPlaces
<1>5. ASSUME NEW n \in 1..PacketSamples
      PROVE  ~(n <= Len(received)) /\ R!Newest(n).time = 0
    <2>1. (packetIndex - n + PacketSamples) % PacketSamples \in PacketPlaces
        BY <1>1, <1>2, Backwards
    <2>2. R!Newest(n).time = 0
        BY <1>4, <2>1 DEF R!Newest
    <2>3. n \in Nat /\ n > 0
        BY RatesConstantsHold
    <2> QED
        BY <1>3, <2>2, <2>3
<1> QED
    BY <1>1, <1>2, <1>3, <1>4, <1>5 DEF PacketsInv

LEMMA PacketsTick ==
    ASSUME PacketsInv, ratesNow' \in Nat, ratesNow' >= ratesNow,
           UNCHANGED <<ring, packetIndex, received>>
    PROVE  PacketsInv'
<1>1. ratesNow' \in Nat \ {0} /\ ratesNow \in Nat
    BY DEF PacketsInv
<1>2. ASSUME NEW n \in 1..Len(received) PROVE received'[n].time <= ratesNow'
    <2>1. received[n] \in PacketType /\ received[n].time <= ratesNow
        BY DEF PacketsInv
    <2> QED
        BY <1>1, <2>1 DEF PacketType
<1>3. ASSUME NEW n \in 1..PacketSamples
      PROVE  IF n <= Len(received) THEN R!Newest(n)' = received[n]
             ELSE (R!Newest(n).time = 0 \/ ~R!InLastSecond(R!Newest(n).time))'
    <2>1. R!Newest(n)' = R!Newest(n)
        BY DEF R!Newest
    <2>2. R!Newest(n).time \in Nat
        <3>1. (packetIndex - n + PacketSamples) % PacketSamples \in PacketPlaces
            BY Backwards DEF PacketsInv
        <3> QED
            BY <3>1 DEF R!Newest, PacketsInv
    <2>3. ~R!InLastSecond(R!Newest(n).time) => ~R!InLastSecond(R!Newest(n).time)'
        BY <1>1, <2>1, <2>2, RatesConstantsHold DEF R!InLastSecond
    <2> QED
        BY <2>1, <2>3 DEF PacketsInv
<1> QED
    BY <1>1, <1>2, <1>3 DEF PacketsInv

LEMMA PacketsReceived ==
    ASSUME PacketsInv, NEW cmds \in Cmds, R!PacketReceived(cmds)
    PROVE  PacketsInv'
<1>1. PICK ps \in Seq(PacketType), l \in Nat : ps = received /\ l = Len(ps)
    BY DEF PacketsInv
<1>2. PICK c \in 0..l : c = Cardinality(R!OfLastSecond) /\ R!OfLastSecond = 1..c
    BY <1>1, LastSecondFirst
<1>3. PICK new \in PacketType : new = [time |-> ratesNow, cmds |-> cmds]
    BY RatesConstantsHold DEF PacketsInv, PacketType
<1>4. PICK qs : qs = received' /\ qs = [n \in 1..(c + 1) |-> IF n = 1 THEN new ELSE ps[n - 1]]
    <2>1. received' = [n \in 1..(Cardinality(R!OfLastSecond) + 1) |->
                        IF n = 1 THEN [time |-> ratesNow, cmds |-> cmds] ELSE received[n - 1]]
        BY SameOperators DEF R!PacketReceived
    <2>2. received' = [n \in 1..(c + 1) |-> IF n = 1 THEN new ELSE ps[n - 1]]
        BY <1>1, <1>2, <1>3, <2>1, ZenonT(60)
    <2> QED
        BY <2>2
<1>5. \A n \in 1..l : ps[n] \in PacketType
    BY <1>1
<1>6. /\ qs \in Seq(PacketType) /\ Len(qs) = c + 1 /\ qs[1] = new
      /\ \A n \in 2..(c + 1) : qs[n] = ps[n - 1] /\ n - 1 \in 1..l
    <2>1. \A n \in 1..(c + 1) : n # 1 => n - 1 \in 1..l
        BY <1>2
    <2>2. \A n \in 1..(c + 1) : (IF n = 1 THEN new ELSE ps[n - 1]) \in PacketType
        BY <1>5, <2>1
    <2>3. qs \in [1..(c + 1) -> PacketType] /\ c + 1 \in Nat
        BY <1>4, <2>2
    <2>4. qs \in Seq(PacketType) /\ Len(qs) = c + 1
        BY <2>3
    <2>5. 1 \in 1..(c + 1) /\ \A n \in 2..(c + 1) : n \in 1..(c + 1) /\ n # 1
        BY <1>2
    <2> QED
        BY <1>4, <2>1, <2>4, <2>5
<1>7. PICK i \in PacketPlaces : i = packetIndex
    BY DEF PacketsInv
<1>8. /\ packetIndex' = IF i = PacketSamples - 1 THEN 0 ELSE i + 1
      /\ packetIndex' \in PacketPlaces
    <2>1. packetIndex' = (i + 1) % PacketSamples
        BY <1>7 DEF R!PacketReceived
    <2>2. packetIndex' = IF i = PacketSamples - 1 THEN 0 ELSE i + 1
        BY <2>1, NextPacketPlace
    <2> QED
        BY <2>2, RatesConstantsHold DEF PacketPlaces
<1>9. PICK old \in [PacketPlaces -> [time : Nat, cmds : Nat]] : old = ring
    BY DEF PacketsInv
<1>10. ring' = [old EXCEPT ![i] = new]
    BY <1>3, <1>7, <1>9 DEF R!PacketReceived
<1>11. /\ ring' \in [PacketPlaces -> [time : Nat, cmds : Nat]] /\ ring'[i] = new
       /\ \A j \in PacketPlaces : j # i => ring'[j] = old[j]
    <2>1. new \in [time : Nat, cmds : Nat]
        BY <1>3 DEF PacketType
    <2> QED
        BY <1>10, <2>1
<1>12. R!Newest(1)' = new
    <2>1. 1 \in 1..PacketSamples
        BY RatesConstantsHold
    <2>2. (packetIndex' - 1 + PacketSamples) % PacketSamples =
            IF 1 <= packetIndex' THEN packetIndex' - 1 ELSE packetIndex' - 1 + PacketSamples
        BY <1>8, <2>1, Backwards
    <2>3. (packetIndex' - 1 + PacketSamples) % PacketSamples = i
        BY <1>8, <2>2, RatesConstantsHold DEF PacketPlaces
    <2> QED
        BY <1>11, <2>3 DEF R!Newest
<1>13. ASSUME NEW n \in 2..PacketSamples PROVE R!Newest(n)' = R!Newest(n - 1)
    <2>1. n \in 1..PacketSamples /\ n - 1 \in 1..PacketSamples
        BY RatesConstantsHold
    <2>2. /\ (packetIndex' - n + PacketSamples) % PacketSamples =
                IF n <= packetIndex' THEN packetIndex' - n ELSE packetIndex' - n + PacketSamples
          /\ (packetIndex' - n + PacketSamples) % PacketSamples \in PacketPlaces
        BY <1>8, <2>1, Backwards
    <2>3. (i - (n - 1) + PacketSamples) % PacketSamples =
                IF n - 1 <= i THEN i - (n - 1) ELSE i - (n - 1) + PacketSamples
        BY <2>1, Backwards
    <2>4. (packetIndex' - n + PacketSamples) % PacketSamples
                = (i - (n - 1) + PacketSamples) % PacketSamples
        <3>1. PICK p \in Nat \ {0}, j \in Int : p = PacketSamples /\ j = packetIndex'
            BY <1>8, RatesConstantsHold DEF PacketPlaces
        <3>2. i \in 0..(p - 1) /\ n \in 2..p /\ j = IF i = p - 1 THEN 0 ELSE i + 1
            BY <1>8, <3>1 DEF PacketPlaces
        <3>3. (IF n <= j THEN j - n ELSE j - n + p)
                = IF n - 1 <= i THEN i - (n - 1) ELSE i - (n - 1) + p
            BY <3>2
        <3> QED
            BY <2>2, <2>3, <3>1, <3>3
    <2>5. (i - (n - 1) + PacketSamples) % PacketSamples # i
        <3>1. PICK p \in Nat \ {0} : p = PacketSamples
            BY RatesConstantsHold
        <3>2. i \in 0..(p - 1) /\ n \in 2..p
            BY <3>1 DEF PacketPlaces
        <3>3. i # IF n - 1 <= i THEN i - (n - 1) ELSE i - (n - 1) + p
            BY <3>2
        <3> QED
            BY <2>3, <3>1, <3>3
    <2> QED
        BY <1>7, <1>9, <1>11, <2>2, <2>4, <2>5 DEF R!Newest
<1>14. ratesNow' = ratesNow /\ ratesNow \in Nat \ {0} /\ new.time = ratesNow
    BY <1>3 DEF R!PacketReceived, PacketsInv
<1>15. ASSUME NEW n \in 1..(c + 1) PROVE qs[n].time <= ratesNow
    <2>1. CASE n = 1
        BY <1>6, <1>14, <2>1
    <2>2. CASE n # 1
        <3>1. n \in 2..(c + 1) /\ n - 1 \in 1..l
            BY <1>2, <2>2
        <3> QED
            BY <1>1, <1>6, <3>1 DEF PacketsInv
    <2> QED
        BY <2>1, <2>2
<1>16. ASSUME NEW m \in 1..(c + 1), NEW n \in 1..(c + 1), m <= n
       PROVE  qs[n].time <= qs[m].time
    <2>1. CASE m = 1
        BY <1>6, <1>14, <1>15, <2>1
    <2>2. CASE m # 1
        <3>1. m \in 2..(c + 1) /\ n \in 2..(c + 1) /\ m - 1 <= n - 1
            BY <1>2, <1>16, <2>2
        <3> QED
            BY <1>1, <1>6, <3>1 DEF PacketsInv
    <2> QED
        BY <2>1, <2>2
<1>17. ASSUME NEW n \in 1..PacketSamples
       PROVE  IF n <= c + 1 THEN R!Newest(n)' = qs[n]
              ELSE (R!Newest(n).time = 0 \/ ~R!InLastSecond(R!Newest(n).time))'
    <2>1. CASE n = 1
        BY <1>2, <1>6, <1>12, <2>1
    <2>2. CASE n # 1
        <3>1. n \in 2..PacketSamples /\ n - 1 \in 1..PacketSamples
            BY <2>2, RatesConstantsHold
        <3>2. R!Newest(n)' = R!Newest(n - 1)
            BY <1>13, <3>1
        <3>3. CASE n <= c + 1
            <4>1. n \in 2..(c + 1) /\ n - 1 <= l
                BY <1>2, <3>1, <3>3
            <4>2. R!Newest(n - 1) = ps[n - 1]
                BY <1>1, <3>1, <4>1 DEF PacketsInv
            <4> QED
                BY <1>6, <3>2, <3>3, <4>1, <4>2
        <3>4. CASE ~(n <= c + 1) /\ n - 1 <= l
            <4>1. R!Newest(n - 1) = ps[n - 1] /\ n - 1 \in 1..l /\ n - 1 \notin 1..c
                BY <1>1, <1>2, <3>1, <3>4 DEF PacketsInv
            <4>2. ~R!InLastSecond(ps[n - 1].time)
                BY <1>1, <1>2, <4>1 DEF R!OfLastSecond
            <4> QED
                BY <1>14, <3>2, <3>4, <4>1, <4>2 DEF R!InLastSecond
        <3>5. CASE ~(n <= c + 1) /\ ~(n - 1 <= l)
            <4>1. R!Newest(n - 1).time = 0 \/ ~R!InLastSecond(R!Newest(n - 1).time)
                BY <1>1, <3>1, <3>5 DEF PacketsInv
            <4> QED
                BY <1>14, <3>2, <3>5, <4>1 DEF R!InLastSecond
        <3> QED
            BY <3>3, <3>4, <3>5
    <2> QED
        BY <2>1, <2>2
<1>18. /\ received' \in Seq(PacketType) /\ Len(received') = c + 1
       /\ \A n \in 1..Len(received') : received'[n].time <= ratesNow'
       /\ \A m, n \in 1..Len(received') : m <= n => received'[n].time <= received'[m].time
    BY <1>4, <1>6, <1>14, <1>15, <1>16
<1>19. \A n \in 1..PacketSamples :
          (IF n <= Len(received) THEN R!Newest(n) = received[n]
           ELSE R!Newest(n).time = 0 \/ ~R!InLastSecond(R!Newest(n).time))'
    BY <1>4, <1>17, <1>18
<1>20. ratesNow' \in Nat \ {0}
    BY <1>14
<1> QED
    BY <1>8, <1>11, <1>18, <1>19, <1>20 DEF PacketsInv

\* The walk through the ring stops after the packets of the last second.
LEMMA CountsPackets ==
    ASSUME PacketsInv
    PROVE  /\ R!Packets \in 0..Len(received) /\ R!Packets <= PacketSamples
           /\ R!OfLastSecond \cap 1..PacketSamples = 1..R!Packets
           /\ \A n \in 1..R!Packets : R!Newest(n) = received[n]
<1>1. PICK ps \in Seq(PacketType), l \in Nat : ps = received /\ l = Len(ps)
    BY DEF PacketsInv
<1>2. PICK c \in 0..l : R!OfLastSecond = 1..c
    BY <1>1, LastSecondFirst
<1>3. PICK size \in Nat \ {0} : size = PacketSamples
    BY RatesConstantsHold
<1>4. PICK stops : stops = {n \in 1..PacketSamples : R!Newest(n).time = 0
                                        \/ ~R!InLastSecond(R!Newest(n).time)}
    OBVIOUS
<1>5. ASSUME NEW n \in 1..size PROVE n \in stops <=> n > c
    <2>1. CASE n <= l
        <3>1. R!Newest(n) = ps[n] /\ n \in 1..l /\ ps[n] \in PacketType
            BY <1>1, <1>3, <2>1 DEF PacketsInv
        <3>2. ps[n].time # 0
            BY <3>1 DEF PacketType
        <3>3. n \in R!OfLastSecond <=> R!InLastSecond(ps[n].time)
            BY <1>1, <3>1 DEF R!OfLastSecond
        <3>4. n \in R!OfLastSecond <=> n <= c
            BY <1>2, <3>1
        <3> QED
            BY <1>2, <1>3, <1>4, <3>1, <3>2, <3>3, <3>4
    <2>2. CASE ~(n <= l)
        <3>1. R!Newest(n).time = 0 \/ ~R!InLastSecond(R!Newest(n).time)
            BY <1>1, <1>3, <2>2 DEF PacketsInv
        <3>2. n > c
            BY <1>2, <2>2
        <3> QED
            BY <1>3, <1>4, <3>1, <3>2
    <2> QED
        BY <2>1, <2>2
<1>6. R!Packets = IF stops = {} THEN size ELSE Min(stops) - 1
    BY <1>3, <1>4, SameOperators, Zenon DEF R!Packets
<1>7. R!Packets = IF size <= c THEN size ELSE c
    <2>1. CASE size <= c
        <3>1. \A n : n \notin stops
            BY <1>2, <1>3, <1>4, <1>5, <2>1
        <3> QED
            BY <1>6, <2>1, <3>1
    <2>2. CASE ~(size <= c)
        <3>1. c + 1 \in 1..size
            BY <1>2, <1>3, <2>2
        <3>2. c + 1 \in stops
            BY <1>2, <1>5, <3>1
        <3>3. stops \in SUBSET Nat
            BY <1>3, <1>4
        <3>4. Min(stops) \in stops /\ \A n \in stops : Min(stops) <= n
            BY <3>2, <3>3, MinIsLeast
        <3>5. Min(stops) <= c + 1 /\ Min(stops) > c /\ Min(stops) \in Nat
            BY <1>3, <1>4, <1>5, <3>2, <3>3, <3>4
        <3>6. Min(stops) - 1 = c
            BY <1>2, <3>5
        <3> QED
            BY <1>6, <2>2, <3>2, <3>6
    <2> QED
        BY <2>1, <2>2
<1>8. PICK p \in 0..l : p = R!Packets /\ p <= size /\ p = IF size <= c THEN size ELSE c
    BY <1>2, <1>3, <1>7
<1>9. ASSUME NEW n PROVE n \in (1..c) \cap (1..size) <=> n \in 1..p
    BY <1>2, <1>3, <1>8
<1>10. R!OfLastSecond \cap 1..PacketSamples = 1..p
    BY <1>2, <1>3, <1>9, Zenon
<1>11. ASSUME NEW n \in 1..p PROVE R!Newest(n) = received[n]
    <2>1. n \in 1..size /\ n <= l
        BY <1>3, <1>8
    <2> QED
        BY <1>1, <1>3, <2>1 DEF PacketsInv
<1> QED
    BY <1>1, <1>3, <1>8, <1>10, <1>11

\* What a recursive function of sums is.
LEMMA ChosenSums ==
    ASSUME NEW l \in Nat, NEW u \in [1..l -> Int]
    PROVE  LET f == CHOOSE f : f = [n \in 0..l |-> IF n = 0 THEN 0 ELSE f[n - 1] + u[n]]
           IN  f \in [0..l -> Int] /\ Sums(f, l, u)
<1> DEFINE IsSum(f) == f = [n \in 0..l |-> IF n = 0 THEN 0 ELSE f[n - 1] + u[n]]
<1>1. PICK h \in [0..l -> Int] : Sums(h, l, u)
    BY HasSums
<1>2. IsSum(h)
    <2>1. \A n \in 0..l : n = 0 \/ n \in 1..l
        OBVIOUS
    <2> QED
        BY <1>1, <2>1 DEF Sums
<1>3. PICK f : f = CHOOSE g : IsSum(g)
    OBVIOUS
<1>4. IsSum(f)
    BY <1>2, <1>3
<1>5. Sums(f, l, u)
    <2>1. 0 \in 0..l /\ \A n \in 1..l : n \in 0..l /\ n # 0
        OBVIOUS
    <2> QED
        BY <1>4, <2>1 DEF Sums
<1>6. f \in [0..l -> Int]
    <2>1. DOMAIN f = 0..l /\ f = [n \in 0..l |-> f[n]]
        BY <1>4
    <2> DEFINE All == {n \in Nat : n <= l => f[n] \in Int}
    <2>2. 0 \in All
        BY <1>5 DEF Sums
    <2>3. ASSUME NEW n \in Nat, n \in All PROVE n + 1 \in All
        <3>1. SUFFICES ASSUME n + 1 <= l PROVE f[n + 1] \in Int
            OBVIOUS
        <3>2. n + 1 \in 1..l /\ (n + 1) - 1 = n /\ f[n] \in Int
            BY <2>3, <3>1
        <3>3. f[n + 1] = f[n] + u[n + 1] /\ u[n + 1] \in Int
            BY <1>5, <3>2 DEF Sums
        <3> QED
            BY <3>2, <3>3
    <2>4. Nat \subseteq All
        <3> HIDE DEF All
        <3> QED
            BY <2>2, <2>3, Induction
    <2>5. \A n \in 0..l : f[n] \in Int
        BY <2>4
    <2> QED
        BY <2>1, <2>5
<1> QED
    BY <1>3, <1>5, <1>6, Zenon

\* A recursive function of sums, whatever way its terms are written.
LEMMA PacketSums ==
    ASSUME PacketsInv
    PROVE  /\ \E f \in [0..R!Packets -> Int] :
                 /\ R!Fps = f[R!Packets]
                 /\ Sums(f, R!Packets, [n \in 1..R!Packets |-> R!Newest(n).cmds])
           /\ \A n \in 1..R!Packets : R!Newest(n).cmds \in Nat
<1>1. PICK p \in Nat : p = R!Packets
    BY CountsPackets DEF PacketsInv
<1>2. ASSUME NEW n \in 1..p PROVE R!Newest(n).cmds \in Nat
    <2>1. n \in 1..Len(received) /\ R!Newest(n) = received[n]
        BY <1>1, CountsPackets DEF PacketsInv
    <2>2. received[n] \in PacketType
        BY <2>1 DEF PacketsInv
    <2> QED
        BY <2>1, <2>2 DEF PacketType
<1>3. PICK u : u = [n \in 1..p |-> R!Newest(n).cmds]
    OBVIOUS
<1>4. u \in [1..p -> Int]
    BY <1>2, <1>3
<1>5. PICK f : f = CHOOSE g : g = [n \in 0..p |-> IF n = 0 THEN 0 ELSE g[n - 1] + u[n]]
    OBVIOUS
<1>6. f \in [0..p -> Int] /\ Sums(f, p, u)
    BY <1>4, <1>5, ChosenSums, Zenon
<1>7. R!Fps = f[p]
    <2>1. PICK sum : sum = CHOOSE g : g = [n \in 0..p |-> IF n = 0 THEN 0
                                                        ELSE g[n - 1] + R!Newest(n).cmds]
        OBVIOUS
    <2>2. R!Fps = sum[p]
        BY <1>1, <2>1, Zenon DEF R!Fps
    <2>3. ASSUME NEW g
          PROVE  [n \in 0..p |-> IF n = 0 THEN 0 ELSE g[n - 1] + R!Newest(n).cmds]
                    = [n \in 0..p |-> IF n = 0 THEN 0 ELSE g[n - 1] + u[n]]
        <3>1. \A n \in 0..p : n = 0 \/ n \in 1..p
            OBVIOUS
        <3> QED
            BY <1>3, <3>1
    <2>4. sum = f
        BY <1>5, <2>1, <2>3, Zenon
    <2> QED
        BY <2>2, <2>4
<1> QED
    BY <1>1, <1>2, <1>3, <1>6, <1>7

LEMMA PacketsFollow ==
    ASSUME PacketsInv
    PROVE  R!PacketsOfTheLastSecond
<1>1. PICK ps \in Seq(PacketType), l \in Nat : ps = received /\ l = Len(ps)
    BY DEF PacketsInv
<1>2. PICK p \in 0..l : p = R!Packets
    BY <1>1, CountsPackets
<1>3. PICK last : last = R!OfLastSecond \cap 1..PacketSamples
    OBVIOUS
<1>4. last = 1..p /\ \A n \in 1..p : R!Newest(n) = ps[n]
    BY <1>1, <1>2, <1>3, CountsPackets
<1>5. Cardinality(last) = p
    <2>1. Cardinality(1..p) = IF 1 > p THEN 0 ELSE p - 1 + 1
        BY FS_Interval
    <2> QED
        BY <1>4, <2>1
<1>6. PICK u : u = [n \in 1..p |-> R!Newest(n).cmds]
    OBVIOUS
<1>7. PICK f \in [0..p -> Int] : R!Fps = f[p] /\ Sums(f, p, u)
    BY <1>2, <1>6, PacketSums
<1>8. PICK v : v = [n \in 1..l |-> IF n \in last THEN ps[n].cmds ELSE 0]
    OBVIOUS
<1>9. v \in [1..l -> Int]
    <2>1. \A n \in 1..l : ps[n].cmds \in Nat
        BY <1>1 DEF PacketType
    <2> QED
        BY <1>8, <2>1
<1>10. PICK g : g = CHOOSE h : h = [n \in 0..l |-> IF n = 0 THEN 0 ELSE h[n - 1] + v[n]]
    OBVIOUS
<1>11. g \in [0..l -> Int] /\ Sums(g, l, v)
    BY <1>9, <1>10, ChosenSums, Zenon
<1>12. \A n \in 1..p : v[n] = u[n]
    BY <1>4, <1>6, <1>8
<1>13. \A n \in 1..l : n > p => v[n] = 0
    BY <1>4, <1>8
<1>14. g[l] = f[p]
    BY <1>7, <1>11, <1>12, <1>13, SameSums
<1>15. PICK cmds : cmds = CHOOSE h :
            h = [n \in 0..l |-> IF n = 0 THEN 0
                                ELSE h[n - 1] + IF n \in last THEN ps[n].cmds ELSE 0]
    OBVIOUS
<1>16. cmds = g
    <2>1. ASSUME NEW h
          PROVE  [n \in 0..l |-> IF n = 0 THEN 0
                                 ELSE h[n - 1] + IF n \in last THEN ps[n].cmds ELSE 0]
                    = [n \in 0..l |-> IF n = 0 THEN 0 ELSE h[n - 1] + v[n]]
        <3>1. \A n \in 0..l : n = 0 \/ n \in 1..l
            OBVIOUS
        <3> QED
            BY <1>8, <3>1
    <2> QED
        BY <1>10, <1>15, <2>1, Zenon
<1>17. R!Packets = R!Cardinality(last) /\ R!Fps = cmds[l]
    BY <1>2, <1>5, <1>7, <1>14, <1>16, SameOperators
<1> QED
    BY <1>1, <1>3, <1>15, <1>17, Zenon DEF R!PacketsOfTheLastSecond

-----------------------------------------------------------------------------
(* The last second: snapshots *)

\* Two numbers of a remainder are as far apart as the divisor.
LEMMA RemaindersApart ==
    ASSUME NEW b \in Nat \ {0}, NEW k \in Nat, NEW m \in Nat
    PROVE  /\ k < m /\ m - k < b => k % b # m % b
           /\ m = k + b => k % b = m % b
<1>1. PICK q \in Nat, r \in 0..(b - 1) : r = k % b /\ k = b * q + r
    BY Division
<1>2. PICK t \in Nat, u \in 0..(b - 1) : u = m % b /\ m = b * t + u
    BY Division
<1>3. PICK v \in Int, w \in Int : v = b * q /\ w = b * t
    BY SMT
<1>4. ASSUME k < m, m - k < b, r = u PROVE FALSE
    <2>1. v < w /\ w < v + b
        BY <1>1, <1>2, <1>3, <1>4
    <2>2. t > q
        <3>1. q > t => v >= w + b
            BY <1>3, Times
        <3>2. ~(q > t) /\ q # t
            BY <1>3, <2>1, <3>1
        <3> QED
            BY <3>2
    <2>3. w >= v + b
        BY <1>3, <2>2, Times
    <2> QED
        BY <2>1, <2>3
<1>5. ASSUME m = k + b PROVE k % b = m % b
    <2>1. b * (q + 1) = v + b
        BY <1>3, SMT
    <2>2. m = b * (q + 1) + r /\ q + 1 \in Int /\ m \in Int
        BY <1>1, <1>3, <1>5, <2>1
    <2>3. m % b = r
        BY <2>2, Remainder
    <2> QED
        BY <1>1, <2>3
<1> QED
    BY <1>1, <1>2, <1>4, <1>5

\* The number of intervals before the last message.
Before(n) == n * every

LastTime == sent[(ratesOutgoing - 1) % RatesBackup].time
SentPlaces == 0..(RatesBackup - 1)

\* The messages come at the interval, and the ring holds the last ones.
SnapshotsInv ==
    /\ ratesNow \in Nat \ {0} /\ ratesOutgoing \in Nat \ {0}
    /\ sent \in [SentPlaces -> [time : Nat, sequence : Nat, size : Nat]]
    /\ follows = "snapshots" => every \in Nat \ {0}
    /\ follows # "snapshots" => ratesOutgoing = 1
    /\ ratesOutgoing > 1 => LastTime <= ratesNow /\ ratesNow <= LastTime + every
    /\ \A s \in SentPlaces : sent[s].sequence # 0 =>
          /\ sent[s].sequence < ratesOutgoing /\ sent[s].sequence % RatesBackup = s
          /\ ratesOutgoing - sent[s].sequence <= RatesBackup
          /\ sent[s].time = LastTime - Before(ratesOutgoing - 1 - sent[s].sequence)
    /\ \A k \in 1..(ratesOutgoing - 1) :
          ratesOutgoing - k <= RatesBackup => sent[k % RatesBackup].sequence = k

LEMMA SentPlace ==
    ASSUME NEW k \in Nat
    PROVE  k % RatesBackup \in SentPlaces
<1>1. RatesBackup \in Nat \ {0}
    BY RatesConstantsHold
<1> QED
    BY <1>1, Division DEF SentPlaces

LEMMA SnapshotsInit ==
    ASSUME R!Init
    PROVE  SnapshotsInv
<1>1. /\ ratesNow = 1 /\ ratesOutgoing = 1
      /\ sent = [s \in 0..(RatesBackup - 1) |-> [time |-> 0, sequence |-> 0, size |-> 0]]
      /\ follows = "snapshots" => every \in Intervals
    BY DEF R!Init
<1>2. sent \in [SentPlaces -> [time : Nat, sequence : Nat, size : Nat]]
      /\ \A s \in SentPlaces : sent[s].sequence = 0
    BY <1>1 DEF SentPlaces
<1>3. follows = "snapshots" => every \in Nat \ {0}
    BY <1>1, RatesConstantsHold
<1>4. \A k : ~(k \in 1..(ratesOutgoing - 1))
    BY <1>1
<1>5. /\ ratesNow \in Nat \ {0} /\ ratesOutgoing \in Nat \ {0}
      /\ ~(ratesOutgoing > 1)
    BY <1>1
<1> QED
    BY <1>1, <1>2, <1>3, <1>4, <1>5 DEF SnapshotsInv

LEMMA SnapshotsTick ==
    ASSUME SnapshotsInv, UNCHANGED <<follows, every, sent, ratesOutgoing>>,
           ratesNow' \in Nat \ {0}, ratesNow' >= ratesNow,
           ratesOutgoing > 1 => ratesNow' <= LastTime + every
    PROVE  SnapshotsInv'
<1>1. LastTime' = LastTime
    BY DEF LastTime
<1>2. ratesOutgoing > 1 => LastTime <= ratesNow' /\ LastTime \in Nat
    <2>1. ratesOutgoing - 1 \in Nat /\ ratesNow \in Nat
        BY DEF SnapshotsInv
    <2>2. LastTime \in Nat
        BY <2>1, SentPlace DEF SnapshotsInv, LastTime
    <2> QED
        BY <2>1, <2>2 DEF SnapshotsInv
<1>3. \A n : Before(n)' = n * every
    BY DEF Before
<1> QED
    BY <1>1, <1>2 DEF SnapshotsInv, Before

LEMMA SnapshotsNext ==
    ASSUME SnapshotsInv, NEW size \in Sizes, R!SnapshotSent(size)
    PROVE  SnapshotsInv'
<1>1. PICK o \in Nat \ {0} : o = ratesOutgoing
    BY DEF SnapshotsInv
<1>2. PICK b \in Nat \ {0, 1} : b = RatesBackup
    BY RatesConstantsHold
<1>3. PICK e \in Nat \ {0} : e = every /\ follows = "snapshots"
    BY DEF SnapshotsInv, R!SnapshotSent
<1>4. PICK old \in [SentPlaces -> [time : Nat, sequence : Nat, size : Nat]] : old = sent
    BY DEF SnapshotsInv
<1>5. PICK z \in SentPlaces : z = o % b
    BY <1>1, <1>2, SentPlace
<1>6. PICK new \in [time : Nat, sequence : Nat, size : Nat] :
            new = [time |-> ratesNow, sequence |-> o, size |-> size]
    BY <1>1, RatesConstantsHold DEF SnapshotsInv
<1>7. sent' = [old EXCEPT ![z] = new]
    BY <1>1, <1>2, <1>4, <1>5, <1>6 DEF R!SnapshotSent
<1>8. /\ sent' \in [SentPlaces -> [time : Nat, sequence : Nat, size : Nat]]
      /\ sent'[z] = new /\ \A s \in SentPlaces : s # z => sent'[s] = old[s]
    BY <1>7
<1>9. /\ ratesOutgoing' = o + 1 /\ ratesNow' = ratesNow /\ every' = e
      /\ follows' = "snapshots" /\ ratesNow \in Nat \ {0}
    BY <1>1, <1>3 DEF R!SnapshotSent, SnapshotsInv
<1>10. LastTime' = ratesNow
    <2>1. ratesOutgoing' - 1 = o
        BY <1>9
    <2>2. LastTime' = sent'[z].time
        BY <1>2, <1>5, <2>1 DEF LastTime
    <2> QED
        BY <1>6, <1>8, <2>2
<1>11. o = 1 \/ ratesNow = LastTime + e
    BY <1>1, <1>3 DEF R!SnapshotSent, R!Due, LastTime
<1>12. LastTime \in Nat
    <2>1. o - 1 \in Nat
        OBVIOUS
    <2> QED
        BY <1>1, <1>4, <2>1, SentPlace DEF LastTime
<1>13. ASSUME NEW s \in SentPlaces, sent'[s].sequence # 0
       PROVE  /\ sent'[s].sequence < o + 1 /\ sent'[s].sequence % b = s
              /\ o + 1 - sent'[s].sequence <= b
              /\ sent'[s].time = ratesNow - (o - sent'[s].sequence) * e
    <2>1. CASE s = z
        <3>1. sent'[s].sequence = o /\ sent'[s].time = ratesNow
            BY <1>6, <1>8, <2>1
        <3>2. (o - o) * e = 0
            BY SMT
        <3> QED
            BY <1>2, <1>5, <1>9, <2>1, <3>1, <3>2
    <2>2. CASE s # z
        <3>1. PICK q \in Nat : q = old[s].sequence /\ sent'[s] = old[s] /\ q # 0
            BY <1>8, <1>13, <2>2
        <3>2. /\ q < o /\ q % b = s /\ o - q <= b
              /\ old[s].time = LastTime - (o - 1 - q) * e
            BY <1>1, <1>2, <1>3, <1>4, <3>1 DEF SnapshotsInv, Before
        <3>3. o - q # b
            <4>1. o = q + b => q % b = o % b
                BY RemaindersApart
            <4>2. o # q + b
                BY <1>5, <2>2, <3>2, <4>1
            <4> QED
                BY <1>1, <1>2, <4>2
        <3>4. PICK x \in Int : x = (o - 1 - q) * e
            BY <3>1, SMT
        <3>5. (o - q) * e = x + e
            BY <3>4, SMT
        <3>6. ratesNow = LastTime + e
            BY <1>11, <3>1, <3>2
        <3>7. old[s].time = ratesNow - (o - q) * e
            BY <1>9, <1>12, <3>2, <3>4, <3>5, <3>6
        <3> QED
            BY <1>2, <3>1, <3>2, <3>3, <3>7
    <2> QED
        BY <2>1, <2>2
<1>14. ASSUME NEW k \in 1..o, o + 1 - k <= b PROVE sent'[k % b].sequence = k
    <2>1. CASE k = o
        BY <1>5, <1>6, <1>8, <2>1
    <2>2. CASE k # o
        <3>1. k \in 1..(o - 1) /\ o - k <= b /\ k \in Nat /\ k < o /\ o - k < b
            BY <1>2, <1>14, <2>2
        <3>2. k % b # z /\ k % b \in SentPlaces
            BY <1>2, <1>5, <3>1, RemaindersApart, SentPlace
        <3>3. old[k % b].sequence = k
            BY <1>1, <1>2, <1>4, <3>1 DEF SnapshotsInv
        <3> QED
            BY <1>8, <3>2, <3>3
    <2> QED
        BY <2>1, <2>2
<1>15. \A s \in SentPlaces : sent'[s].sequence # 0 =>
            /\ sent'[s].sequence < ratesOutgoing' /\ sent'[s].sequence % RatesBackup = s
            /\ ratesOutgoing' - sent'[s].sequence <= RatesBackup
            /\ sent'[s].time = LastTime'
                                  - (ratesOutgoing' - 1 - sent'[s].sequence) * every'
    <2>1. ASSUME NEW s \in SentPlaces, sent'[s].sequence # 0
          PROVE  /\ sent'[s].sequence < ratesOutgoing'
                 /\ sent'[s].sequence % RatesBackup = s
                 /\ ratesOutgoing' - sent'[s].sequence <= RatesBackup
                 /\ sent'[s].time = LastTime'
                                       - (ratesOutgoing' - 1 - sent'[s].sequence) * every'
        <3>1. PICK q \in Nat : q = sent'[s].sequence
            BY <1>8
        <3>2. /\ q < o + 1 /\ q % b = s /\ o + 1 - q <= b
              /\ sent'[s].time = ratesNow - (o - q) * e
            BY <1>13, <2>1, <3>1
        <3>3. (o + 1) - 1 - q = o - q
            OBVIOUS
        <3> QED
            BY <1>2, <1>9, <1>10, <3>1, <3>2, <3>3
    <2> QED
        BY <2>1
<1>16. \A k \in 1..(ratesOutgoing' - 1) :
            ratesOutgoing' - k <= RatesBackup => sent'[k % RatesBackup].sequence = k
    <2>1. o + 1 - 1 = o
        OBVIOUS
    <2> QED
        BY <1>2, <1>9, <1>14, <2>1
<1>17. LastTime' <= ratesNow' /\ ratesNow' <= LastTime' + every'
    BY <1>9, <1>10
<1>18. ratesOutgoing' \in Nat \ {0} /\ every' \in Nat \ {0}
    BY <1>9
<1> QED
    BY <1>8, <1>9, <1>15, <1>16, <1>17, <1>18 DEF SnapshotsInv, Before

LEMMA LastTimeType ==
    ASSUME SnapshotsInv
    PROVE  LastTime \in Nat /\ ratesNow \in Nat
<1>1. ratesOutgoing - 1 \in Nat
    BY DEF SnapshotsInv
<1> QED
    BY <1>1, SentPlace DEF SnapshotsInv, LastTime

LEMMA BeforeGrows ==
    ASSUME SnapshotsInv, ratesOutgoing > 1
    PROVE  /\ every \in Nat \ {0} /\ Before(0) = 0 /\ Before(1) = every
           /\ \A n \in Nat : Before(n) \in Nat
           /\ \A m, n \in Nat : m < n => Before(m) + every <= Before(n)
           /\ \A m, n \in Nat : m <= n => Before(m) <= Before(n)
<1>1. PICK e \in Nat \ {0} : e = every
    BY DEF SnapshotsInv
<1>2. 0 * e = 0 /\ 1 * e = e
    BY SMT
<1>3. \A n \in Nat : n * e = e * n /\ n * e \in Nat
    BY Multiple
<1>4. ASSUME NEW m \in Nat, NEW n \in Nat, m < n PROVE m * e + e <= n * e
    <2>1. e * n >= e * m + e
        BY <1>4, Times
    <2> QED
        BY <1>3, <2>1
<1>5. ASSUME NEW m \in Nat, NEW n \in Nat, m <= n PROVE m * e <= n * e
    <2>1. CASE m = n
        BY <1>3, <2>1
    <2>2. CASE m # n
        <3>1. m * e + e <= n * e /\ m * e \in Nat /\ n * e \in Nat
            BY <1>3, <1>4, <1>5, <2>2
        <3> QED
            BY <3>1
    <2> QED
        BY <2>1, <2>2
<1> QED
    BY <1>1, <1>2, <1>3, <1>4, <1>5 DEF Before

\* The messages shown are the last ones that came in a second and are in the ring.
LEMMA ShownAre ==
    ASSUME SnapshotsInv, ratesOutgoing > 1
    PROVE  \E c \in 0..(ratesOutgoing - 1) :
              /\ IsFiniteSet(R!Shown) /\ Cardinality(R!Shown) = c /\ c <= RatesBackup
              /\ \A n \in 1..c : /\ (ratesOutgoing - n) % RatesBackup \in R!Shown
                                 /\ sent[(ratesOutgoing - n) % RatesBackup].time
                                       = LastTime - Before(n - 1)
              /\ \A s \in R!Shown : \E n \in 1..c : s = (ratesOutgoing - n) % RatesBackup
              /\ \A n \in 1..(ratesOutgoing - 1) : n <= RatesBackup /\ n > c =>
                    ratesNow - LastTime + Before(n - 1) >= RatesSecond
<1>1. PICK o \in Nat \ {0} : o = ratesOutgoing /\ o > 1
    BY DEF SnapshotsInv
<1>2. PICK b \in Nat \ {0, 1} : b = RatesBackup
    BY RatesConstantsHold
<1>3. PICK d \in Int : d = ratesNow - LastTime /\ LastTime \in Nat /\ ratesNow \in Nat
    BY LastTimeType
<1>4. \A n \in 1..(o - 1) : n - 1 \in Nat /\ Before(n - 1) \in Nat
    BY BeforeGrows
<1>5. PICK W : W = {n \in 1..(o - 1) : n <= b /\ d + Before(n - 1) < RatesSecond}
    OBVIOUS
<1>6. ASSUME NEW m \in 1..(o - 1), NEW n \in 1..(o - 1), n \in W, m <= n PROVE m \in W
    <2>1. Before(m - 1) <= Before(n - 1)
        BY <1>4, <1>6, BeforeGrows
    <2>2. m <= b /\ d + Before(m - 1) < RatesSecond
        BY <1>2, <1>3, <1>4, <1>5, <1>6, <2>1, RatesConstantsHold
    <2> QED
        BY <1>5, <2>2
<1>7. PICK c \in 0..(o - 1) : W = 1..c
    <2>1. W \in SUBSET (1..(o - 1)) /\ o - 1 \in Nat
        BY <1>5
    <2>2. Cardinality(W) \in 0..(o - 1) /\ W = 1..Cardinality(W)
        BY <1>6, <2>1, FirstOnes
    <2> QED
        BY <2>2
<1>8. ASSUME NEW n \in 1..(o - 1), n <= b
      PROVE  /\ (o - n) % b \in SentPlaces /\ sent[(o - n) % b].sequence = o - n
             /\ sent[(o - n) % b].time = LastTime - Before(n - 1)
    <2>1. o - n \in 1..(o - 1) /\ o - (o - n) = n /\ o - 1 - (o - n) = n - 1
        OBVIOUS
    <2>2. (o - n) % b \in SentPlaces
        BY <1>2, <2>1, SentPlace
    <2>3. sent[(o - n) % b].sequence = o - n
        BY <1>1, <1>2, <1>8, <2>1 DEF SnapshotsInv
    <2>4. o - n # 0
        BY <2>1
    <2>5. sent[(o - n) % b].time = LastTime - Before(o - 1 - (o - n))
        BY <1>1, <2>2, <2>3, <2>4 DEF SnapshotsInv
    <2> QED
        BY <2>1, <2>2, <2>3, <2>5
<1>9. ASSUME NEW n \in 1..(o - 1), n <= b
      PROVE  (o - n) % b \in R!Shown <=> n \in W
    <2>1. o - n # 0 /\ DOMAIN sent = SentPlaces
        BY DEF SnapshotsInv
    <2>2. (o - n) % b \in R!Shown <=>
            ratesNow - sent[(o - n) % b].time < RatesSecond
        BY <1>8, <1>9, <2>1 DEF R!Shown, R!InLastSecond
    <2>3. ratesNow - sent[(o - n) % b].time = d + Before(n - 1)
        <3>1. PICK x \in Nat : x = Before(n - 1)
            BY <1>4
        <3>2. sent[(o - n) % b].time = LastTime - x
            BY <1>8, <1>9, <3>1
        <3> QED
            BY <1>3, <3>1, <3>2
    <2> QED
        BY <1>5, <1>9, <2>2, <2>3
<1>10. \A n \in 1..c : n \in 1..(o - 1) /\ n <= b
    BY <1>5, <1>7
<1>11. ASSUME NEW s \in R!Shown PROVE \E n \in 1..c : s = (o - n) % b
    <2>1. s \in SentPlaces /\ sent[s].sequence # 0
        BY DEF R!Shown, SnapshotsInv
    <2>2. PICK q \in Nat : q = sent[s].sequence /\ q # 0
        BY <2>1 DEF SnapshotsInv
    <2>3. q < o /\ q % b = s /\ o - q <= b
        BY <1>1, <1>2, <2>1, <2>2 DEF SnapshotsInv
    <2>4. o - q \in 1..(o - 1) /\ o - (o - q) = q
        BY <2>2, <2>3
    <2>5. o - q \in W
        BY <1>9, <2>3, <2>4
    <2> QED
        BY <1>7, <2>3, <2>4, <2>5
<1>12. PICK h : h = [n \in 1..c |-> (o - n) % b]
    OBVIOUS
<1>13. h \in [1..c -> R!Shown]
    BY <1>7, <1>9, <1>10, <1>12
<1>14. ASSUME NEW m \in 1..c, NEW n \in 1..c, h[m] = h[n] PROVE m = n
    <2>1. sent[h[m]].sequence = o - m /\ sent[h[n]].sequence = o - n
        BY <1>8, <1>10, <1>12
    <2> QED
        BY <1>14, <2>1
<1>15. h \in Bijection(1..c, R!Shown)
    <2>1. h \in Injection(1..c, R!Shown)
        BY <1>13, <1>14 DEF Injection, IsInjective
    <2>2. \A s \in R!Shown : \E n \in 1..c : h[n] = s
        BY <1>11, <1>12
    <2> QED
        BY <1>13, <2>1, <2>2, Zenon DEF Bijection, Surjection
<1>16. IsFiniteSet(R!Shown) /\ Cardinality(R!Shown) = c
    <2>1. ExistsBijection(1..c, R!Shown)
        BY <1>15 DEF ExistsBijection
    <2>2. IsFiniteSet(1..c)
        BY FS_Interval
    <2> QED
        BY <2>1, <2>2, FS_Bijection, FS_CountingElements
<1>17. c <= b
    <2>1. c = 0 \/ c \in 1..c
        OBVIOUS
    <2> QED
        BY <1>2, <1>10, <2>1
<1>18. \A n \in 1..c : (o - n) % b \in R!Shown
                       /\ sent[(o - n) % b].time = LastTime - Before(n - 1)
    BY <1>7, <1>8, <1>9, <1>10
<1>19. ASSUME NEW n \in 1..(o - 1), n <= b, n > c
       PROVE  d + Before(n - 1) >= RatesSecond
    <2>1. n \notin W
        BY <1>7, <1>19
    <2> QED
        BY <1>3, <1>4, <1>5, <1>19, <2>1, RatesConstantsHold
<1> QED
    BY <1>1, <1>2, <1>3, <1>11, <1>16, <1>17, <1>18, <1>19

LEMMA LeastIs ==
    ASSUME NEW V, V \subseteq Int, NEW x \in V, \A y \in V : x <= y
    PROVE  Min(V) = x
<1>1. Min(V) \in V /\ \A y \in V : Min(V) <= y
    BY Zenon DEF Min
<1>2. Min(V) <= x /\ x <= Min(V) /\ Min(V) \in Int /\ x \in Int
    BY <1>1
<1> QED
    BY <1>2

LEMMA GreatestIs ==
    ASSUME NEW V, V \subseteq Int, NEW x \in V, \A y \in V : y <= x
    PROVE  Max(V) = x
<1>1. Max(V) \in V /\ \A y \in V : Max(V) >= y
    <2>1. \A y \in V : x >= y
        OBVIOUS
    <2> QED
        BY <2>1, Zenon DEF Max
<1>2. Max(V) >= x /\ x >= Max(V) /\ Max(V) \in Int /\ x \in Int
    BY <1>1
<1> QED
    BY <1>2

LEMMA QuotientBetween ==
    ASSUME NEW a \in Nat, NEW b \in Nat \ {0}, NEW lo \in Nat, NEW hi \in Nat,
           b * lo <= a, a < b * hi + b
    PROVE  a \div b \in lo..hi
<1>1. PICK q \in Nat, r \in 0..(b - 1) : q = a \div b /\ a = b * q + r
    BY Division
<1>2. PICK x \in Nat, y \in Nat, z \in Nat : x = b * lo /\ y = b * hi /\ z = b * q
    BY Multiple
<1>3. ~(lo > q)
    <2>1. lo > q => x >= z + b
        BY <1>2, Times
    <2> QED
        BY <1>1, <1>2, <2>1
<1>4. ~(q > hi)
    <2>1. q > hi => z >= y + b
        BY <1>2, Times
    <2> QED
        BY <1>1, <1>2, <2>1
<1> QED
    BY <1>1, <1>3, <1>4

\* A fraction between two numbers is rounded to one between them.
LEMMA RoundBetween ==
    ASSUME NEW a \in Nat, NEW b \in Nat \ {0}, NEW lo \in Nat, NEW hi \in Nat,
           b * lo <= a, a <= b * hi
    PROVE  R!Round(a, b) \in lo..hi
<1>1. PICK x \in Nat, y \in Nat : x = b * lo /\ y = b * hi
    BY Multiple
<1>2. (2 * b) * lo = 2 * x /\ (2 * b) * hi = 2 * y
    BY <1>1, SMT
<1>3. PICK c \in Nat \ {0}, n \in Nat : c = 2 * b /\ n = 2 * a + b
    OBVIOUS
<1>4. c * lo <= n /\ n < c * hi + c
    BY <1>1, <1>2, <1>3
<1>5. n \div c \in lo..hi
    BY <1>4, QuotientBetween
<1> QED
    BY <1>3, <1>5 DEF R!Round

\* A fraction is rounded as the one that it is a multiple of.
LEMMA RoundScaled ==
    ASSUME NEW c \in Nat \ {0}, NEW a \in Nat, NEW b \in Nat \ {0}
    PROVE  R!Round(c * a, c * b) = R!Round(a, b)
<1>1. PICK n \in Nat, m \in Nat \ {0} : n = 2 * a + b /\ m = 2 * b
    OBVIOUS
<1>2. PICK q \in Nat, r \in 0..(m - 1) : q = n \div m /\ n = m * q + r
    BY Division
<1>3. PICK p \in Nat \ {0} : p = c * m
    <2>1. c * m \in Nat /\ c * m >= c * 0 + c /\ c * 0 = 0
        BY Times, Multiple, SMT
    <2> QED
        BY <2>1
<1>4. PICK k \in Nat : k = c * n
    BY Multiple
<1>5. PICK x \in Nat, y \in Nat : x = m * q /\ y = c * r
    BY Multiple
<1>6. k = p * q + y
    <2>1. c * (m * q + r) = (c * m) * q + c * r
        BY SMT
    <2> QED
        BY <1>2, <1>3, <1>4, <1>5, <2>1
<1>7. y < p
    <2>1. m > r
        OBVIOUS
    <2>2. c * m >= c * r + c
        BY <2>1, Times
    <2> QED
        BY <1>3, <1>5, <2>2
<1>8. k \div p = q
    <2>1. PICK z \in Nat : z = p * q
        BY Multiple
    <2>2. p * q <= k /\ k < p * q + p
        BY <1>6, <1>7, <2>1
    <2>3. k \div p \in q..q
        BY <2>2, QuotientBetween
    <2> QED
        BY <2>3
<1>9. 2 * (c * a) + c * b = k /\ 2 * (c * b) = p
    <2>1. 2 * (c * a) + c * b = c * (2 * a + b) /\ 2 * (c * b) = c * (2 * b)
        BY SMT
    <2> QED
        BY <1>1, <1>3, <1>4, <2>1
<1> QED
    BY <1>1, <1>2, <1>8, <1>9 DEF R!Round

\* The rate of an interval is between the numbers below it and above it.
LEMMA RateOfInterval ==
    ASSUME NEW e \in Nat \ {0}
    PROVE  LET lo == RatesSecond \div e
               hi == (RatesSecond + e - 1) \div e
           IN  /\ lo \in Nat /\ hi \in Nat /\ (hi = lo \/ hi = lo + 1)
               /\ e * lo <= RatesSecond /\ RatesSecond <= e * hi
               /\ R!Round(RatesSecond, e) \in {lo, hi}
               /\ Min({lo, hi}) = lo /\ Max({lo, hi}) = hi
<1>1. PICK n \in Nat \ {0} : n = RatesSecond
    BY RatesConstantsHold
<1>2. PICK lo \in Nat, r \in 0..(e - 1) : lo = n \div e /\ n = e * lo + r
    BY Division
<1>3. PICK m \in Nat : m = n + e - 1
    OBVIOUS
<1>4. PICK hi \in Nat, t \in 0..(e - 1) : hi = m \div e /\ m = e * hi + t
    BY Division
<1>5. PICK x \in Nat, y \in Nat : x = e * lo /\ y = e * hi
    BY Multiple
<1>6. x <= n /\ n <= y /\ y < x + 2 * e
    BY <1>2, <1>3, <1>4, <1>5
<1>7. ~(lo > hi)
    <2>1. lo > hi => x >= y + e
        BY <1>5, Times
    <2> QED
        BY <1>6, <2>1
<1>8. ~(hi > lo + 1)
    <2>1. hi > lo + 1 => y >= e * (lo + 1) + e
        BY <1>5, Times
    <2>2. e * (lo + 1) = x + e
        BY <1>5, SMT
    <2> QED
        BY <1>6, <2>1, <2>2
<1>9. hi = lo \/ hi = lo + 1
    BY <1>7, <1>8
<1>10. R!Round(n, e) \in lo..hi
    BY <1>5, <1>6, RoundBetween
<1>11. R!Round(n, e) \in {lo, hi}
    BY <1>9, <1>10
<1>12. Min({lo, hi}) = lo /\ Max({lo, hi}) = hi
    <2>1. {lo, hi} \subseteq Int /\ lo \in {lo, hi} /\ hi \in {lo, hi} /\ \A z \in {lo, hi} : lo <= z /\ z <= hi
        BY <1>9
    <2> QED
        BY <2>1, LeastIs, GreatestIs
<1> QED
    BY <1>1, <1>2, <1>3, <1>4, <1>5, <1>6, <1>9, <1>11, <1>12

\* Numbers have a bound.
LEMMA Bounded ==
    ASSUME NEW l \in Nat, NEW u \in [1..l -> Nat]
    PROVE  \E hi \in Nat : \A n \in 1..l : u[n] <= hi
<1> DEFINE Bound(n) == \E hi \in Nat : \A k \in 1..n : u[k] <= hi
           All == {n \in Nat : n <= l => Bound(n)}
<1>1. 0 \in All
    OBVIOUS
<1>2. ASSUME NEW n \in Nat, Bound(n), n + 1 <= l PROVE Bound(n + 1)
    <2>1. PICK hi \in Nat : \A k \in 1..n : u[k] <= hi
        BY <1>2
    <2>2. PICK x \in Nat : x = u[n + 1]
        BY <1>2
    <2>3. PICK top \in Nat : top >= x /\ top >= hi
        <3>1. hi + x \in Nat /\ hi + x >= x /\ hi + x >= hi
            OBVIOUS
        <3> QED
            BY <3>1
    <2>4. ASSUME NEW k \in 1..(n + 1) PROVE u[k] <= top
        <3>1. CASE k = n + 1
            BY <2>2, <2>3, <3>1
        <3>2. CASE k # n + 1
            <4>1. k \in 1..n /\ k \in 1..l
                BY <1>2, <3>2
            <4>2. u[k] <= hi /\ u[k] \in Nat
                BY <2>1, <4>1
            <4> QED
                BY <2>3, <4>2
        <3> QED
            BY <3>1, <3>2
    <2> QED
        BY <2>4
<1>3. l \in All
    <2> HIDE DEF Bound
    <2>1. \A n \in Nat : n \in All => n + 1 \in All
        BY <1>2
    <2> HIDE DEF All
    <2> QED
        BY <1>1, <2>1, Induction
<1> QED
    BY <1>3

LEMMA ProductGrows ==
    ASSUME NEW a \in Nat, NEW b \in Nat, NEW x \in Nat, NEW y \in Nat, a <= b, x <= y
    PROVE  a * x <= b * y /\ a * x \in Nat /\ b * y \in Nat
<1>1. ASSUME NEW m \in Nat, NEW n \in Nat PROVE m * n \in Nat /\ m * n = n * m
    <2>1. CASE m = 0
        <3>1. 0 * n = 0 /\ n * 0 = 0
            BY SMT
        <3> QED
            BY <2>1, <3>1
    <2>2. CASE m # 0
        BY <2>2, Multiple
    <2> QED
        BY <2>1, <2>2
<1>2. ASSUME NEW m \in Nat, NEW n \in Nat, NEW p \in Nat, n <= p PROVE m * n <= m * p
    <2>1. CASE m = 0
        <3>1. 0 * n = 0 /\ 0 * p = 0
            BY SMT
        <3> QED
            BY <2>1, <3>1
    <2>2. CASE n = p
        BY <1>1, <2>2
    <2>3. CASE m # 0 /\ n # p
        <3>1. m * p >= m * n + m
            BY <1>2, <2>3, Times
        <3>2. m * p \in Nat /\ m * n \in Nat
            BY <1>1
        <3> QED
            BY <3>1, <3>2
    <2> QED
        BY <2>1, <2>2, <2>3
<1>3. a * x <= a * y /\ y * a <= y * b
    BY <1>2
<1>4. /\ a * x \in Nat /\ a * y \in Nat /\ b * y \in Nat
      /\ y * a = a * y /\ y * b = b * y
    BY <1>1
<1> QED
    BY <1>3, <1>4

\* The bytes of the messages shown are that many times a size between two bounds.
LEMMA BytesBetween ==
    ASSUME SnapshotsInv, IsFiniteSet(R!Shown), NEW mn \in Nat, NEW mx \in Nat,
           \A s \in R!Shown : mn <= sent[s].size + Header /\ sent[s].size + Header <= mx
    PROVE  /\ R!BytesBefore[RatesBackup] \in Nat /\ Cardinality(R!Shown) \in Nat
           /\ Cardinality(R!Shown) * mn <= R!BytesBefore[RatesBackup]
           /\ R!BytesBefore[RatesBackup] <= Cardinality(R!Shown) * mx
<1>1. PICK b \in Nat : b = RatesBackup
    BY RatesConstantsHold
<1>2. PICK V : V = R!Shown /\ V \subseteq 0..(b - 1)
    BY <1>1 DEF R!Shown, SnapshotsInv, SentPlaces
<1>3. \A s \in V : sent[s].size + Header \in Nat
    BY <1>1, <1>2, RatesConstantsHold DEF SnapshotsInv, SentPlaces
<1>4. PICK u : u = [n \in 1..b |-> IF n - 1 \in V THEN sent[n - 1].size + Header ELSE 0]
    OBVIOUS
<1>5. u \in [1..b -> Int]
    BY <1>3, <1>4
<1>6. PICK g : g = CHOOSE h : h = [n \in 0..b |-> IF n = 0 THEN 0 ELSE h[n - 1] + u[n]]
    OBVIOUS
<1>7. g \in [0..b -> Int] /\ Sums(g, b, u)
    BY <1>5, <1>6, ChosenSums, Zenon
<1>8. R!BytesBefore = g
    <2>1. PICK bytes : bytes = CHOOSE h :
            h = [n \in 0..b |-> IF n = 0 THEN 0
                    ELSE h[n - 1] + IF n - 1 \in V THEN sent[n - 1].size + Header ELSE 0]
        OBVIOUS
    <2>2. R!BytesBefore = bytes
        BY <1>1, <1>2, <2>1, Zenon DEF R!BytesBefore
    <2>3. ASSUME NEW h
          PROVE  [n \in 0..b |-> IF n = 0 THEN 0
                    ELSE h[n - 1] + IF n - 1 \in V THEN sent[n - 1].size + Header ELSE 0]
                    = [n \in 0..b |-> IF n = 0 THEN 0 ELSE h[n - 1] + u[n]]
        <3>1. \A n \in 0..b : n = 0 \/ n \in 1..b
            OBVIOUS
        <3> QED
            BY <1>4, <3>1
    <2> QED
        BY <1>6, <2>1, <2>2, <2>3, Zenon
<1> DEFINE Below(n) == {s \in V : s < n}
           Between(n) == /\ Cardinality(Below(n)) \in Nat
                         /\ Cardinality(Below(n)) * mn <= g[n]
                         /\ g[n] <= Cardinality(Below(n)) * mx
           All == {n \in Nat : n <= b => Between(n)}
<1>9. \A n : IsFiniteSet(Below(n))
    BY <1>2, FS_Subset
<1>10. 0 \in All
    <2>1. \A s \in V : ~(s < 0)
        BY <1>2
    <2>2. Below(0) = {}
        BY <2>1, Zenon
    <2>3. Cardinality(Below(0)) = 0
        BY <2>2, FS_EmptySet
    <2>4. 0 * mn = 0 /\ 0 * mx = 0 /\ g[0] = 0
        BY <1>7, SMT DEF Sums
    <2> QED
        BY <2>3, <2>4
<1>11. ASSUME NEW n \in Nat, Between(n), n + 1 <= b PROVE Between(n + 1)
    <2>1. /\ n + 1 \in 1..b /\ (n + 1) - 1 = n /\ n \in 0..b
          /\ g[n + 1] = g[n] + u[n + 1] /\ g[n] \in Int
        BY <1>7, <1>11 DEF Sums
    <2>2. PICK c \in Nat : c = Cardinality(Below(n)) /\ c * mn <= g[n] /\ g[n] <= c * mx
        BY <1>11
    <2>3. CASE n \in V
        <3>1. n \notin Below(n) /\ \A s \in V : s < n + 1 <=> s < n \/ s = n
            <4>1. ~(n < n) /\ \A s \in 0..(b - 1) : s < n + 1 <=> s < n \/ s = n
                OBVIOUS
            <4> QED
                BY <1>2, <4>1
        <3>2. Below(n + 1) = Below(n) \cup {n}
            BY <2>3, <3>1, Zenon
        <3>3. PICK smaller : smaller = Below(n) /\ IsFiniteSet(smaller)
            BY <1>9
        <3>4. Cardinality(smaller \cup {n}) = Cardinality(smaller) + 1
            BY <3>1, <3>3, FS_AddElement
        <3>5. Cardinality(Below(n + 1)) = c + 1
            BY <2>2, <3>2, <3>3, <3>4
        <3>6. PICK x \in Nat : x = u[n + 1] /\ mn <= x /\ x <= mx
            BY <1>2, <1>3, <1>4, <2>1, <2>3
        <3>7. PICK y \in Int, z \in Int : y = c * mn /\ z = c * mx
            BY SMT
        <3>8. (c + 1) * mn = y + mn /\ (c + 1) * mx = z + mx
            BY <3>7, SMT
        <3>9. (c + 1) * mn <= g[n + 1] /\ g[n + 1] <= (c + 1) * mx
            BY <2>1, <2>2, <3>6, <3>7, <3>8
        <3> QED
            BY <3>5, <3>9
    <2>4. CASE n \notin V
        <3>1. \A s \in V : s < n + 1 <=> s < n
            <4>1. \A s \in 0..(b - 1) : s # n => (s < n + 1 <=> s < n)
                OBVIOUS
            <4> QED
                BY <1>2, <2>4, <4>1
        <3>2. Below(n + 1) = Below(n)
            BY <3>1, Zenon
        <3>3. g[n + 1] = g[n]
            BY <1>4, <2>1, <2>4
        <3> QED
            BY <1>11, <3>2, <3>3
    <2> QED
        BY <2>3, <2>4
<1>12. b \in All
    <2> HIDE DEF Between
    <2>1. \A n \in Nat : n \in All => n + 1 \in All
        BY <1>11
    <2> HIDE DEF All
    <2> QED
        BY <1>10, <2>1, Induction
<1>13. Below(b) = V
    <2>1. \A s \in V : s < b
        <3>1. \A s \in 0..(b - 1) : s < b
            OBVIOUS
        <3> QED
            BY <1>2, <3>1
    <2> QED
        BY <2>1, Zenon
<1>14. Cardinality(V) \in Nat /\ Cardinality(V) * mn <= g[b] /\ g[b] <= Cardinality(V) * mx
    BY <1>12, <1>13
<1>15. g[b] \in Nat
    <2>1. Cardinality(V) * mn \in Nat /\ g[b] \in Int
        BY <1>7, <1>14, ProductGrows
    <2> QED
        BY <1>14, <2>1
<1> QED
    BY <1>1, <1>2, <1>8, <1>14, <1>15

\* The sizes of the messages shown have a least and a greatest one.
LEMMA SizesBetween ==
    ASSUME SnapshotsInv, ratesOutgoing > 1, R!Shown # {}
    PROVE  LET sizes == {sent[s].size + Header : s \in R!Shown}
           IN  /\ Min(sizes) \in Nat /\ Max(sizes) \in Nat
               /\ \A s \in R!Shown : /\ Min(sizes) <= sent[s].size + Header
                                     /\ sent[s].size + Header <= Max(sizes)
<1>1. PICK b \in Nat : b = RatesBackup
    BY RatesConstantsHold
<1>2. PICK V : V = R!Shown /\ V \subseteq 0..(b - 1) /\ V # {}
    BY <1>1 DEF R!Shown, SnapshotsInv, SentPlaces
<1>3. \A s \in 0..(b - 1) : sent[s].size + Header \in Nat
    BY <1>1, RatesConstantsHold DEF SnapshotsInv, SentPlaces
<1>4. PICK sizes : sizes = {sent[s].size + Header : s \in V}
    OBVIOUS
<1>5. PICK u : u = [n \in 1..b |-> sent[n - 1].size + Header]
    OBVIOUS
<1>6. u \in [1..b -> Nat]
    BY <1>3, <1>5
<1>7. PICK hi \in Nat : \A n \in 1..b : u[n] <= hi
    BY <1>6, Bounded
<1>8. \A s \in V : sent[s].size + Header \in 0..hi
    <2>1. ASSUME NEW s \in V PROVE sent[s].size + Header \in 0..hi
        <3>1. s \in 0..(b - 1) /\ s + 1 \in 1..b /\ (s + 1) - 1 = s
            BY <1>2
        <3>2. u[s + 1] = sent[s].size + Header
            BY <1>5, <3>1
        <3> QED
            BY <1>3, <1>7, <3>1, <3>2
    <2> QED
        BY <2>1
<1>9. sizes \in SUBSET (0..hi) /\ sizes # {}
    BY <1>2, <1>4, <1>8
<1>10. PICK lo \in sizes, top \in sizes : \A x \in sizes : lo <= x /\ x <= top
    BY <1>9, Extremes
<1>11. Min(sizes) = lo /\ Max(sizes) = top
    <2>1. sizes \subseteq Int
        BY <1>9
    <2> QED
        BY <1>10, <2>1, LeastIs, GreatestIs
<1>12. \A s \in V : sent[s].size + Header \in sizes
    BY <1>4
<1>13. lo \in Nat /\ top \in Nat
    BY <1>9, <1>10
<1>14. sizes = {sent[s].size + Header : s \in R!Shown}
    BY <1>2, <1>4
<1>15. /\ Min(sizes) \in Nat /\ Max(sizes) \in Nat
       /\ \A s \in R!Shown : /\ Min(sizes) <= sent[s].size + Header
                             /\ sent[s].size + Header <= Max(sizes)
    BY <1>2, <1>10, <1>11, <1>12, <1>13
<1> QED
    BY <1>14, <1>15, Zenon

\* The messages shown span the intervals between them.
LEMMA SpanOfShown ==
    ASSUME SnapshotsInv, ratesOutgoing > 1, R!Shown # {}
    PROVE  /\ Cardinality(R!Shown) \in Nat \ {0}
           /\ Cardinality(R!Shown) >= 2 =>
                 R!PerSecond = [of |-> (Cardinality(R!Shown) - 1) * RatesSecond,
                                over |-> (Cardinality(R!Shown) - 1) * every]
           /\ Cardinality(R!Shown) = 1 => R!PerSecond = [of |-> 1, over |-> 1]
<1>1. PICK o \in Nat : o = ratesOutgoing /\ o > 1
    BY DEF SnapshotsInv
<1>2. PICK c \in 0..(o - 1) :
        /\ Cardinality(R!Shown) = c
        /\ \A n \in 1..c : /\ (o - n) % RatesBackup \in R!Shown
                           /\ sent[(o - n) % RatesBackup].time = LastTime - Before(n - 1)
        /\ \A s \in R!Shown : \E n \in 1..c : s = (o - n) % RatesBackup
    BY <1>1, ShownAre
<1>3. c \in Nat \ {0}
    <2>1. PICK s \in R!Shown : TRUE
        OBVIOUS
    <2>2. PICK n \in 1..c : s = (o - n) % RatesBackup
        BY <1>2, <2>1
    <2> QED
        BY <1>2, <2>2
<1>4. PICK times : times = {sent[s].time : s \in R!Shown}
    OBVIOUS
<1>5. PICK l \in Nat : l = LastTime
    BY LastTimeType
<1>6. \A n \in 0..(c - 1) : n \in Nat /\ Before(n) \in Nat /\ Before(n) <= Before(c - 1)
    BY <1>1, <1>3, BeforeGrows
<1>7. \A n \in 0..(c - 1) : l - Before(n) \in times
    <2>1. ASSUME NEW n \in 0..(c - 1) PROVE l - Before(n) \in times
        <3>1. n + 1 \in 1..c /\ (n + 1) - 1 = n
            BY <1>3
        <3>2. /\ (o - (n + 1)) % RatesBackup \in R!Shown
              /\ sent[(o - (n + 1)) % RatesBackup].time = l - Before(n)
            BY <1>2, <1>5, <3>1
        <3> QED
            BY <1>4, <3>2
    <2> QED
        BY <2>1
<1>8. \A x \in times : \E n \in 0..(c - 1) : x = l - Before(n)
    <2>1. ASSUME NEW x \in times PROVE \E n \in 0..(c - 1) : x = l - Before(n)
        <3>1. PICK s \in R!Shown : x = sent[s].time
            BY <1>4, <2>1
        <3>2. PICK n \in 1..c : s = (o - n) % RatesBackup
            BY <1>2, <3>1
        <3>3. n - 1 \in 0..(c - 1) /\ x = l - Before(n - 1)
            BY <1>2, <1>5, <3>1, <3>2
        <3> QED
            BY <3>3
    <2> QED
        BY <2>1
<1>9. PICK y \in Nat : y = Before(c - 1) /\ Before(0) = 0
    BY <1>1, <1>3, <1>6, BeforeGrows
<1>10. /\ times \subseteq Int /\ l \in times /\ l - y \in times
       /\ \A x \in times : l - y <= x /\ x <= l
    <2>1. 0 \in 0..(c - 1) /\ c - 1 \in 0..(c - 1)
        BY <1>3
    <2>2. l \in times /\ l - y \in times
        BY <1>7, <1>9, <2>1
    <2>3. ASSUME NEW x \in times PROVE x \in Int /\ l - y <= x /\ x <= l
        <3>1. PICK n \in 0..(c - 1) : x = l - Before(n)
            BY <1>8, <2>3
        <3>2. PICK z \in Nat : z = Before(n) /\ z <= y
            BY <1>6, <1>9, <3>1
        <3> QED
            BY <3>1, <3>2
    <2> QED
        BY <2>2, <2>3
<1>11. R!Max(times) = l /\ R!Min(times) = l - y /\ R!Cardinality(R!Shown) = c
    <2>1. Max(times) = l /\ Min(times) = l - y
        BY <1>10, LeastIs, GreatestIs
    <2> QED
        BY <1>2, <2>1, SameOperators
<1>12. R!PerSecond = IF c >= 2 /\ l > l - y
                     THEN [of |-> (c - 1) * RatesSecond, over |-> l - (l - y)]
                     ELSE [of |-> c, over |-> 1]
    BY <1>4, <1>11, Zenon DEF R!PerSecond
<1>13. c >= 2 => y > 0
    <2>1. c >= 2 => Before(0) + every <= Before(c - 1) /\ every \in Nat \ {0}
        BY <1>1, <1>3, BeforeGrows
    <2> QED
        BY <1>9, <2>1
<1>14. l - (l - y) = y /\ y = (c - 1) * every
    BY <1>9 DEF Before
<1>15. CASE c >= 2
    <2>1. l > l - y
        BY <1>13, <1>15
    <2>2. R!PerSecond = [of |-> (c - 1) * RatesSecond, over |-> (c - 1) * every]
        BY <1>12, <1>14, <1>15, <2>1
    <2>3. c # 1
        BY <1>15
    <2> QED
        BY <1>2, <1>3, <2>2, <2>3
<1>16. CASE ~(c >= 2)
    <2>1. R!PerSecond = [of |-> c, over |-> 1] /\ c = 1
        BY <1>3, <1>12, <1>16
    <2> QED
        BY <1>2, <1>3, <1>16, <2>1
<1> QED
    BY <1>15, <1>16

\* The mean size times the rate is between the products of their bounds.
LEMMA RateBetween ==
    ASSUME NEW c \in Nat \ {0}, NEW k \in Nat \ {0}, NEW e \in Nat \ {0}, NEW n \in Nat,
           NEW bytes \in Nat, NEW mn \in Nat, NEW mx \in Nat, NEW lo \in Nat, NEW hi \in Nat,
           c * mn <= bytes, bytes <= c * mx, e * lo <= n, n <= e * hi
    PROVE  /\ mn * lo \in Nat /\ mx * hi \in Nat
           /\ R!Round(bytes * (k * n), c * (k * e)) \in (mn * lo)..(mx * hi)
<1>1. ASSUME NEW p \in Nat, NEW q \in Nat PROVE p * q \in Nat
    <2>1. p <= p /\ q <= q
        OBVIOUS
    <2> QED
        BY <2>1, ProductGrows
<1>2. ASSUME NEW p \in Nat \ {0}, NEW q \in Nat \ {0} PROVE p * q \in Nat \ {0}
    <2>1. p * q >= p * 0 + p /\ p * 0 = 0 /\ p * q \in Int
        BY Times, SMT
    <2> QED
        BY <2>1
<1>3. PICK x \in Nat, y \in Nat, v \in Nat, w \in Nat :
            x = c * mn /\ y = c * mx /\ v = e * lo /\ w = e * hi
    BY <1>1
<1>4. PICK kv \in Nat, kn \in Nat, kw \in Nat : kv = k * v /\ kn = k * n /\ kw = k * w
    BY <1>1
<1>5. kv <= kn /\ kn <= kw
    <2>1. k <= k /\ v <= n /\ n <= w
        BY <1>3
    <2> QED
        BY <1>4, <2>1, ProductGrows
<1>6. x * kv <= bytes * kn /\ bytes * kn <= y * kw /\ bytes * kn \in Nat
    <2>1. x <= bytes /\ bytes <= y
        BY <1>3
    <2> QED
        BY <1>5, <2>1, ProductGrows
<1>7. PICK m \in Nat \ {0} : m = c * (k * e)
    BY <1>2
<1>8. m * (mn * lo) = x * kv /\ m * (mx * hi) = y * kw
    <2>1. /\ (c * (k * e)) * (mn * lo) = (c * mn) * (k * (e * lo))
          /\ (c * (k * e)) * (mx * hi) = (c * mx) * (k * (e * hi))
        BY SMT
    <2> QED
        BY <1>3, <1>4, <1>7, <2>1
<1>9. PICK a \in Nat : a = bytes * kn
    BY <1>6
<1>10. PICK l \in Nat, h \in Nat : l = mn * lo /\ h = mx * hi
    BY <1>1
<1>11. m * l <= a /\ a <= m * h
    BY <1>6, <1>8, <1>9, <1>10
<1>12. R!Round(a, m) \in l..h
    BY <1>11, RoundBetween
<1> QED
    BY <1>4, <1>7, <1>9, <1>10, <1>12

\* An only message in the last second comes at an interval of half a second or more.
LEMMA OnlyMessage ==
    ASSUME SnapshotsInv, ratesOutgoing > 1, every < RatesSecond, ~R!Due,
           ratesNow - (LastTime - Before(ratesOutgoing - 2)) >= RatesSecond
    PROVE  /\ R!Shown # {}
           /\ Cardinality(R!Shown) = 1 => RatesSecond < 2 * every
<1>1. PICK o \in Nat : o = ratesOutgoing /\ o > 1
    BY DEF SnapshotsInv
<1>2. PICK b \in Nat \ {0, 1} : b = RatesBackup
    BY RatesConstantsHold
<1>3. PICK c \in 0..(o - 1) :
        /\ Cardinality(R!Shown) = c
        /\ \A n \in 1..c : (o - n) % b \in R!Shown
        /\ \A n \in 1..(o - 1) : n <= b /\ n > c =>
              ratesNow - LastTime + Before(n - 1) >= RatesSecond
    BY <1>1, <1>2, ShownAre
<1>4. PICK e \in Nat \ {0}, second \in Nat, t \in Nat, x \in Nat :
        e = every /\ second = RatesSecond /\ t = ratesNow /\ x = LastTime
    BY <1>1, RatesConstantsHold, LastTimeType, BeforeGrows
<1>5. Before(0) = 0 /\ Before(1) = e
    BY <1>1, <1>4, BeforeGrows
<1>6. t <= x + e /\ t # x + e /\ e < second
    BY <1>1, <1>4 DEF SnapshotsInv, R!Due, LastTime
<1>7. c # 0
    <2>1. SUFFICES ASSUME c = 0 PROVE FALSE
        OBVIOUS
    <2>2. 1 \in 1..(o - 1) /\ 1 <= b /\ 1 > c /\ 1 - 1 = 0
        BY <1>1, <1>2, <2>1
    <2>3. t - x + 0 >= second
        BY <1>3, <1>4, <1>5, <2>2
    <2> QED
        BY <1>6, <2>3
<1>8. R!Shown # {}
    <2>1. 1 \in 1..c
        BY <1>7
    <2> QED
        BY <1>3, <2>1
<1>9. ASSUME c = 1 PROVE second < 2 * e
    <2>1. o # 2
        <3>1. SUFFICES ASSUME o = 2 PROVE FALSE
            OBVIOUS
        <3>2. o - 2 = 0
            BY <3>1
        <3>3. t - (x - 0) >= second
            BY <1>1, <1>4, <1>5, <3>2
        <3> QED
            BY <1>6, <3>3
    <2>2. 2 \in 1..(o - 1) /\ 2 <= b /\ 2 > c /\ 2 - 1 = 1
        BY <1>1, <1>2, <1>9, <2>1
    <2>3. t - x + e >= second
        BY <1>3, <1>4, <1>5, <2>2
    <2> QED
        BY <1>6, <2>3
<1> QED
    BY <1>3, <1>4, <1>8, <1>9

LEMMA SnapshotsFollow ==
    ASSUME SnapshotsInv
    PROVE  R!SnapshotsAsTheyCome
<1>1. CASE ~(ratesOutgoing > 1)
    BY <1>1 DEF R!SnapshotsAsTheyCome
<1>2. CASE ratesOutgoing > 1
    <2>1. PICK e \in Nat \ {0} : e = every
        BY <1>2, BeforeGrows
    <2>2. PICK second \in Nat \ {0} : second = RatesSecond
        BY RatesConstantsHold
    <2>3. PICK lo \in Nat, hi \in Nat :
            /\ lo = second \div e /\ hi = (second + e - 1) \div e
            /\ (hi = lo \/ hi = lo + 1)
            /\ e * lo <= second /\ second <= e * hi
            /\ R!Round(second, e) \in {lo, hi}
            /\ Min({lo, hi}) = lo /\ Max({lo, hi}) = hi
        BY <2>2, RateOfInterval
    <2>4. PICK sizes : sizes = {sent[s].size + Header : s \in R!Shown}
        OBVIOUS
    <2>5. ASSUME R!Shown # {}
          PROVE  \E c \in Nat \ {0}, bytes \in Nat, mn \in Nat, mx \in Nat :
                    /\ c = Cardinality(R!Shown) /\ bytes = R!BytesBefore[RatesBackup]
                    /\ mn = Min(sizes) /\ mx = Max(sizes)
                    /\ c * mn <= bytes /\ bytes <= c * mx
                    /\ R!Rate = R!Round(bytes * R!PerSecond.of, c * R!PerSecond.over)
        <3>1. PICK mn \in Nat, mx \in Nat :
                /\ mn = Min(sizes) /\ mx = Max(sizes)
                /\ \A s \in R!Shown : /\ mn <= sent[s].size + Header
                                      /\ sent[s].size + Header <= mx
            BY <1>2, <2>4, <2>5, SizesBetween
        <3>2. IsFiniteSet(R!Shown)
            BY <1>2, ShownAre
        <3>3. PICK c \in Nat \ {0} : c = Cardinality(R!Shown)
            BY <1>2, <2>5, SpanOfShown
        <3>4. PICK bytes \in Nat : /\ bytes = R!BytesBefore[RatesBackup]
                                   /\ c * mn <= bytes /\ bytes <= c * mx
            BY <3>1, <3>2, <3>3, BytesBetween
        <3>5. R!Rate = R!Round(bytes * R!PerSecond.of, c * R!PerSecond.over)
            BY <2>5, <3>3, <3>4, SameOperators, Zenon DEF R!Rate
        <3> QED
            BY <3>1, <3>3, <3>4, <3>5
    <2>6. Cardinality(R!Shown) >= 2 => R!Shown # {}
        <3>1. R!Shown = {} => Cardinality(R!Shown) = 0
            BY FS_EmptySet
        <3> QED
            BY <3>1
    <2>7. Cardinality(R!Shown) >= 2 => R!Snaps = R!Round(second, e)
        <3>1. SUFFICES ASSUME Cardinality(R!Shown) >= 2 PROVE R!Snaps = R!Round(second, e)
            OBVIOUS
        <3>2. PICK c \in Nat \ {0} : c = Cardinality(R!Shown)
            BY <2>5, <2>6, <3>1
        <3>3. PICK k \in Nat \ {0} : k = c - 1
            BY <3>1, <3>2
        <3>4. R!PerSecond = [of |-> k * second, over |-> k * e]
            BY <1>2, <2>1, <2>2, <2>6, <3>1, <3>2, <3>3, SpanOfShown
        <3>5. R!Round(k * second, k * e) = R!Round(second, e)
            BY RoundScaled
        <3> QED
            BY <3>4, <3>5 DEF R!Snaps
    <2>8. ASSUME every < RatesSecond, ~R!Due,
                 ratesNow - (LastTime - Before(ratesOutgoing - 2)) >= RatesSecond
          PROVE  R!Snaps \in {lo, hi} /\ R!Rate >= Min(sizes) * lo /\ R!Rate <= Max(sizes) * hi
        <3>1. R!Shown # {} /\ (Cardinality(R!Shown) = 1 => second < 2 * e)
            BY <1>2, <2>1, <2>2, <2>8, OnlyMessage
        <3>2. PICK c \in Nat \ {0}, bytes \in Nat, mn \in Nat, mx \in Nat :
                /\ c = Cardinality(R!Shown) /\ mn = Min(sizes) /\ mx = Max(sizes)
                /\ c * mn <= bytes /\ bytes <= c * mx
                /\ R!Rate = R!Round(bytes * R!PerSecond.of, c * R!PerSecond.over)
            BY <2>5, <3>1
        <3>3. CASE c >= 2
            <4>1. PICK k \in Nat \ {0} : k = c - 1
                BY <3>3
            <4>2. R!PerSecond = [of |-> k * second, over |-> k * e]
                BY <1>2, <2>1, <2>2, <3>1, <3>2, <3>3, <4>1, SpanOfShown
            <4>3. R!Rate = R!Round(bytes * (k * second), c * (k * e))
                BY <3>2, <4>2
            <4>4. /\ mn * lo \in Nat /\ mx * hi \in Nat
                  /\ R!Round(bytes * (k * second), c * (k * e)) \in (mn * lo)..(mx * hi)
                <5>1. second \in Nat /\ c * mn <= bytes /\ bytes <= c * mx
                    BY <2>2, <3>2
                <5>2. e * lo <= second /\ second <= e * hi
                    BY <2>3
                <5> QED
                    BY <5>1, <5>2, RateBetween, Zenon
            <4>5. R!Rate >= mn * lo /\ R!Rate <= mx * hi
                BY <4>3, <4>4
            <4>6. R!Snaps \in {lo, hi}
                BY <2>3, <2>7, <3>2, <3>3
            <4> QED
                BY <3>2, <4>5, <4>6
        <3>4. CASE ~(c >= 2)
            <4>1. c = 1 /\ second < 2 * e /\ e < second
                BY <2>1, <2>2, <2>8, <3>1, <3>2, <3>4
            <4>2. R!PerSecond = [of |-> 1, over |-> 1]
                BY <1>2, <3>1, <3>2, <4>1, SpanOfShown
            <4>3. lo = 1
                <5>1. e * 1 <= second /\ second < e * 1 + e
                    BY <4>1
                <5>2. second \div e \in 1..1
                    BY <5>1, QuotientBetween
                <5> QED
                    BY <2>3, <5>2
            <4>4. R!Snaps = 1
                <5>1. 1 * 1 <= 1
                    OBVIOUS
                <5>2. R!Round(1, 1) \in 1..1
                    BY <5>1, RoundBetween
                <5> QED
                    BY <4>2, <5>2 DEF R!Snaps
            <4>5. R!Rate = R!Round(bytes * (1 * 1), c * (1 * 1))
                BY <3>2, <4>2
            <4>6. 1 * lo <= 1 /\ 1 <= 1 * hi
                BY <2>3, <4>3
            <4>7. /\ mn * lo \in Nat /\ mx * hi \in Nat
                  /\ R!Round(bytes * (1 * 1), c * (1 * 1)) \in (mn * lo)..(mx * hi)
                <5>1. 1 \in Nat \ {0} /\ 1 \in Nat /\ c * mn <= bytes /\ bytes <= c * mx
                    BY <3>2
                <5> QED
                    BY <4>6, <5>1, RateBetween, Zenon
            <4>8. R!Rate >= mn * lo /\ R!Rate <= mx * hi
                BY <4>5, <4>7
            <4> QED
                BY <3>2, <4>3, <4>4, <4>8
        <3> QED
            BY <3>3, <3>4
    <2>9. PICK first : first = LastTime - Before(ratesOutgoing - 2)
        OBVIOUS
    <2>10. PICK rates : rates = {lo, hi}
        OBVIOUS
    <2>11. /\ R!Cardinality(R!Shown) >= 2 => R!Snaps = R!Round(RatesSecond, every)
           /\ every < RatesSecond /\ ratesNow - first >= RatesSecond /\ ~R!Due =>
                R!Snaps \in rates /\ R!Rate >= R!Min(sizes) * R!Min(rates)
                                  /\ R!Rate <= R!Max(sizes) * R!Max(rates)
        <3>1. R!Cardinality(R!Shown) >= 2 => R!Snaps = R!Round(RatesSecond, every)
            BY <2>1, <2>2, <2>7, SameOperators
        <3>2. ASSUME every < RatesSecond, ratesNow - first >= RatesSecond, ~R!Due
              PROVE  R!Snaps \in rates /\ R!Rate >= R!Min(sizes) * R!Min(rates)
                                       /\ R!Rate <= R!Max(sizes) * R!Max(rates)
            <4>1. R!Snaps \in {lo, hi} /\ R!Rate >= Min(sizes) * lo /\ R!Rate <= Max(sizes) * hi
                BY <2>8, <2>9, <3>2
            <4>2. /\ R!Min(sizes) = Min(sizes) /\ R!Max(sizes) = Max(sizes)
                  /\ R!Min(rates) = lo /\ R!Max(rates) = hi
                BY <2>3, <2>10, SameOperators
            <4> QED
                BY <2>10, <4>1, <4>2
        <3> QED
            BY <3>1, <3>2
    <2>12. /\ rates = {RatesSecond \div every, (RatesSecond + every - 1) \div every}
           /\ first = sent[(ratesOutgoing - 1) % RatesBackup].time - (ratesOutgoing - 2) * every
        BY <2>1, <2>2, <2>3, <2>9, <2>10 DEF LastTime, Before
    <2> QED
        BY <2>4, <2>11, <2>12, Zenon DEF R!SnapshotsAsTheyCome
<1> QED
    BY <1>1, <1>2

RatesInv == PacketsInv /\ SnapshotsInv

LEMMA RatesNext ==
    ASSUME RatesInv, R!Next
    PROVE  RatesInv'
<1>1. CASE R!Tick
    <2>1. /\ UNCHANGED <<follows, every, sent, ratesOutgoing, ring, packetIndex, received>>
          /\ ratesNow' = ratesNow + 1 /\ ~R!Due
        BY <1>1 DEF R!Tick
    <2>2. PICK t \in Nat \ {0} : t = ratesNow
        BY DEF RatesInv, PacketsInv
    <2>3. ratesOutgoing > 1 => ratesNow' <= LastTime + every
        <3>1. SUFFICES ASSUME ratesOutgoing > 1 PROVE t + 1 <= LastTime + every
            BY <2>1, <2>2
        <3>2. PICK x \in Nat, e \in Nat \ {0} : x = LastTime /\ e = every
            BY <3>1, LastTimeType, BeforeGrows DEF RatesInv
        <3>3. t <= x + e /\ t # x + e
            BY <2>1, <2>2, <3>1, <3>2 DEF RatesInv, SnapshotsInv, R!Due, LastTime
        <3> QED
            BY <3>2, <3>3
    <2>4. ratesNow' \in Nat \ {0} /\ ratesNow' >= ratesNow
        BY <2>1, <2>2
    <2> QED
        BY <2>1, <2>3, <2>4, PacketsTick, SnapshotsTick DEF RatesInv
<1>2. ASSUME NEW size \in Sizes, R!SnapshotSent(size) PROVE RatesInv'
    <2>1. UNCHANGED <<ratesNow, ring, packetIndex, received>>
        BY <1>2 DEF R!SnapshotSent
    <2>2. ratesNow' \in Nat /\ ratesNow' >= ratesNow
        BY <2>1 DEF RatesInv, PacketsInv
    <2> QED
        BY <1>2, <2>1, <2>2, PacketsTick, SnapshotsNext DEF RatesInv
<1>3. ASSUME NEW cmds \in Cmds, R!PacketReceived(cmds) PROVE RatesInv'
    <2>1. UNCHANGED <<ratesNow, follows, every, sent, ratesOutgoing>>
        BY <1>3 DEF R!PacketReceived
    <2>2. /\ ratesNow' \in Nat \ {0} /\ ratesNow' >= ratesNow
          /\ ratesOutgoing > 1 => ratesNow' <= LastTime + every
        BY <2>1 DEF RatesInv, PacketsInv, SnapshotsInv
    <2> QED
        BY <1>3, <2>1, <2>2, PacketsReceived, SnapshotsTick DEF RatesInv
<1> QED
    BY <1>1, <1>2, <1>3 DEF R!Next

\* Whatever packets come and whatever the sizes and the interval of the snapshots: the
\* walk through the ring counts the packets and usercmds of the last second and no
\* other, and the rates are those of the snapshots, though the ring and the second hold
\* few of them (CountPackets, GetRates).
THEOREM LastSecondIsAsItWas == MCSpec => []LastSecondAsItWas
<1>1. MCInit => RatesInv
    BY PacketsInit, SnapshotsInit DEF MCInit, RatesInv
<1>2. RatesInv /\ [MCNext]_<<part, vars, timenudgeVars, clientTimeVars, netRatesVars,
                            pagesVars>>
        => RatesInv'
    <2> SUFFICES ASSUME RatesInv, UNCHANGED netRatesVars PROVE RatesInv'
        BY RatesNext DEF MCNext
    <2>1. UNCHANGED <<ratesNow, follows, every, sent, ratesOutgoing, ring, packetIndex,
                      received>>
        BY DEF netRatesVars
    <2>2. /\ ratesNow' \in Nat \ {0} /\ ratesNow' >= ratesNow
          /\ ratesOutgoing > 1 => ratesNow' <= LastTime + every
        BY <2>1 DEF RatesInv, PacketsInv, SnapshotsInv
    <2> QED
        BY <2>1, <2>2, PacketsTick, SnapshotsTick DEF RatesInv
<1>3. RatesInv => LastSecondAsItWas
    BY PacketsFollow, SnapshotsFollow DEF RatesInv, LastSecondAsItWas, R!LastSecondAsItWas
<1> QED
    BY <1>1, <1>2, <1>3, PTL DEF MCSpec
=============================================================================
