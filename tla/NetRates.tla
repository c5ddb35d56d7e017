------------------------------ MODULE NetRates ------------------------------
(***************************************************************************)
(* What /netStatus counts in the last second of one client: the packets    *)
(* and usercmds that came (CountPackets), and the snapshots and bytes that *)
(* were sent (GetRates), each over a ring that may hold less than a second.*)
(*                                                                         *)
(* The snapshots of the client come at a regular interval, which is        *)
(* followed from its first one.  The two sides do not meet: an instance    *)
(* follows one of them.                                                    *)
(***************************************************************************)
EXTENDS Integers, Sequences, FiniteSetsExt

CONSTANTS
    PacketSamples,  \* 1024
    Backup,         \* PACKET_BACKUP: 32, more than one
    Second,         \* 1000 ms
    Header,         \* 48 bytes
    Sizes,          \* bound: messageSize of a snapshot
    Intervals,      \* bound: milliseconds between two snapshots
    Cmds,           \* bound: usercmds of a packet
    MaxNow,         \* bound: milliseconds
    MaxPackets      \* bound: packets in one millisecond

NetRatesConstants ==
    /\ {PacketSamples, Second, MaxNow} \subseteq Nat \ {0} /\ Backup \in Nat \ {0, 1}
    /\ {Header, MaxPackets} \subseteq Nat
    /\ Sizes \subseteq Nat /\ Cmds \subseteq Nat /\ Intervals \subseteq Nat \ {0}

VARIABLES
    now,            \* the milliseconds, while they are positive
    follows,        \* bound: "packets" or "snapshots", what is followed
    every,          \* the interval of the snapshots
    sent,           \* the ring of the messages: time, sequence and size
    outgoing,       \* netchan.outgoingSequence
    ring,           \* packetTime and packetCmds
    packetIndex,
    received        \* history: the packets of the last second, the newest first

netRatesVars == <<now, follows, every, sent, outgoing, ring, packetIndex, received>>

Init ==
    /\ now = 1 /\ follows \in {"packets", "snapshots"}
    /\ every \in IF follows = "snapshots" THEN Intervals ELSE {Max(Intervals)}
    /\ sent = [s \in 0..(Backup - 1) |-> [time |-> 0, sequence |-> 0, size |-> 0]]
    /\ outgoing = 1
    /\ ring = [i \in 0..(PacketSamples - 1) |-> [time |-> 0, cmds |-> 0]]
    /\ packetIndex = 0
    /\ received = <<>>

-----------------------------------------------------------------------------
(* What happens *)

\* The next message is due, one interval after the last one.
Due == outgoing > 1 /\ now = sent[(outgoing - 1) % Backup].time + every

InLastSecond(time) == now - time < Second
OfLastSecond == {n \in DOMAIN received : InLastSecond(received[n].time)}

\* A millisecond passes.
Tick ==
    /\ now < MaxNow /\ ~Due
    /\ now' = now + 1
    /\ UNCHANGED <<follows, every, sent, outgoing, ring, packetIndex, received>>

SnapshotSent(size) ==
    /\ follows = "snapshots"
    /\ outgoing = 1 \/ Due
    /\ sent' = [sent EXCEPT ![outgoing % Backup] =
                    [time |-> now, sequence |-> outgoing, size |-> size]]
    /\ outgoing' = outgoing + 1
    /\ UNCHANGED <<now, follows, every, ring, packetIndex, received>>

\* PacketReceived: a packet with so many new usercmds.
PacketReceived(cmds) ==
    /\ follows = "packets"
    /\ Cardinality({n \in DOMAIN received : received[n].time = now}) < MaxPackets
    /\ ring' = [ring EXCEPT ![packetIndex] = [time |-> now, cmds |-> cmds]]
    /\ packetIndex' = (packetIndex + 1) % PacketSamples
    /\ received' = [n \in 1..(Cardinality(OfLastSecond) + 1) |->
                        IF n = 1 THEN [time |-> now, cmds |-> cmds] ELSE received[n - 1]]
    /\ UNCHANGED <<now, follows, every, sent, outgoing>>

-----------------------------------------------------------------------------
(* What is shown *)

\* Mutant of Newest: the slot of the next packet counts as the newest.
NewestFromIndex(n) == ring[(packetIndex - n + 1 + PacketSamples) % PacketSamples]

\* The n-th packet from the newest one back.
Newest(n) == ring[(packetIndex - n + PacketSamples) % PacketSamples]

\* CountPackets stops at the first one that is too old, or at a slot never used.
Packets ==
    LET stops == {n \in 1..PacketSamples :
                    Newest(n).time = 0 \/ ~InLastSecond(Newest(n).time)}
    IN  IF stops = {} THEN PacketSamples ELSE Min(stops) - 1

Fps ==
    LET sum[n \in 0..Packets] == IF n = 0 THEN 0 ELSE sum[n - 1] + Newest(n).cmds
    IN  sum[Packets]

Shown == {s \in DOMAIN sent : sent[s].sequence # 0 /\ InLastSecond(sent[s].time)}

\* lround of a fraction.
Round(a, b) == (2 * a + b) \div (2 * b)

\* Mutant of PerSecond: as many as there are, not the intervals between them.
PerSecondOfAll ==
    LET times == {sent[s].time : s \in Shown}
    IN  IF Cardinality(Shown) >= 2
        THEN [of |-> Cardinality(Shown) * Second, over |-> Max(times) - Min(times)]
        ELSE [of |-> Cardinality(Shown), over |-> 1]

\* perSecond, as a fraction: over the span that the messages cover.
PerSecond ==
    LET times == {sent[s].time : s \in Shown}
    IN  IF Cardinality(Shown) >= 2 /\ Max(times) > Min(times)
        THEN [of |-> (Cardinality(Shown) - 1) * Second, over |-> Max(times) - Min(times)]
        ELSE [of |-> Cardinality(Shown), over |-> 1]

Snaps == Round(PerSecond.of, PerSecond.over)

\* The bytes of the messages in the slots before n.
BytesBefore[n \in 0..Backup] ==
    IF n = 0 THEN 0
    ELSE BytesBefore[n - 1] + IF n - 1 \in Shown THEN sent[n - 1].size + Header ELSE 0

\* The mean size of the messages times their rate.
Rate ==
    IF Shown = {} THEN 0
    ELSE Round(BytesBefore[Backup] * PerSecond.of, Cardinality(Shown) * PerSecond.over)

Next ==
    \/ Tick
    \/ \E size \in Sizes : SnapshotSent(size)
    \/ \E cmds \in Cmds : PacketReceived(cmds)

-----------------------------------------------------------------------------
(* Properties *)

\* "Packets received from the client" and "usercmds received from the client" in the
\* last second: all of them and no other, though the ring is walked through
\* backwards and goes around, up to the size of the ring (CountPackets).
PacketsOfTheLastSecond ==
    LET last == OfLastSecond \cap 1..PacketSamples
        cmds[n \in 0..Len(received)] ==
            IF n = 0 THEN 0 ELSE cmds[n - 1] + IF n \in last THEN received[n].cmds ELSE 0
    IN  Packets = Cardinality(last) /\ Fps = cmds[Len(received)]

\* trueSnaps and trueRate are those of the snapshots, however few of them the last
\* second or the ring holds: "when the client gets more than 32 per second the rate
\* is the one of the span they cover" (GetRates).
SnapshotsAsTheyCome ==
    outgoing > 1 =>
        LET rates == {Second \div every, (Second + every - 1) \div every}
            sizes == {sent[s].size + Header : s \in Shown}
            first == sent[(outgoing - 1) % Backup].time - (outgoing - 2) * every
        IN  /\ Cardinality(Shown) >= 2 => Snaps = Round(Second, every)
            /\ every < Second /\ now - first >= Second /\ ~Due =>
                 Snaps \in rates /\ Rate >= Min(sizes) * Min(rates)
                                 /\ Rate <= Max(sizes) * Max(rates)

\* What /netStatus shows of the last second is what came and what was sent in it.
LastSecondAsItWas == PacketsOfTheLastSecond /\ SnapshotsAsTheyCome
=============================================================================
