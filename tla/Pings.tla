------------------------------- MODULE Pings --------------------------------
(***************************************************************************)
(* The pings of one client in the game: the engine's, over the ring of the *)
(* last messages (SV_SendMessageToClient, SV_UserMove, SV_CalcPings), and  *)
(* the net ping of /netStatus (PacketReceived, Engine/NetStatus.cpp).      *)
(*                                                                         *)
(* The milliseconds of the system are a signed integer that wraps; svs.time*)
(* follows them by frames.  The messages take any time, are lost or not;   *)
(* the netchan drops the packets out of order, so the client never         *)
(* acknowledges an older message than before.                              *)
(***************************************************************************)
EXTENDS Integers, FiniteSetsExt

CONSTANTS
    Backup,         \* PACKET_BACKUP: 32
    RttSamples,     \* round trips kept: 64
    Half,           \* 2^31
    Second,         \* a window: 1000 ms
    Memory,         \* round trips that count: 4000 ms
    MaxRtt,         \* round trips kept: up to 2000 ms
    MaxPing,        \* 999
    MaxMessages,    \* bound: messages sent to the client
    Scenarios       \* bound: what Sys_Milliseconds reads when the client comes,
                    \* how long it is followed, and the values of
                    \* <<proxy_sv_pingFix, proxy_sv_enableNetStatus>> that are used

Clock == (-Half)..(Half - 1)

ASSUME PingsAssumption ==
    /\ {Backup, RttSamples, Half, Second, MaxPing} \subseteq Nat \ {0}
    /\ {Memory, MaxRtt, MaxMessages} \subseteq Nat
    /\ Scenarios \subseteq
          [start : Clock, elapsed : 0..(Half - 1), settings : SUBSET (BOOLEAN \X BOOLEAN)]

VARIABLES
    scenario,       \* the one of Scenarios that is followed
    elapsed,        \* real time since
    serverTime,     \* svs.time
    pingFix,        \* proxy_sv_pingFix
    netStatus,      \* proxy_sv_enableNetStatus
    outgoing,       \* netchan.outgoingSequence: the next message
    acknowledge,    \* messageAcknowledge
    frames,         \* the ring of client->frames
    estimate,       \* clientData.netStatus
    history         \* per message: when it was sent, when first acknowledged

start == scenario.start
settings == <<pingFix, netStatus>>
vars == <<scenario, elapsed, serverTime, settings, outgoing, acknowledge, frames, estimate, history>>

Slots == 0..(Backup - 1)
Slot(message) == message % Backup
Messages == 1..MaxMessages
Never == -1

-----------------------------------------------------------------------------
(* Clocks *)

\* A difference of two int, or a time, on 32 bits.
Signed(x) == ((x + Half) % (2 * Half)) - Half

Milliseconds == Signed(start + elapsed)
Now == IF pingFix THEN Milliseconds ELSE serverTime

-----------------------------------------------------------------------------
(* State *)

\* "fix", "of" and "ackedFix" say which clock and which message a time is of.
FrameType ==
    [sent : Int, acked : Int, message : 0..MaxMessages, of : 0..MaxMessages,
     fix : BOOLEAN, ackedFix : BOOLEAN]

UnusedFrame ==
    [sent |-> 0, acked |-> 0, message |-> 0, of |-> 0, fix |-> FALSE, ackedFix |-> FALSE]

\* A round trip: when, how long, and of which message.
NoRtt == [time |-> 0, value |-> 0, message |-> 0]

EstimateType ==
    [sentTime : [Slots -> Clock], sentSequence : [Slots -> 0..MaxMessages],
     lastAcked : 0..MaxMessages,
     rtt : [0..(RttSamples - 1) ->
                [time : Clock, value : 0..MaxRtt, message : 0..MaxMessages]],
     rttIndex : 0..(RttSamples - 1), windowStart : Clock, netPing : 0..MaxRtt]

NewEstimate ==
    [sentTime |-> [s \in Slots |-> 0], sentSequence |-> [s \in Slots |-> 0],
     lastAcked |-> 0,
     rtt |-> [i \in 0..(RttSamples - 1) |-> NoRtt], rttIndex |-> 0,
     windowStart |-> 0, netPing |-> 0]

TypeOK ==
    /\ scenario \in Scenarios
    /\ elapsed \in 0..scenario.elapsed /\ serverTime \in 1..(elapsed + 1)
    /\ settings \in scenario.settings
    /\ outgoing \in 1..(MaxMessages + 1) /\ acknowledge \in 0..MaxMessages
    /\ acknowledge < outgoing
    /\ frames \in [Slots -> FrameType]
    /\ estimate \in EstimateType
    /\ history \in [Messages -> [sent : Never..elapsed, acked : Never..elapsed]]

Init ==
    /\ scenario \in Scenarios /\ elapsed = 0 /\ serverTime = 1
    /\ \E s \in scenario.settings : pingFix = s[1] /\ netStatus = s[2]
    /\ outgoing = 1 /\ acknowledge = 0
    /\ frames = [s \in Slots |-> UnusedFrame]
    /\ estimate = NewEstimate
    /\ history = [k \in Messages |-> [sent |-> Never, acked |-> Never]]

-----------------------------------------------------------------------------
(* Time and settings *)

Tick ==
    /\ elapsed < scenario.elapsed
    /\ elapsed' = elapsed + 1
    /\ UNCHANGED <<scenario, serverTime, settings, outgoing, acknowledge, frames, estimate, history>>

\* SV_Frame runs the frames that the real time has passed.
ServerFrame ==
    /\ serverTime <= elapsed
    /\ serverTime' = elapsed + 1
    /\ UNCHANGED <<scenario, elapsed, settings, outgoing, acknowledge, frames, estimate, history>>

Toggle ==
    /\ \E s \in scenario.settings : pingFix' = s[1] /\ netStatus' = s[2]
    /\ UNCHANGED <<scenario, elapsed, serverTime, outgoing, acknowledge, frames, estimate, history>>

-----------------------------------------------------------------------------
(* SV_SendMessageToClient, SnapshotSent *)

SnapshotSent(message) ==
    IF netStatus
    THEN [estimate EXCEPT !.sentTime[Slot(message)] = Milliseconds,
                          !.sentSequence[Slot(message)] = message]
    ELSE estimate

SendMessageToClient ==
    /\ outgoing <= MaxMessages
    /\ outgoing' = outgoing + 1
    /\ frames' = [frames EXCEPT ![Slot(outgoing)] =
                    [sent |-> Now, acked |-> -1, message |-> outgoing, of |-> 0,
                     fix |-> pingFix, ackedFix |-> FALSE]]
    /\ estimate' = SnapshotSent(outgoing)
    /\ history' = [history EXCEPT ![outgoing].sent = elapsed]
    /\ UNCHANGED <<scenario, elapsed, serverTime, settings, acknowledge>>

-----------------------------------------------------------------------------
(* SV_UserMove, PacketReceived *)

\* With the fix, the first acknowledgement is kept.
Acked(message) ==
    [frames EXCEPT ![Slot(message)] =
        IF ~pingFix \/ @.acked = -1
        THEN [@ EXCEPT !.acked = Now, !.of = message, !.ackedFix = pingFix]
        ELSE @]

\* A round trip is kept, and is measured once for a message.
Measured(message, rtt, kept) ==
    LET e == [estimate EXCEPT !.lastAcked = message] IN
    IF kept
    THEN [e EXCEPT !.rtt[e.rttIndex] =
                        [time |-> Milliseconds, value |-> rtt, message |-> message],
                   !.rttIndex = (@ + 1) % RttSamples]
    ELSE e

Since(message) == Signed(Milliseconds - estimate.sentTime[Slot(message)])

\* Mutant of RoundTrip: the slot may hold a newer message.
RoundTripOfSlot(message) ==
    IF estimate.lastAcked # message
    THEN Measured(message, Since(message), Since(message) \in 0..MaxRtt)
    ELSE estimate

\* The first packet that acknowledges a message, if its slot still holds it.
RoundTrip(message) ==
    IF estimate.sentSequence[Slot(message)] = message /\ estimate.lastAcked # message
    THEN Measured(message, Since(message), Since(message) \in 0..MaxRtt)
    ELSE estimate

\* Mutant of Recent: the round trips never get old.
RecentEver(e) == {i \in DOMAIN e.rtt : e.rtt[i].time # 0}

Recent(e) ==
    {i \in DOMAIN e.rtt : e.rtt[i].time # 0 /\ Signed(Milliseconds - e.rtt[i].time) <= Memory}

NetPing(e) ==
    IF Recent(e) = {} THEN e.netPing ELSE Min({e.rtt[i].value : i \in Recent(e)})

\* Mutant of Windowed: the window starts again at each packet.
WindowedLate(e) ==
    LET ended == Signed(Milliseconds - e.windowStart) >= Second IN
    [e EXCEPT !.windowStart = Milliseconds,
              !.netPing = IF ended THEN NetPing(e) ELSE @]

\* Once a second: the smallest of the recent round trips.
Windowed(e) ==
    IF Signed(Milliseconds - e.windowStart) < Second
    THEN e
    ELSE [e EXCEPT !.windowStart = Milliseconds, !.netPing = NetPing(e)]

PacketReceived(message) == IF netStatus THEN Windowed(RoundTrip(message)) ELSE estimate

UserMove(message) ==
    /\ message \in 1..(outgoing - 1) /\ message >= acknowledge
    /\ acknowledge' = message
    /\ frames' = Acked(message)
    /\ estimate' = PacketReceived(message)
    /\ history' = [history EXCEPT ![message].acked = IF @ = Never THEN elapsed ELSE @]
    /\ UNCHANGED <<scenario, elapsed, serverTime, settings, outgoing>>

-----------------------------------------------------------------------------
(* SV_CalcPings *)

\* Mutant of Counted: the test of the engine.
CountedPositive(f) == f.acked > 0

\* Sent and acknowledged.
Counted(f) == ~(f.acked = -1 \/ (f.sent = 0 /\ f.acked = 0))

Samples == {s \in Slots : Counted(frames[s])}
Delta(s) == Signed(frames[s].acked - frames[s].sent)

\* Their sum, slot after slot.
Total ==
    LET Upto[n \in 0..Backup] ==
            IF n = 0 THEN 0
            ELSE Upto[n - 1] + IF Counted(frames[n - 1]) THEN Delta(n - 1) ELSE 0
    IN  Upto[Backup]

\* Division of C.
Quotient(a, b) == IF a >= 0 THEN a \div b ELSE -((-a) \div b)

Ping ==
    IF Samples = {} THEN MaxPing
    ELSE LET mean == Quotient(Total, Cardinality(Samples))
             capped == IF mean > MaxPing THEN MaxPing ELSE mean IN
         IF pingFix /\ capped < 1 THEN 1 ELSE capped

-----------------------------------------------------------------------------
Next ==
    \/ Tick \/ ServerFrame \/ Toggle
    \/ SendMessageToClient
    \/ \E message \in Messages : UserMove(message)

Spec == Init /\ [][Next]_vars

-----------------------------------------------------------------------------
(* Properties *)

\* A slot that holds the acknowledgement of its own message, both timed by the
\* system.
OwnReal(f) == f.message # 0 /\ f.of = f.message /\ f.fix /\ f.ackedFix

\* The delay of a message, from its sending to its first acknowledgement.
Delay(message) == history[message].acked - history[message].sent

\* With the fix, once every slot was sent and acknowledged, the ping is between
\* the smallest and the largest of the delays of its messages, each up to its
\* first acknowledgement ("keeps only the first acknowledgement of each snapshot",
\* docs/features.md): the settings of before do not matter any more, and no delay
\* is wrong or left out for the sign of the clock or its wrap.  Only the very
\* milliseconds that read -1 and 0, what the frames use for "none", are let out.
PingAmongDelays ==
    LET AckedAt(s) == Signed(start + history[frames[s].message].acked)
        delays == {Delay(frames[s].message) : s \in Slots} IN
    (pingFix /\ \A s \in Slots : OwnReal(frames[s]) /\ AckedAt(s) \notin {-1, 0}) =>
        /\ Ping \in 1..MaxPing
        /\ Ping < MaxPing => \E delay \in delays : delay <= Ping
        /\ Ping > 1 => \E delay \in delays : Ping <= delay

\* Each round trip of the net ping is the delay of the message it was measured
\* on, though messages share slots and the estimate may be switched off and on.
RttOfItsMessage ==
    \A i \in DOMAIN estimate.rtt :
        LET r == estimate.rtt[i] IN
        r.message # 0 =>
            /\ r.value = Signed(r.time - Signed(start + history[r.message].sent))
            /\ \A j \in DOMAIN estimate.rtt :
                estimate.rtt[j].message = r.message => j = i

\* The estimates have been on since the client came, in the first 24.8 days, when
\* the milliseconds are positive.  Later they are wrong: windowStart begins at 0.
InFirstDays ==
    /\ start > 0 /\ start + elapsed < Half
    /\ \A s \in scenario.settings : s[2]

\* A message acknowledged while its slot still held it.
InTime(k) ==
    /\ history[k].acked # Never
    /\ k + Backup > MaxMessages \/ history[k + Backup].sent \notin 0..history[k].acked

\* What the net ping is measured on: a round trip that is not too long, of a message
\* acknowledged while its slot held it.
Kept(k) == InTime(k) /\ Delay(k) <= MaxRtt

\* The messages acknowledged between two times.
AckedBetween(from, to) ==
    {k \in Messages : /\ history[k].acked # Never /\ history[k].acked \in from..to
                      /\ Delay(k) <= MaxRtt}

\* The net ping is measured after a second of packets at most: two messages
\* acknowledged a second apart, it is the delay of one.
NetPingMeasured ==
    InFirstDays => \A k, later \in Messages :
        /\ Kept(k) /\ history[later].acked # Never
        /\ history[later].acked - history[k].acked \in Second..Memory
        => \E m \in Messages : history[m].acked # Never /\ estimate.netPing = Delay(m)

\* The net ping is "the smallest round trip of the last 4 seconds"
\* (docs/features.md), when it was last measured: no smaller one was missed, and
\* none is remembered for longer.  The ring must hold the round trips of the 4
\* seconds: 64 do up to 16 acknowledged messages per second.
NetPingIsSmallest ==
    LET measured == Signed(estimate.windowStart - start)
        window == AckedBetween(measured - Memory, measured)
        before == {k \in window : Kept(k) /\ history[k].acked < measured} IN
    /\ InFirstDays /\ estimate.windowStart # 0
    /\ Cardinality(window) <= RttSamples /\ before # {}
    => /\ \A k \in before : estimate.netPing <= Delay(k)
       /\ \E k \in window : estimate.netPing = Delay(k)

\* The net ping is what docs/features.md says of it.
NetPingAsDocumented == RttOfItsMessage /\ NetPingMeasured /\ NetPingIsSmallest

\* Both pings are delays of the messages they are said to be of.
PingsAreDelays == PingAmongDelays /\ NetPingAsDocumented
=============================================================================
