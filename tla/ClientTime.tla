----------------------------- MODULE ClientTime -----------------------------
(***************************************************************************)
(* SimulateClient (Engine/NetStatus.cpp): the rules by which a client      *)
(* follows the time of the server (CL_SendCmd, CL_AdjustTimeDelta,         *)
(* CL_SetCGameTime), frame after frame, for a client without network delay *)
(* and without timenudge.  What it measures of its packets is what         *)
(* PacketReceived would.                                                   *)
(***************************************************************************)
EXTENDS Integers

CONSTANTS
    Inputs,         \* bound: [interval, frameMs, framesPerPacket]
    Phases,         \* 4
    WarmSnapshots,  \* 30
    Snapshots,      \* 130
    Packets         \* 10

ClientTimeConstants ==
    /\ Inputs \subseteq [interval : Nat \ {0}, frameMs : 1..100, framesPerPacket : Nat \ {0}]
    /\ {Phases, WarmSnapshots, Snapshots, Packets} \subseteq Nat \ {0}

VARIABLES
    input,          \* the one of Inputs that is simulated
    phase,          \* Phases when the simulation is over
    frame, realtime,
    snapshots,      \* received so far, the newest at snapTime
    serverTimeDelta,
    extrapolated,
    clServerTime,
    lastAcked,
    sums            \* the delays and the round trips measured

clientTimeVars == <<input, phase, frame, realtime, snapshots, serverTimeDelta,
                    extrapolated, clServerTime, lastAcked, sums>>

\* Mutant of TooLong: without the 5 ms.
TooLongAlone(interval) == interval >= 100

\* What PacketReceived does not simulate.
TooLong(interval) == interval + 5 >= 100

Init ==
    /\ input \in {i \in Inputs : ~TooLong(i.interval)}
    /\ phase = 0
    /\ frame = 0 /\ realtime = 0 /\ snapshots = 0
    /\ serverTimeDelta = -input.interval - 5 /\ extrapolated = FALSE
    /\ clServerTime = 0 /\ lastAcked = -1
    /\ sums = [packets |-> 0, delaySum |-> 0, delayCount |-> 0,
               rttMin |-> -1, rttSum |-> 0, rttCount |-> 0]

-----------------------------------------------------------------------------
(* A frame *)

Abs(x) == IF x < 0 THEN -x ELSE x
Later(a, b) == IF a > b THEN a ELSE b

\* The snapshots that arrived before this frame, and the newest one.
Arrived == realtime \div input.interval + 1
SnapTime == (Arrived - 1) * input.interval
NewSnapshot == Arrived > snapshots

\* CL_SendCmd: what the packet of this frame measures, if it sends one.
SendsCmd == Arrived > WarmSnapshots /\ frame % input.framesPerPacket = 0
Acknowledges == SendsCmd /\ SnapTime # lastAcked
Rtt == realtime - SnapTime

Measured ==
    LET s == [sums EXCEPT !.packets = @ + 1, !.delaySum = @ + clServerTime - realtime,
                          !.delayCount = @ + 1]
    IN  IF ~SendsCmd THEN sums
        ELSE IF ~Acknowledges THEN s
        ELSE [s EXCEPT !.rttSum = @ + Rtt, !.rttCount = @ + 1,
                       !.rttMin = IF @ < 0 \/ Rtt < @ THEN Rtt ELSE @]

\* CL_AdjustTimeDelta, at a new snapshot: at once, by halves, or slowly.
NewDelta == SnapTime - realtime
DeltaDelta == Abs(NewDelta - serverTimeDelta)

\* Mutant of AdjustTimeDelta: an extrapolation is not corrected.
AdjustUpwards ==
    IF DeltaDelta > 500 THEN NewDelta
    ELSE IF DeltaDelta > 100 THEN (serverTimeDelta + NewDelta) \div 2
    ELSE serverTimeDelta + 1

AdjustTimeDelta ==
    IF DeltaDelta > 500 THEN NewDelta
    ELSE IF DeltaDelta > 100 THEN (serverTimeDelta + NewDelta) \div 2
    ELSE IF extrapolated THEN serverTimeDelta - 2
    ELSE serverTimeDelta + 1

\* CL_SetCGameTime.
Extrapolates(delta) == realtime + delta >= SnapTime - 5

Frame ==
    /\ phase < Phases
    /\ snapshots < Snapshots \/ sums.packets < Packets
    /\ frame' = frame + 1 /\ realtime' = realtime + input.frameMs
    /\ snapshots' = Arrived
    /\ sums' = Measured
    /\ lastAcked' = IF Acknowledges THEN SnapTime ELSE lastAcked
    /\ LET delta == IF NewSnapshot THEN AdjustTimeDelta ELSE serverTimeDelta
           cleared == NewSnapshot /\ DeltaDelta <= 100
       IN  /\ serverTimeDelta' = delta
           /\ extrapolated' = (Extrapolates(delta) \/ (extrapolated /\ ~cleared))
           /\ clServerTime' = Later(clServerTime, realtime + delta)
    /\ UNCHANGED <<input, phase>>

NextPhase ==
    /\ phase < Phases
    /\ ~(snapshots < Snapshots \/ sums.packets < Packets)
    /\ phase' = phase + 1
    /\ frame' = 0 /\ realtime' = ((phase + 1) * input.frameMs) \div Phases
    /\ snapshots' = 0
    /\ serverTimeDelta' = -input.interval - 5 /\ extrapolated' = FALSE
    /\ clServerTime' = 0 /\ lastAcked' = -1
    /\ sums' = [sums EXCEPT !.packets = 0]
    /\ UNCHANGED input

Next == Frame \/ NextPhase

-----------------------------------------------------------------------------
(* Properties *)

\* "The client is about interval + 5 ms behind its newest snapshot. From 100 ms it
\* moves its time by halves": so no client that PacketReceived has simulated does,
\* up to intervals of 94 ms, at any frame rate, in any frame.
NeverByHalves ==
    phase < Phases /\ NewSnapshot => DeltaDelta <= 100

\* "The client starts near its balance", and what is measured of it is of that
\* balance: once warm, its time never runs ahead of the server's, nor further behind
\* than the interval, a frame, and what the slow steps add.
NearItsBalance ==
    phase < Phases /\ snapshots > WarmSnapshots =>
        /\ clServerTime <= realtime
        /\ realtime - clServerTime <= input.interval + input.frameMs + 6

\* The simulated clock of a client settles where the one of a client does.
SettlesAsAClient == NeverByHalves /\ NearItsBalance
=============================================================================
