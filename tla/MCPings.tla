------------------------------ MODULE MCPings -------------------------------
(***************************************************************************)
(* Instances for TLC of what the proxy measures of a client and shows: its *)
(* ping and net ping (Pings), its timenudge (Timenudge) and the simulated  *)
(* client that it is corrected by (ClientTime), the packets and snapshots  *)
(* of the last second (NetRates), and the pages that a player reads them   *)
(* in (Pages).  Each is followed by itself: part says which.               *)
(***************************************************************************)
EXTENDS Pings

CONSTANTS
    WindowSamples, Enough, Window, Estimates, WindowNow, WindowPackets,
    Inputs, Phases, WarmSnapshots, Snapshots, ClientPackets,
    PacketSamples, RatesBackup, RatesSecond, Header, Sizes, Intervals, Cmds,
    RatesNow, RatesPackets,
    Chunk, TextSize, Command, Quotes, LineLengths, MaxLines

VARIABLES
    part,
    now, packets, clockValid, interval, window, median, shown, estimated,
    input, phase, frame, realtime, snapshots, serverTimeDelta, extrapolated, clServerTime,
    lastAcked, sums,
    ratesNow, follows, every, sent, ratesOutgoing, ring, packetIndex, received,
    kind, wanted, text, at, pages

timenudgeVars == <<now, packets, clockValid, interval, window, median, shown, estimated>>
clientTimeVars == <<input, phase, frame, realtime, snapshots, serverTimeDelta,
                    extrapolated, clServerTime, lastAcked, sums>>
netRatesVars == <<ratesNow, follows, every, sent, ratesOutgoing, ring, packetIndex, received>>
pagesVars == <<kind, wanted, text, at, pages>>

T == INSTANCE Timenudge WITH
        Second <- Window, MaxNow <- WindowNow, MaxPackets <- WindowPackets
S == INSTANCE ClientTime WITH Packets <- ClientPackets
R == INSTANCE NetRates WITH
        Backup <- RatesBackup, Second <- RatesSecond, MaxNow <- RatesNow,
        MaxPackets <- RatesPackets, now <- ratesNow, outgoing <- ratesOutgoing
P == INSTANCE Pages

ASSUME PartsAssumption ==
    T!TimenudgeConstants /\ S!ClientTimeConstants /\ R!NetRatesConstants /\ P!PagesConstants

\* A client that comes early and is followed for longer, or that comes just before
\* the clock reads -1 and 0 or wraps.
Early == [start |-> 1, elapsed |-> 5, settings |-> {<<FALSE, TRUE>>}]
Late(milliseconds, values) ==
    [start |-> milliseconds, elapsed |-> 3, settings |-> values]

FixChanged == {<<FALSE, FALSE>>, <<TRUE, FALSE>>}
NetStatusChanged == {<<FALSE, FALSE>>, <<FALSE, TRUE>>}

MCScenarios ==
    {Early} \cup
    {Late(milliseconds, values) : milliseconds \in {-2, 6},
                                  values \in {FixChanged, NetStatusChanged}}

\* Intervals of snapshots on both sides of the longest one, and frames of clients.
MCInputs == [interval : {1, 20, 25, 33, 50, 67, 93, 94, 95, 99},
             frameMs : {4, 8, 17, 33, 99, 100}, framesPerPacket : {1, 3}]

\* One of the first states of the parts that are not followed.
Unfollowed ==
    /\ part # "pings" => scenario = Early
    /\ part # "client" => input = CHOOSE i \in Inputs : ~S!TooLong(i.interval)
    /\ part # "rates" => follows = "packets"
    /\ part # "pages" => kind = "status"

MCInit ==
    /\ part \in {"pings", "timenudge", "client", "rates", "pages"}
    /\ Init /\ T!Init /\ S!Init /\ R!Init /\ P!Init
    /\ Unfollowed

MCNext ==
    \/ /\ part = "pings" /\ Next
       /\ UNCHANGED <<part, timenudgeVars, clientTimeVars, netRatesVars, pagesVars>>
    \/ /\ part = "timenudge" /\ T!Next
       /\ UNCHANGED <<part, vars, clientTimeVars, netRatesVars, pagesVars>>
    \/ /\ part = "client" /\ S!Next
       /\ UNCHANGED <<part, vars, timenudgeVars, netRatesVars, pagesVars>>
    \/ /\ part = "rates" /\ R!Next
       /\ UNCHANGED <<part, vars, timenudgeVars, clientTimeVars, pagesVars>>
    \/ /\ part = "pages" /\ P!Next
       /\ UNCHANGED <<part, vars, timenudgeVars, clientTimeVars, netRatesVars>>

MCSpec ==
    MCInit /\ [][MCNext]_<<part, vars, timenudgeVars, clientTimeVars, netRatesVars, pagesVars>>

-----------------------------------------------------------------------------
\* The timenudge shown is that of recent windows, and the client it is corrected by
\* settles as a client does (PacketReceived, SimulateClient).
TimenudgeAsShown == T!TimenudgeAsShown /\ S!SettlesAsAClient

\* What is shown of the last second is what came and what was sent in it (GetRates).
LastSecondAsItWas == R!LastSecondAsItWas

\* The pages give every character of the text once (NetStatus, PrintConfig).
EveryCharacterOnce == P!EveryCharacterOnce
=============================================================================
