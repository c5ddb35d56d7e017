------------------------------- MODULE Rates -------------------------------
(***************************************************************************)
(* The rate and the snapshots of the players (Engine/Rate.cpp), which      *)
(* depend on five settings.  The proxy reads its copies of sv_minRate,     *)
(* sv_minSnaps and sv_maxSnaps, which UpdateAll refreshes once a second    *)
(* (Features/Cvars.cpp), and the live values of sv_fps and sv_maxRate.  A  *)
(* change is noticed by comparing the copies with those applied before.    *)
(*                                                                         *)
(* Time is counted in frames of the game.  Bots are left out: Apply and    *)
(* SettingsChanged never reach them.                                       *)
(***************************************************************************)
EXTENDS Integers

CONSTANTS
    Clients,            \* the slots of the players
    NoClient,           \* a free slot
    LowestRate,         \* of the engine: 1000
    DefaultFps,         \* what the engine makes of an sv_fps below 1: 10
    Second,             \* frames between two updates
    MinRates, MaxRates, \* bound: values of sv_minRate and of sv_maxRate
    MinSnaps, MaxSnaps, \* bound: values of sv_minSnaps and of sv_maxSnaps
    Fps,                \* bound: values of sv_fps
    Wants               \* bound: the rate and the snaps of a userinfo

Settings == [minRate : Int, minSnaps : Int, maxSnaps : Int, fps : Int]

RatesConstants ==
    /\ LowestRate \in Nat \ {0} /\ DefaultFps \in Nat \ {0} /\ Second \in Nat \ {0}
    /\ MinRates \subseteq Int /\ MaxRates \subseteq Int
    /\ MinSnaps \subseteq Int /\ MaxSnaps \subseteq Int /\ Fps \subseteq Int
    /\ Wants \subseteq [rate : Int, snaps : Int]
    /\ NoClient \notin [want : Wants, rate : Int, snaps : Int]

VARIABLES
    cvars,      \* engine: the settings, as the administrator sets them
    maxRate,    \* engine: sv_maxRate
    copies,     \* proxy: its vmCvars
    applied,    \* proxy: appliedRates, the settings the players got
    client,     \* engine: userinfo, rate and snaps (1000 / snapshotMsec)
    since       \* frames since the last update, or since the proxy was loaded

vars == <<cvars, maxRate, copies, applied, client, since>>

Zeros == [minRate |-> 0, minSnaps |-> 0, maxSnaps |-> 0, fps |-> 0]

TypeOK ==
    /\ cvars \in Settings /\ copies \in Settings /\ applied \in Settings
    /\ maxRate \in Int
    /\ \A c \in Clients : client[c] # NoClient =>
           /\ client[c].want \in Wants
           /\ client[c].rate \in Nat /\ client[c].rate >= LowestRate
           /\ client[c].snaps \in Nat \ {0}
    /\ since \in 0..(Second - 1)

Init ==
    /\ cvars \in [minRate : MinRates, minSnaps : MinSnaps, maxSnaps : MaxSnaps, fps : Fps]
    /\ maxRate \in MaxRates
    /\ copies = cvars
    /\ applied = Zeros
    /\ client = [c \in Clients |-> NoClient]
    /\ since = 0

-----------------------------------------------------------------------------
(* Apply *)

Least(a, b) == IF a < b THEN a ELSE b
Most(a, b) == IF a < b THEN b ELSE a

\* SV_UserinfoChanged of the engine, as the proxy uses it.
EngineRate(want) == Most(want.rate, LowestRate)

LiveFps(settings) == IF settings.fps < 1 THEN DefaultFps ELSE settings.fps

Snaps(want, settings, copy) ==
    LET fps == LiveFps(settings)
        cap == IF copy.maxSnaps > 0 THEN Least(copy.maxSnaps, fps) ELSE fps
    IN  Most(Least(Most(want.snaps, Least(copy.minSnaps, cap)), cap), 1)

\* SV_UserinfoChanged: the rate and the snaps from the userinfo, then Apply.
UserinfoChanged(want, settings, copy) ==
    [want |-> want,
     rate |-> Most(EngineRate(want), copy.minRate),
     snaps |-> Snaps(want, settings, copy)]

-----------------------------------------------------------------------------
(* The rate of a message *)

\* Mutant of Shown: a sv_maxRate below the lowest rate is shown as it is.
ShownAsSet(c) ==
    IF maxRate # 0 THEN Least(maxRate, client[c].rate) ELSE client[c].rate

\* Applied: the rate of /netStatus.
Shown(c) ==
    IF maxRate # 0 /\ maxRate < client[c].rate
    THEN Most(maxRate, LowestRate) ELSE client[c].rate

\* SV_RateMsec first raises sv_maxRate to the lowest rate.
RaisedMaxRate == IF maxRate # 0 THEN Most(maxRate, LowestRate) ELSE 0

\* The rate by which SV_RateMsec divides.
Used(c) ==
    IF RaisedMaxRate # 0 /\ RaisedMaxRate < client[c].rate
    THEN RaisedMaxRate ELSE client[c].rate

\* A message to a client.
SendMessage(c) ==
    /\ client[c] # NoClient
    /\ maxRate' = RaisedMaxRate
    /\ UNCHANGED <<cvars, copies, applied, client, since>>

-----------------------------------------------------------------------------
(* Players and settings *)

\* SV_DirectConnect, and the userinfo command that the flood check lets through.
Userinfo(c, want) ==
    /\ client' = [client EXCEPT ![c] = UserinfoChanged(want, cvars, copies)]
    /\ UNCHANGED <<cvars, maxRate, copies, applied, since>>

Leave(c) ==
    /\ client[c] # NoClient
    /\ client' = [client EXCEPT ![c] = NoClient]
    /\ UNCHANGED <<cvars, maxRate, copies, applied, since>>

SetMaxRate(value) ==
    /\ maxRate' = value
    /\ UNCHANGED <<cvars, copies, applied, client, since>>

Set(settings) ==
    /\ cvars' = settings
    /\ UNCHANGED <<maxRate, copies, applied, client, since>>

-----------------------------------------------------------------------------
(* Frames *)

\* Mutant of SettingsChanged: Apply alone, the userinfo is not read again.
SettingsChangedApply(settings) ==
    [c \in Clients |->
        IF client[c] = NoClient THEN NoClient
        ELSE [client[c] EXCEPT !.rate = Most(client[c].rate, settings.minRate),
                               !.snaps = Snaps(client[c].want, settings, settings)]]

\* Every player's userinfo is read again, for the settings just copied.
SettingsChanged(settings) ==
    [c \in Clients |->
        IF client[c] = NoClient THEN NoClient
        ELSE UserinfoChanged(client[c].want, settings, settings)]

\* SV_Frame corrects sv_fps before it runs the game's frame.
Corrected == [cvars EXCEPT !.fps = LiveFps(cvars)]

UpdateAll(settings) ==
    /\ copies' = settings
    /\ applied' = settings
    /\ client' = IF applied # settings THEN SettingsChanged(settings) ELSE client
    /\ since' = 0

\* A frame of the game: every second, the copies are updated.
Frame ==
    /\ cvars' = Corrected
    /\ IF since + 1 >= Second
       THEN UpdateAll(Corrected)
       ELSE since' = since + 1 /\ UNCHANGED <<copies, applied, client>>
    /\ UNCHANGED maxRate

\* A map change loads the proxy again: Registration reads the settings, and the
\* clients keep what they have until the first update.
MapChange ==
    /\ copies' = cvars
    /\ applied' = Zeros
    /\ since' = 0
    /\ UNCHANGED <<cvars, maxRate, client>>

Next ==
    \/ \E c \in Clients : SendMessage(c) \/ Leave(c)
    \/ \E c \in Clients, want \in Wants : Userinfo(c, want)
    \/ \E value \in MaxRates : SetMaxRate(value)
    \/ \E value \in MinRates : Set([cvars EXCEPT !.minRate = value])
    \/ \E value \in MinSnaps : Set([cvars EXCEPT !.minSnaps = value])
    \/ \E value \in MaxSnaps : Set([cvars EXCEPT !.maxSnaps = value])
    \/ \E value \in Fps : Set([cvars EXCEPT !.fps = value])
    \/ Frame
    \/ MapChange

Spec == Init /\ [][Next]_vars

-----------------------------------------------------------------------------
(* Properties *)

\* The rate that /netStatus shows is the one by which SV_RateMsec divides, and
\* it is never below the lowest rate of the engine, so never zero: two functions
\* of two files, for every order of the settings and of the messages.
ShownRateIsUsed ==
    \A c \in Clients : client[c] # NoClient =>
        Shown(c) = Used(c) /\ Used(c) >= LowestRate

\* What docs/features.md promises a player: its rate, no lower than the floor;
\* its snaps between the floor and the cap, the cap before the floor, at most
\* sv_fps and at least 1.
Promised(want, settings) ==
    LET caps == {settings.fps} \cup
                (IF settings.maxSnaps > 0 THEN {settings.maxSnaps} ELSE {})
        Below(n) == \A cap \in caps : n <= cap
        allowed == {n \in 1..settings.fps : Below(n)}
        wanted == {n \in allowed : n >= want.snaps /\ n >= settings.minSnaps}
    IN  [rate |-> Most(Most(want.rate, LowestRate), settings.minRate),
         snaps |-> IF wanted = {}
                   THEN CHOOSE n \in allowed : \A k \in allowed : k <= n
                   ELSE CHOOSE n \in wanted : \A k \in wanted : n <= k]

\* "A change of either, or of `sv_fps`, applies within a second to the clients
\* already in" (docs/features.md): the frame that updates leaves every player
\* with what the settings promise.  But Apply reads the live sv_fps, and the
\* update compares what it copied with what it copied before: when sv_fps changes
\* and changes back between two updates, a userinfo read in between is not read
\* again, and its player keeps the snaps of the value that sv_fps had.
AppliesWithinASecond ==
    [][Frame /\ since' = 0
        => \A c \in Clients : client[c] # NoClient =>
               LET promised == Promised(client[c].want, cvars')
               IN  client'[c].rate = promised.rate /\ client'[c].snaps = promised.snaps]_vars

\* What is true of it, for every order of the settings, the userinfos, the updates
\* and the maps.  The frame that updates leaves every player with the rate that
\* the settings promise, whatever it had, so a lower floor gives it its own rate
\* back; with the snaps that they promise for some value of sv_fps, so within the
\* floor and the cap of this very update; and for the value that it has, when the
\* update finds any setting changed since the one before, or the proxy new.
FpsValues == {LiveFps([fps |-> value]) : value \in Fps}
SettingsReachThePlayers ==
    [][Frame /\ since' = 0
        => \A c \in Clients : client[c] # NoClient =>
               LET SnapsFor(fps) == Promised(client[c].want, [cvars' EXCEPT !.fps = fps]).snaps
               IN  /\ client'[c].rate = Promised(client[c].want, cvars').rate
                   /\ \E fps \in FpsValues : client'[c].snaps = SnapsFor(fps)
                   /\ applied # cvars' => client'[c].snaps = SnapsFor(cvars'.fps)]_vars
=============================================================================
