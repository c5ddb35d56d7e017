----------------------------- MODULE MCRestart ------------------------------
(***************************************************************************)
(* Instances for TLC of what goes by the clock and the frames of the       *)
(* server: the limits on packets (RateLimit), with more addresses than the *)
(* table holds; the map that is loaded again before a counter wraps        *)
(* (Restart); and the settings of the rates (Rates).  Each is followed by  *)
(* itself: part says which.                                                *)
(***************************************************************************)
EXTENDS RateLimit, Sequences, TLC

CONSTANTS
    MaxClients, SnapshotEntities, NumEntities, EntitiesEnd, TimeEnd, TimeMargin,
    MaxFrame, Settle,
    Clients, NoClient, LowestRate, DefaultFps, Second,
    MinRates, MaxRates, MinSnaps, MaxSnaps, Fps, Wants

VARIABLES
    part,
    at, residual, time, entities, unpure, requested, queue, players,
    cvars, maxRate, copies, applied, client, since

restartVars == <<at, residual, time, entities, unpure, requested, queue, players>>
rateVars == <<cvars, maxRate, copies, applied, client, since>>

E == INSTANCE Restart
R == INSTANCE Rates

ASSUME RestartAssumption == E!RestartConstants
ASSUME RatesAssumption == R!RatesConstants

RestartSpec == E!Spec

\* What players ask for, low and high, and what an administrator may set, negative
\* values too.
BothWants == {[rate |-> 1, snaps |-> 0], [rate |-> 4, snaps |-> 3]}
RateFloors == {-1, 0, 3}
RateCaps == {-1, 0, 1, 3}
SnapFloors == {-1, 2}

\* One of the first states of Rates.
OneSetting ==
    /\ cvars = CHOOSE settings \in
                  [minRate : MinRates, minSnaps : MinSnaps, maxSnaps : MaxSnaps, fps : Fps] : TRUE
    /\ maxRate = 0

MCInit ==
    /\ part \in {"limits", "restart", "rates"}
    /\ Init /\ E!Init /\ R!Init
    /\ part # "rates" => OneSetting
    /\ part # "restart" => ~players

MCNext ==
    \/ part = "limits" /\ Next /\ UNCHANGED <<part, restartVars, rateVars>>
    \/ part = "restart" /\ E!Next /\ UNCHANGED <<part, vars, rateVars>>
    \/ part = "rates" /\ R!Next /\ UNCHANGED <<part, vars, restartVars>>

MCSpec == MCInit /\ [][MCNext]_<<part, vars, restartVars, rateVars>>

Symmetry == Permutations(Addrs)

-----------------------------------------------------------------------------
\* The server goes on, and its players with it while that is possible (BeforeWrap).
KeepsRunning == E!KeepsRunning

\* /netStatus shows the rate by which SV_RateMsec divides, never zero.
ShownRateIsUsed == R!ShownRateIsUsed

\* What the frame that updates leaves the players with (UpdateAll, SettingsChanged).
SettingsReachThePlayers == R!SettingsReachThePlayers

\* What docs/features.md says of it.
AppliesWithinASecond == R!AppliesWithinASecond
=============================================================================
