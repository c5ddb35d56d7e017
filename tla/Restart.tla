------------------------------ MODULE Restart -------------------------------
(***************************************************************************)
(* Engine/Restart.cpp: the engine stops for good when svs.time or          *)
(* svs.nextSnapshotEntities is about to wrap (it shuts the server down,    *)
(* and the map_restart it then runs refuses to run on a server that is     *)
(* down), so the proxy loads the map again a margin before.                *)
(*                                                                         *)
(* One turn of the engine's Com_Frame: the packets, the queue of commands, *)
(* then SV_Frame, which tests both counters, runs the game as many times   *)
(* as the clock asks for (BeforeWrap at each), and sends the snapshots.    *)
(* A packet may have a snapshot built too: the checksums of a client that  *)
(* is not pure (SV_VerifyPaks_f).                                          *)
(*                                                                         *)
(* The command is the next one to run ("Its command runs at the next       *)
(* Cbuf_Execute of Com_Frame"), and the map played is still on the disk.   *)
(***************************************************************************)
EXTENDS Integers, Sequences

CONSTANTS
    MaxClients,         \* sv_maxclients
    SnapshotEntities,   \* MAX_SNAPSHOT_ENTITIES: 256
    NumEntities,        \* svs.numSnapshotEntities
    EntitiesEnd,        \* 0x7FFFFFFE
    TimeEnd,            \* 0x70000000
    TimeMargin,         \* one minute
    MaxFrame,           \* the most time that one turn of Com_Frame adds: 5 s
    Settle              \* the time that the load of a map adds

\* A dedicated server keeps PACKET_BACKUP (32) snapshots per client
\* (numSnapshotEntities in server.hpp), so two per client at least.
RestartConstants ==
    /\ MaxClients \in Nat /\ SnapshotEntities \in Nat /\ NumEntities \in Nat
    /\ NumEntities >= 2 * MaxClients * SnapshotEntities
    /\ EntitiesEnd \in Nat /\ EntitiesEnd > 2 * NumEntities
    /\ TimeEnd \in Nat /\ TimeMargin \in Nat /\ TimeEnd > TimeMargin
    /\ MaxFrame \in Nat /\ Settle \in Nat
    /\ TimeMargin >= MaxFrame + Settle /\ TimeEnd - TimeMargin >= Settle

VARIABLES
    at,         \* where Com_Frame is: "events", "commands", "game", or "stopped"
    residual,   \* sv.timeResidual, the time the game has still to run
    time,       \* svs.time
    entities,   \* svs.nextSnapshotEntities
    unpure,     \* snapshots that packets had built since SV_Frame last tested the
                \* counters
    requested,  \* the static of Restart.cpp
    queue,      \* the commands of the proxy that the engine has not run yet
    players     \* players are connected

vars == <<at, residual, time, entities, unpure, requested, queue, players>>

Reload == <<"map">>
RestartServer == <<"killserver", "map">>

TypeOK ==
    /\ at \in {"events", "commands", "game", "stopped"}
    /\ residual \in 0..MaxFrame
    /\ time \in Nat /\ entities \in Nat
    /\ unpure \in 0..MaxClients
    /\ requested \in BOOLEAN
    /\ queue \in {<<>>, Reload, RestartServer}
    /\ players \in BOOLEAN

-----------------------------------------------------------------------------
(* BeforeWrap *)

\* One minute before the limit of SV_Frame.
TimeWraps(t) == t > TimeEnd - TimeMargin

\* Mutant of EntitiesWrap: the limit of SV_Frame itself.
EntitiesWrapLate(e) == e >= EntitiesEnd - NumEntities

\* One numSnapshotEntities before the limit of SV_Frame.
EntitiesWrap(e) == e >= EntitiesEnd - 2 * NumEntities

\* Mutant of BeforeWrap: the server is shut down for both counters.
BeforeWrapDrops(t) ==
    IF ~requested /\ (TimeWraps(t) \/ EntitiesWrap(entities))
    THEN requested' = TRUE /\ queue' = queue \o RestartServer
    ELSE UNCHANGED <<requested, queue>>

BeforeWrap(t) ==
    IF ~requested /\ (TimeWraps(t) \/ EntitiesWrap(entities))
    THEN /\ requested' = TRUE
         /\ queue' = queue \o (IF TimeWraps(t) THEN RestartServer ELSE Reload)
    ELSE UNCHANGED <<requested, queue>>

-----------------------------------------------------------------------------
Init ==
    /\ at = "events" /\ residual = 0
    /\ time = 0 /\ entities = 0
    /\ unpure = 0
    /\ requested = FALSE /\ queue = <<>>
    /\ players \in BOOLEAN

(* Com_EventLoop *)

PlayersJoin ==
    /\ at = "events"
    /\ players' = TRUE
    /\ UNCHANGED <<at, residual, time, entities, unpure, requested, queue>>

\* SV_VerifyPaks_f: a last snapshot for a client that is dropped; another client
\* does not have its slot at once.
UnpureClient ==
    /\ at = "events" /\ players /\ unpure < MaxClients
    /\ unpure' = unpure + 1
    /\ \E n \in 0..SnapshotEntities : entities' = entities + n
    /\ UNCHANGED <<at, residual, time, requested, queue, players>>

EventsDone ==
    /\ at = "events"
    /\ at' = "commands"
    /\ UNCHANGED <<residual, time, entities, unpure, requested, queue, players>>

(* Cbuf_Execute *)

\* A map is loaded: the engine starts the entities again, not the time; the
\* module is new, and the frames of the load run it.
LoadMap(rest) ==
    /\ time' = time + Settle
    /\ entities' = 0 /\ residual' = 0
    /\ IF TimeWraps(time')
       THEN requested' = TRUE /\ queue' = rest \o RestartServer
       ELSE requested' = FALSE /\ queue' = rest
    /\ UNCHANGED <<at, unpure, players>>

RunMap ==
    /\ at = "commands" /\ queue # <<>> /\ Head(queue) = "map"
    /\ LoadMap(Tail(queue))

\* SV_Shutdown clears svs and drops the players; the proxy is unloaded.
RunKillserver ==
    /\ at = "commands" /\ queue # <<>> /\ Head(queue) = "killserver"
    /\ queue' = Tail(queue)
    /\ time' = 0 /\ entities' = 0 /\ residual' = 0
    /\ players' = FALSE
    /\ UNCHANGED <<at, unpure, requested>>

\* A map that a vote or the administrator asked for.
OtherMap ==
    /\ at = "commands" /\ queue = <<>>
    /\ LoadMap(<<>>)

(* SV_Frame *)

CountersEnd == time > TimeEnd \/ entities >= EntitiesEnd - NumEntities

\* A dedicated server waits until a frame of sv_fps has passed.
TooSoon ==
    /\ at = "commands" /\ queue = <<>>
    /\ at' = "events"
    /\ UNCHANGED <<residual, time, entities, unpure, requested, queue, players>>

\* At the end of a counter: SV_Shutdown, then a map_restart that refuses to run.
StartFrame ==
    /\ at = "commands" /\ queue = <<>>
    /\ \E msec \in 1..MaxFrame : residual' = msec
    /\ unpure' = 0
    /\ at' = IF CountersEnd THEN "stopped" ELSE "game"
    /\ players' = (players /\ ~CountersEnd)
    /\ UNCHANGED <<time, entities, requested, queue>>

\* GAME_RUN_FRAME, once per server frame that the clock has passed.
RunFrame ==
    /\ at = "game"
    /\ \E msec \in 1..residual :
        /\ time' = time + msec
        /\ residual' = residual - msec
    /\ BeforeWrap(time')
    /\ UNCHANGED <<at, entities, unpure, players>>

\* SV_SendClientMessages: a snapshot at most for each client.
SendClientMessages ==
    /\ at = "game" /\ residual = 0
    /\ at' = "events"
    /\ \E snapshots \in 0..MaxClients :
        \E n \in 0..(snapshots * SnapshotEntities) : entities' = entities + n
    /\ UNCHANGED <<residual, time, unpure, requested, queue, players>>

Next ==
    \/ PlayersJoin \/ UnpureClient \/ EventsDone
    \/ RunMap \/ RunKillserver \/ OtherMap
    \/ TooSoon \/ StartFrame \/ RunFrame \/ SendClientMessages

Spec == Init /\ [][Next]_vars

-----------------------------------------------------------------------------
(* Properties *)

\* The server is never left without a map (docs/features.md: "it stays without a
\* map until someone restarts it.  The proxy loads the current map again a
\* little before").
NeverStops == at # "stopped"

\* "The players stay connected" when the snapshot entities are about to wrap:
\* only the end of the server time drops them.
OnlyTimeDropsPlayers ==
    [][players /\ ~players' => TimeWraps(time)]_vars

\* The request is made once per load of the module, so it must lead to a load:
\* never is it made with nothing left in the queue.
RequestPending == requested => queue # <<>>

\* The server goes on, and its players with it while that is possible.
KeepsRunning == []NeverStops /\ OnlyTimeDropsPlayers
=============================================================================
