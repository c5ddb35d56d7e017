--------------------------- MODULE ClientProtocol ---------------------------
(***************************************************************************)
(* How one client gets the map and enters the world, over a network that   *)
(* loses packets, while the server changes or restarts the map: the engine *)
(* functions that Engine/Hooks/server/sv_client.cpp replaces.              *)
(*                                                                         *)
(* The client names, in every message, the serverId of the gamestate it    *)
(* has, the last server message it got, and its commands that the server   *)
(* has not acknowledged.  The server answers a message of another map with *)
(* a gamestate, or ignores it; a message of this map runs its new commands *)
(* and then its move.  A client that misses pk3 files downloads them from  *)
(* inside the protocol, and asks for the gamestate again ("donedl").       *)
(*                                                                         *)
(* External: the client, as a stock one (its download and load sequence,   *)
(* and what its player types), the network channel, and the engine's       *)
(* SV_SpawnServer, SV_MapRestart_f and file access.  The channel holds one *)
(* packet each way: netchan never delivers an older packet after a newer   *)
(* one.  Server messages are numbered by what the code compares: the count *)
(* of gamestates sent so far, and whether the message came after the last. *)
(***************************************************************************)
EXTENDS Naturals, Sequences

CONSTANTS
    Pure,       \* sv_pure
    Chats,      \* what the player types: "plain", or text that holds "nextdl"
    MaxId,      \* bound: map changes and restarts
    MaxLosses,  \* bound: packets lost
    MaxTyped,   \* bound: commands typed by the player
    Blocks      \* blocks of the file to download, before the empty last one

ProtocolConstants ==
    /\ Pure \in BOOLEAN
    /\ Chats \subseteq {"plain", "nextdl"}
    /\ MaxId \in Nat \ {0} /\ MaxLosses \in Nat /\ MaxTyped \in Nat /\ Blocks \in Nat

VARIABLES
    sv,         \* server: serverId (id) and restartedServerId (map)
    cl,         \* server: client_t
    client,     \* the client
    up,         \* the packet on its way to the server
    down,       \* the packet on its way to the client
    lost,       \* packets lost
    typed       \* commands typed

vars == <<sv, cl, client, up, down, lost, typed>>

None == [kind |-> "none"]

\* What a stock client sends by itself, and what its player may add.
Commands ==
    [do : {"download", "stopdl", "donedl", "cp", "vdr", "disconnect", "chat", "chat nextdl"}]
    \cup [do : {"nextdl"}, block : 0..Blocks]
Numbered == [n : Nat, cmd : Commands]

TypeOK ==
    /\ sv \in [id : 1..MaxId, map : 1..MaxId] /\ sv.map <= sv.id
    /\ cl.state \in {"connected", "primed", "active", "zombie"}
    /\ cl.dl \in {"none", "named", "open"} /\ cl.block \in 0..Blocks
    /\ cl.pure \in BOOLEAN /\ cl.nextdl \in BOOLEAN
    /\ client.id \in 0..MaxId /\ client.map \in 0..MaxId
    /\ client.phase \in {"idle", "download", "await", "load", "play", "gone"}
    /\ client.pending \in Seq(Numbered)
    /\ \A i \in DOMAIN client.pending :
          client.pending[i].n = client.sent - Len(client.pending) + i
    /\ client.seen[1] <= cl.gamestates
    /\ lost \in 0..MaxLosses /\ typed \in 0..MaxTyped

Init ==
    /\ sv = [id |-> 1, map |-> 1]
    /\ cl = [state |-> "connected", gamestates |-> 0, lastCommand |-> 0,
             nextdl |-> FALSE, dl |-> "none", block |-> 0, pure |-> FALSE,
             reason |-> "none"]
    /\ client \in [id : {0}, map : {0}, seen : {<<0, TRUE>>}, phase : {"idle"},
                   hasFile : BOOLEAN, block : {0}, sent : {0}, pending : {<<>>}]
    /\ up = None /\ down = None /\ lost = 0 /\ typed = 0

-----------------------------------------------------------------------------
(* The server: functions of client_t *)

Drop(c, why) == [c EXCEPT !.state = "zombie", !.reason = why]

\* SV_SendClientGameState: the message itself is sent by Reply.
SendClientGameState(c) ==
    [c EXCEPT !.state = IF @ = "connected" THEN "primed" ELSE @,
              !.pure = FALSE,
              !.gamestates = @ + 1]

CloseDownload(c) == [c EXCEPT !.dl = "none"]

\* Mutant of NextDownload: the acknowledged block is counted from one.
NextDownloadOffByOne(c, block) ==
    IF c.state = "active" THEN c
    ELSE IF block # c.block + 1 THEN Drop(c, "broken download")
    ELSE [c EXCEPT !.block = @ + 1]

\* SV_NextDownload_f: the client acknowledges a block; the empty one ends the file.
NextDownload(c, block) ==
    IF c.state = "active" THEN c
    ELSE IF block # c.block THEN Drop(c, "broken download")
    ELSE IF c.block = Blocks THEN CloseDownload(c)
    ELSE [c EXCEPT !.block = @ + 1]

DoneDownload(c) == IF c.state = "active" THEN c ELSE SendClientGameState(c)

\* SV_ExecuteClientCommand.  The file of "download" is a referenced pk3; the
\* checksums of a stock client are good.
ExecuteClientCommand(c, cmd) ==
    CASE cmd.do = "download"   -> IF c.state = "active" THEN c ELSE [c EXCEPT !.dl = "named"]
      [] cmd.do = "nextdl"     -> NextDownload(c, cmd.block)
      [] cmd.do = "stopdl"     -> IF c.state = "active" THEN c ELSE CloseDownload(c)
      [] cmd.do = "donedl"     -> DoneDownload(c)
      [] cmd.do = "cp"         -> IF Pure THEN [c EXCEPT !.pure = TRUE] ELSE c
      [] cmd.do = "vdr"        -> [c EXCEPT !.pure = FALSE]
      [] cmd.do = "disconnect" -> Drop(c, "disconnected")
      [] OTHER                 -> c

\* SV_ClientCommand: a command already run is skipped, a gap drops the client.
\* lastClientCommandString keeps the text; the code only looks for "nextdl".
ClientCommand(c, m) ==
    IF c.state = "zombie" \/ m.n <= c.lastCommand THEN c
    ELSE IF m.n > c.lastCommand + 1 THEN Drop(c, "Lost reliable commands")
    ELSE [ExecuteClientCommand(c, m.cmd) EXCEPT
             !.lastCommand = m.n, !.nextdl = m.cmd.do \in {"nextdl", "chat nextdl"}]

\* SV_UserMove: the first move of a primed client puts it into the world, and
\* then the pure check drops a client that did not send good checksums.
UserMove(c) ==
    LET entered == IF c.state = "primed" THEN [c EXCEPT !.state = "active"] ELSE c
    IN  IF Pure /\ ~c.pure THEN Drop(entered, "Cannot validate pure client!")
                           ELSE entered

\* The message is of this map, or of a download that goes on over a map change.
OfThisMap(c, m) == m.id = sv.id \/ c.dl # "none" \/ c.nextdl

\* Mutant of BeforeRestart: only the first restart of the map is seen.
BeforeFirstRestart(m) == m.id = sv.map

\* The client has this map, and not heard of its restart yet.
BeforeRestart(m) == m.id >= sv.map /\ m.id < sv.id

\* Mutant of Resend: the gamestate is never sent again.
NeverResend(c, m) == c.state = "connected"

\* The client got a message that came after its last gamestate, and still names
\* another map: it lost that gamestate.
Resend(c, m) == c.state # "active" /\ m.ack = <<c.gamestates, TRUE>>

\* The commands of a message, in their order.
RunCommands(c, commands) ==
    LET after[n \in 0..Len(commands)] ==
            IF n = 0 THEN c ELSE ClientCommand(after[n - 1], commands[n])
    IN  after[Len(commands)]

\* SV_ExecuteClientMessage.
ExecuteClientMessage(c, m) ==
    IF OfThisMap(c, m)
    THEN LET ran == RunCommands(c, m.commands)
         IN  IF m.move /\ ran.state # "zombie" THEN UserMove(ran) ELSE ran
    ELSE IF ~BeforeRestart(m) /\ Resend(c, m)
    THEN SendClientGameState(c)
    ELSE c

\* A gamestate, when the server sent one, replaces the packet on its way.
Reply(c) ==
    down' = IF c.gamestates > cl.gamestates
            THEN [kind |-> "gamestate", id |-> sv.id, map |-> sv.map,
                  number |-> <<c.gamestates, FALSE>>, ack |-> c.lastCommand]
            ELSE down

ReceiveClientMessage ==
    /\ up # None
    /\ up' = None
    /\ cl' = IF cl.state = "zombie" THEN cl ELSE ExecuteClientMessage(cl, up)
    /\ Reply(cl')
    /\ UNCHANGED <<sv, client, lost, typed>>

\* SV_WriteDownloadToClient opens the file of a new download.
OpenDownload(c) == IF c.dl = "named" THEN [c EXCEPT !.dl = "open", !.block = 0] ELSE c

\* SV_SendClientMessages, in SV_Frame: a snapshot, with the serverId that the
\* reliable commands give since a map_restart, and a block of the download.
SendClientMessage ==
    /\ down = None
    /\ cl.state # "zombie"
    /\ cl' = OpenDownload(cl)
    /\ down' = [kind |-> "snapshot", number |-> <<cl.gamestates, TRUE>>,
                id |-> IF cl.state = "connected" THEN 0 ELSE sv.id, map |-> sv.map,
                block |-> IF cl'.dl = "open" THEN cl'.block ELSE Blocks + 1,
                ack |-> cl.lastCommand]
    /\ UNCHANGED <<sv, client, up, lost, typed>>

\* SV_SpawnServer: every client is only connected again.
MapChange ==
    /\ sv.id < MaxId
    /\ sv' = [id |-> sv.id + 1, map |-> sv.id + 1]
    /\ cl' = IF cl.state = "zombie" THEN cl ELSE [cl EXCEPT !.state = "connected"]
    /\ UNCHANGED <<client, up, down, lost, typed>>

\* Mutant of MapRestart: the retail SV_MapRestart_f, that the proxy patches.
RetailMapRestart ==
    /\ sv.id < MaxId
    /\ sv' = [sv EXCEPT !.id = @ + 1]
    /\ cl' = IF cl.state = "zombie" THEN cl ELSE [cl EXCEPT !.state = "active"]
    /\ UNCHANGED <<client, up, down, lost, typed>>

\* SV_MapRestart_f, patched: an active client enters again, the others are left.
MapRestart ==
    /\ sv.id < MaxId
    /\ sv' = [sv EXCEPT !.id = @ + 1]
    /\ UNCHANGED <<cl, client, up, down, lost, typed>>

-----------------------------------------------------------------------------
(* The client *)

\* Add reliable commands to those the server has not acknowledged.
WithCommands(c, cmds) ==
    [c EXCEPT !.pending = @ \o [i \in DOMAIN cmds |-> [n |-> c.sent + i, cmd |-> cmds[i]]],
              !.sent = @ + Len(cmds)]

\* What the server has not acknowledged is kept: the last commands.
Acknowledged(c, m) ==
    [c EXCEPT !.seen = m.number,
              !.pending = SubSeq(@, Len(@) - (c.sent - m.ack) + 1, Len(@))]

\* A gamestate: the client loads the map, or downloads the file it misses.
ParseGamestate(c, m) ==
    LET known == [c EXCEPT !.id = m.id, !.map = m.map]
    IN  IF c.hasFile
        THEN [known EXCEPT !.phase = "load"]
        ELSE WithCommands([known EXCEPT !.phase = "download", !.block = 0],
                          <<[do |-> "download"]>>)

\* A block of the download: the client acknowledges the one it waits for, and
\* asks for the gamestate after the last.
ParseDownload(c, m) ==
    IF c.phase # "download" \/ m.block # c.block THEN c
    ELSE IF m.block < Blocks
    THEN WithCommands([c EXCEPT !.block = @ + 1], <<[do |-> "nextdl", block |-> m.block]>>)
    ELSE WithCommands([c EXCEPT !.phase = "await", !.hasFile = TRUE],
                      <<[do |-> "nextdl", block |-> m.block], [do |-> "donedl"]>>)

\* A snapshot of the map that the client has may give it the new serverId.
ParseSnapshot(c, m) ==
    LET known == IF m.map = c.map /\ m.id > c.id THEN [c EXCEPT !.id = m.id] ELSE c
    IN  ParseDownload(known, m)

ReceiveServerMessage ==
    /\ down # None
    /\ down' = None
    /\ LET c == Acknowledged(client, down)
       IN  client' = IF client.phase = "gone" THEN client
                     ELSE IF down.kind = "gamestate" THEN ParseGamestate(c, down)
                     ELSE ParseSnapshot(c, down)
    /\ UNCHANGED <<sv, cl, up, lost, typed>>

\* The client loaded the map: it sends its checksums, then it moves.
Loaded ==
    /\ client.phase = "load"
    /\ client' = WithCommands([client EXCEPT !.phase = "play"], <<[do |-> "cp"]>>)
    /\ UNCHANGED <<sv, cl, up, down, lost, typed>>

SendToServer ==
    /\ up = None
    /\ up' = [kind |-> "message", id |-> client.id, ack |-> client.seen,
              commands |-> client.pending, move |-> client.phase = "play"]
    /\ UNCHANGED <<sv, cl, client, down, lost, typed>>

\* The player types: a chat, vid_restart or disconnect.
Type ==
    /\ client.phase = "play"
    /\ typed < MaxTyped
    /\ typed' = typed + 1
    /\ \/ \E text \in Chats :
             client' = WithCommands(client, <<[do |-> IF text = "nextdl" THEN "chat nextdl"
                                                                       ELSE "chat"]>>)
       \/ client' = WithCommands([client EXCEPT !.phase = "load"], <<[do |-> "vdr"]>>)
       \/ client' = WithCommands([client EXCEPT !.phase = "gone"], <<[do |-> "disconnect"]>>)
    /\ UNCHANGED <<sv, cl, up, down, lost>>

\* The client cannot write the file: it stops the download and goes on without.
GiveUpDownload ==
    /\ client.phase = "download"
    /\ typed < MaxTyped
    /\ typed' = typed + 1
    /\ client' = WithCommands([client EXCEPT !.phase = "await", !.hasFile = TRUE],
                              <<[do |-> "stopdl"], [do |-> "donedl"]>>)
    /\ UNCHANGED <<sv, cl, up, down, lost>>

Lose ==
    /\ lost < MaxLosses
    /\ lost' = lost + 1
    /\ \/ up # None /\ up' = None /\ UNCHANGED down
       \/ down # None /\ down' = None /\ UNCHANGED up
    /\ UNCHANGED <<sv, cl, client, typed>>

-----------------------------------------------------------------------------
Next ==
    \/ ReceiveClientMessage
    \/ SendClientMessage
    \/ MapChange
    \/ MapRestart
    \/ ReceiveServerMessage
    \/ Loaded
    \/ SendToServer
    \/ Type
    \/ GiveUpDownload
    \/ Lose

Spec == Init /\ [][Next]_vars

-----------------------------------------------------------------------------
(* Properties *)

\* A client is in the world of a map only when it has the gamestate of that map,
\* whatever was lost, and whatever it was doing when the map changed or
\* restarted (comment of SV_MapRestart_f in Addresses.hpp).
InTheWorldWithItsMap == cl.state = "active" => client.map = sv.map

\* A stock client is never dropped by the protocol: not for a lost command, nor
\* for a download that two maps share, nor as not pure after a gamestate, a
\* vid_restart or a map_restart made it send its checksums again.
OnlyLeavesByItself == cl.state = "zombie" => cl.reason = "disconnected"

\* docs/features.md: "The server never sends a new gamestate to a client that is
\* already active", and never one to a client that has the gamestate of the map
\* and does not ask for it.
GamestateNotRepeated ==
    [][cl'.gamestates # cl.gamestates =>
         /\ cl.state # "active"
         /\ \/ client.map # sv.map
            \/ \E i \in DOMAIN up.commands : up.commands[i].cmd.do = "donedl"]_vars

\* Every client that stays enters the world of the last map, and stays in it:
\* "the gamestate is only resent when the client really dropped it"
\* (docs/features.md), but then it is.
AlwaysEntersTheMap == <>[](cl.state = "active" \/ client.phase = "gone")

\* It does, but in two cases.  The answer to "donedl" was lost: the client names
\* the map already, and the answer is not sent again.  The last command of a
\* client that is out of the map holds "nextdl": it counts as one of the map.
EntersTheMap ==
    <>[](\/ cl.state = "active"
         \/ client.phase = "gone"
         \/ client.phase = "await" /\ lost > 0
         \/ client.phase = "play" /\ client.map # sv.map /\ cl.nextdl)

\* It enters without a gamestate more than it needs.
EntersTheMapOnce == EntersTheMap /\ GamestateNotRepeated
=============================================================================
