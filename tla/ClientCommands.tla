--------------------------- MODULE ClientCommands ---------------------------
(***************************************************************************)
(* What becomes of the command a client sends.  The engine calls vmMain    *)
(* with GAME_CLIENT_COMMAND; the proxy drops the command (Allowed),        *)
(* answers it (Run) or lets the game run it, and while the game runs it    *)
(* changes what two system calls do: G_ARGV gives other arguments than the *)
(* client's (vote, callvote kick), and G_SEND_SERVER_COMMAND keeps the     *)
(* chat of a spectator among the spectators.  Both hang on static data,    *)
(* set before the game is called and reset when it returns, while the game *)
(* makes system calls that may call the proxy again: a client whose        *)
(* commands overflow is dropped in the middle of another one's chat.       *)
(*                                                                         *)
(* A command is a record: its words, with what atoi reads in each, how     *)
(* long its arguments are, and the separators they hold.  Wording is left  *)
(* out of every answer.                                                    *)
(***************************************************************************)
EXTENDS Integers, FiniteSets

CONSTANTS
    MaxClients,     \* MAX_CLIENTS: the configstrings CS_PLAYERS
    SvMaxClients,   \* sv_maxclients: the slots that can be taken
    Names,          \* the names players have
    Plain,          \* each name without its colors and case
    NoName,         \* the empty configstring
    Texts,          \* the commands clients send
    Orders,         \* gcOrdersCount: entries of the game's gc_orders
    MaxMapRestart,  \* proxy_sv_maxCallVoteMapRestartValue
    DisableKill,    \* proxy_sv_disableKillCmd
    NetStatusOn     \* the original engine, with proxy_sv_enableNetStatus

Slots == 0..MaxClients - 1
Taken == 0..SvMaxClients - 1

\* A word of a command and the number atoi reads in it.
Word(w, n) == [word |-> w, num |-> n]
NoWord == Word("", 0)

\* How long: the arguments fit, are over 256 characters, or the whole line is
\* over maxCommandLength.  ConcatArgs never cuts them: a client's command holds
\* fewer characters than its buffer.
Sizes == {"short", "over256", "over512"}
Marks == {";", "newline"}

ASSUME CommandsAssumption ==
    /\ MaxClients \in Nat \ {0}
    /\ SvMaxClients \in 1..MaxClients
    /\ NoName \notin Names
    /\ \A n \in Names : Plain[n] # "longer than a cvar"
    /\ \A t \in Texts : /\ t.size \in Sizes /\ t.marks \subseteq Marks
                        /\ t.arg1.num \in Int /\ t.arg2.num \in Int
    /\ Orders \in Nat /\ MaxMapRestart \in Nat
    /\ DisableKill \in BOOLEAN /\ NetStatusOn \in BOOLEAN

VARIABLES
    player,         \* per slot: CS_PLAYERS (name, team) and the proxy's data
    belowTeam,      \* sv_gametype < GT_TEAM
    intermission,   \* game: the level has ended
    running,        \* the command the game runs, or None
    gameArgv,       \* client_commands: the arguments given to the game
    spectatorChat   \* chat: the game runs the say_team of a spectator

vars == <<player, belowTeam, intermission, running, gameArgv, spectatorChat>>

None == [who |-> -1]
Idle == running = None
Nobody == [name |-> NoName, team |-> "free", isConnected |-> FALSE,
           muted |-> FALSE, waits |-> {}]
\* The commands answered once in a while: once a second each for myratio and
\* proxyconfig, twice a second together for those of NetStatusCommands.
Answers == {"myratio", "proxyconfig", "netStatus"}
Nothing == [n \in 1..2 |-> NoWord]

TypeOK ==
    /\ player \in [Slots -> [name : Names \cup {NoName},
                             team : {"free", "spectator"}, isConnected : BOOLEAN,
                             muted : BOOLEAN, waits : SUBSET Answers]]
    /\ belowTeam \in BOOLEAN /\ intermission \in BOOLEAN
    /\ Idle \/ (running.who \in Taken /\ running.text \in Texts)
    /\ DOMAIN gameArgv = 1..2
    /\ spectatorChat \in BOOLEAN

Init ==
    /\ player = [c \in Slots |-> Nobody]
    /\ belowTeam \in BOOLEAN
    /\ intermission = FALSE
    /\ running = None
    /\ gameArgv = Nothing
    /\ spectatorChat = FALSE

-----------------------------------------------------------------------------
(* The checks *)

\* Mutant of ClientNumberFromName: only as many slots as there are clients are
\* looked at, as the game does.
FromConnectedOnly(wanted) ==
    LET count == Cardinality({c \in Slots : player[c].name # NoName})
        named == {c \in 0..count - 1 : /\ player[c].name # NoName
                                       /\ Plain[player[c].name] = wanted}
    IN  IF named = {} THEN -1 ELSE CHOOSE c \in named : \A d \in named : c <= d

\* The first slot whose configstring has this name, or -1.
ClientNumberFromName(wanted) ==
    LET named == {c \in Slots : /\ player[c].name # NoName
                                /\ Plain[player[c].name] = wanted}
    IN  IF named = {} THEN -1 ELSE CHOOSE c \in named : \A d \in named : c <= d

Says(t) == t.cmd \in {"say", "say_team", "tell"}

\* "jkaDST_", by its first letters only.
Cheats(t) == t.cmd = "jkaDST_"

Muted(c, t) == player[c].muted /\ (Says(t) \/ t.cmd = "voice_cmd")

TooLong(t) == t.size = "over512" \/ (Says(t) /\ t.size = "over256")

\* The numbers a vote takes, for the votes that are checked; INT_MAX is the
\* largest an int holds.
INT_MAX == 2147483647
VoteRange ==
    [capturelimit |-> 0..INT_MAX, fraglimit |-> 0..INT_MAX,
     clientkick |-> Taken, g_doWarmup |-> 0..1,
     map_restart |-> 0..MaxMapRestart, timelimit |-> 0..35790]

BadVote(t) ==
    /\ t.cmd = "callvote"
    /\ \/ t.arg2.word = "longer than a cvar"
       \/ t.arg1.word = "kick" /\ ClientNumberFromName(t.arg2.word) < 0
       \/ /\ t.arg1.word \in DOMAIN VoteRange
          /\ t.arg2.num \notin VoteRange[t.arg1.word]

\* Mutant of CrashesTheGame: gc takes one order more than there are.
OneOrderMore(t) ==
    \/ t.cmd = "gc" /\ (t.arg1.num >= SvMaxClients \/ t.arg2.num > Orders)
    \/ /\ t.cmd = "npc" /\ t.arg1.word = "spawn"
       /\ t.arg2.word \in {"ragnos", "saber_droid"}
    \/ t.cmd = "team" /\ t.arg1.word \in {"follow1", "follow2"}

\* The commands that crash the game.
CrashesTheGame(t) ==
    \/ t.cmd = "gc" /\ (t.arg1.num >= SvMaxClients \/ t.arg2.num >= Orders)
    \/ /\ t.cmd = "npc" /\ t.arg1.word = "spawn"
       /\ t.arg2.word \in {"ragnos", "saber_droid"}
    \/ t.cmd = "team" /\ t.arg1.word \in {"follow1", "follow2"}

Separated(t) == "newline" \in t.marks \/ (~Says(t) /\ ";" \in t.marks)

\* Allowed, but for the cheat, which drops the client.
Allowed(c, t) ==
    /\ ~Muted(c, t)
    /\ ~TooLong(t)
    /\ ~CrashesTheGame(t)
    /\ t.cmd # "callteamvote"
    /\ ~(DisableKill /\ t.cmd = "kill")
    /\ ~BadVote(t)
    /\ ~Separated(t)

-----------------------------------------------------------------------------
(* While the game runs the command *)

\* ReplaceArguments: what the game reads in place of the client's words.
ReplaceArguments(t) ==
    IF t.cmd = "vote" THEN
        [Nothing EXCEPT ![1] = IF t.arg1.word \in {"y", "Y", "1"} THEN Word("yes", 0)
                                                                 ELSE Word("no", 0)]
    ELSE IF t.cmd = "callvote" /\ t.arg1.word = "kick"
            /\ ClientNumberFromName(t.arg2.word) >= 0 THEN
        [n \in 1..2 |-> IF n = 1 THEN Word("clientkick", 0)
                        ELSE Word("number", ClientNumberFromName(t.arg2.word))]
    ELSE Nothing

\* G_ARGV, as the game sees it.
GameArgv(n) ==
    IF gameArgv[n] # NoWord THEN gameArgv[n]
    ELSE IF n = 1 THEN running.text.arg1 ELSE running.text.arg2

\* The team in the configstring of a client: none is TEAM_FREE.
ClientTeam(c) == player[c].team

\* Mutant of TeamChat: the listener's team is not looked at.
TeamChatToAll(c) == IF ~spectatorChat THEN "chat" ELSE "tchat"

\* TeamChat: what a client gets of a chat that the game sends it.  Broadcasts
\* and texts that are not a chat go as they are.
TeamChat(c) ==
    IF ~spectatorChat THEN "chat"
    ELSE IF ClientTeam(c) # "spectator" THEN "nothing"
    ELSE "tchat"

\* Mutant of ClientCommandDone: what was set for the command stays.
DoneKeepsChat ==
    /\ ~Idle
    /\ running' = None
    /\ gameArgv' = Nothing
    /\ UNCHANGED <<player, belowTeam, intermission, spectatorChat>>
DoneKeepsArguments ==
    /\ ~Idle
    /\ running' = None
    /\ spectatorChat' = FALSE
    /\ UNCHANGED <<player, belowTeam, intermission, gameArgv>>

\* The game returns.
ClientCommandDone ==
    /\ ~Idle
    /\ running' = None
    /\ gameArgv' = Nothing
    /\ spectatorChat' = FALSE
    /\ UNCHANGED <<player, belowTeam, intermission>>

-----------------------------------------------------------------------------
(* GAME_CLIENT_COMMAND *)

\* The engine calls the proxy for a client in the game.
CommandOf(c) == Idle /\ player[c].isConnected

\* SV_DropClient, with the GAME_CLIENT_DISCONNECT it sends.
DropClient(c) == player' = [player EXCEPT ![c] = Nobody]

\* The anti-cheat of Allowed.
Cheat(c, t) ==
    /\ CommandOf(c) /\ Cheats(t)
    /\ DropClient(c)
    /\ UNCHANGED <<belowTeam, intermission, running, gameArgv, spectatorChat>>

\* Run, and Run of netstatus_commands: the proxy answers, unless it just did.
Answered(t) == t.cmd \in Answers /\ (t.cmd = "netStatus" => NetStatusOn)

Answer(c, t) ==
    /\ CommandOf(c) /\ ~Cheats(t) /\ Allowed(c, t)
    /\ Answered(t) /\ t.cmd \notin player[c].waits
    /\ player' = [player EXCEPT ![c].waits = @ \cup {t.cmd}]
    /\ UNCHANGED <<belowTeam, intermission, running, gameArgv, spectatorChat>>

\* The game runs the command.  The last two fields are for the properties.
Forward(c, t) ==
    /\ CommandOf(c) /\ ~Cheats(t) /\ Allowed(c, t)
    /\ ~Answered(t)
    /\ running' = [who |-> c, text |-> t, team |-> ClientTeam(c),
                   muted |-> player[c].muted]
    /\ spectatorChat' = \/ spectatorChat
                        \/ /\ t.cmd = "say_team" /\ belowTeam
                           /\ ClientTeam(c) = "spectator"
    /\ gameArgv' = ReplaceArguments(t)
    /\ UNCHANGED <<player, belowTeam, intermission>>

\* The game's "team": the client changes team, and its configstring with it.
ChangeTeam(team) ==
    /\ ~Idle /\ running.text.cmd = "team"
    /\ player[running.who].isConnected
    /\ player' = [player EXCEPT ![running.who].team = team]
    /\ UNCHANGED <<belowTeam, intermission, running, gameArgv, spectatorChat>>

\* What the game sends overflows the commands of a client: the engine drops it
\* and calls the proxy again, in the middle of the command.
Overflow(c) ==
    /\ ~Idle /\ player[c].name # NoName
    /\ DropClient(c)
    /\ UNCHANGED <<belowTeam, intermission, running, gameArgv, spectatorChat>>

\* An error in the command: the engine leaves every function it was in, stops the
\* server and unloads the proxy.  Another map starts.
Error ==
    /\ ~Idle
    /\ player' = [c \in Slots |-> Nobody]
    /\ belowTeam' \in BOOLEAN /\ intermission' = FALSE
    /\ running' = None /\ gameArgv' = Nothing /\ spectatorChat' = FALSE

-----------------------------------------------------------------------------
(* Between commands *)

\* ClientConnect, where the game shows the client; ClientBegin.
Connect(c, name, team) ==
    /\ Idle /\ player[c].name = NoName
    /\ player' = [player EXCEPT ![c] = [Nobody EXCEPT !.name = name, !.team = team]]
    /\ UNCHANGED <<belowTeam, intermission, running, gameArgv, spectatorChat>>

Begin(c) ==
    /\ Idle /\ player[c].name # NoName /\ ~player[c].isConnected
    /\ player' = [player EXCEPT ![c].isConnected = TRUE]
    /\ UNCHANGED <<belowTeam, intermission, running, gameArgv, spectatorChat>>

Leave(c) ==
    /\ Idle /\ player[c].name # NoName
    /\ DropClient(c)
    /\ UNCHANGED <<belowTeam, intermission, running, gameArgv, spectatorChat>>

\* Run of console_commands, "mute" and "unmute" of a client in the game.
Mute(c, muted) ==
    /\ Idle /\ player[c].isConnected
    /\ player' = [player EXCEPT ![c].muted = muted]
    /\ UNCHANGED <<belowTeam, intermission, running, gameArgv, spectatorChat>>

\* Frames: the time of an answer passes, the level ends.
TimePasses(c, a) ==
    /\ Idle
    /\ player' = [player EXCEPT ![c].waits = @ \ {a}]
    /\ UNCHANGED <<belowTeam, intermission, running, gameArgv, spectatorChat>>

LevelEnds ==
    /\ Idle /\ ~intermission
    /\ intermission' = TRUE
    /\ UNCHANGED <<player, belowTeam, running, gameArgv, spectatorChat>>

\* The proxy is loaded again: its data restarts from zero.
MapChange ==
    /\ Idle
    /\ player' = [c \in Slots |-> [Nobody EXCEPT !.name = player[c].name,
                                                 !.team = player[c].team]]
    /\ belowTeam' \in BOOLEAN /\ intermission' = FALSE
    /\ gameArgv' = Nothing /\ spectatorChat' = FALSE
    /\ UNCHANGED running

Next ==
    \/ \E c \in Taken, t \in Texts : Cheat(c, t) \/ Answer(c, t) \/ Forward(c, t)
    \/ \E team \in {"free", "spectator"} : ChangeTeam(team)
    \/ \E c \in Taken : Overflow(c) \/ Begin(c) \/ Leave(c)
    \/ \E c \in Taken, name \in Names, team \in {"free", "spectator"} :
          Connect(c, name, team)
    \/ \E c \in Taken, muted \in BOOLEAN : Mute(c, muted)
    \/ \E c \in Taken, a \in Answers : TimePasses(c, a)
    \/ ClientCommandDone \/ Error \/ LevelEnds \/ MapChange

Spec == Init /\ [][Next]_vars

-----------------------------------------------------------------------------
(* Properties *)

\* The words that the proxy replaces are those of the vote the game runs now: no
\* other command, of a client or of the console, reads them (GameArgv).
OwnArguments ==
    \/ gameArgv = Nothing
    \/ /\ ~Idle
       /\ \/ running.text.cmd = "vote"
          \/ running.text.cmd = "callvote" /\ running.text.arg1.word = "kick"

\* The say_team of a spectator below the team gametypes is read by the spectators
\* and nobody else, also when players leave while it is sent; every other chat is
\* read by everyone (TeamChat).
SpectatorsAmongThemselves ==
    LET kept == /\ ~Idle /\ running.text.cmd = "say_team"
                /\ running.team = "spectator" /\ belowTeam
    IN  \A c \in Taken :
          TeamChat(c) = IF ~kept THEN "chat"
                        ELSE IF player[c].team = "spectator" THEN "tchat"
                        ELSE "nothing"

\* A kick vote that names a player on the server, in any slot and whatever the
\* colors, reaches the game as the vote against a slot of that name; one that
\* names nobody does not reach it (Allowed, ReplaceArguments).
NamedKick ==
    \A c \in Taken, t \in Texts :
        t.cmd = "callvote" /\ t.arg1.word = "kick" /\ t.size = "short" /\ t.marks = {} =>
          LET named == {d \in Slots : /\ player[d].name # NoName
                                      /\ Plain[player[d].name] = t.arg2.word}
              given == ReplaceArguments(t)
          IN  /\ Allowed(c, t) <=> named # {}
              /\ named # {} => given[1].word = "clientkick" /\ given[2].num \in named

\* The game indexes its tables by what it reads: an order of gc, the client of gc
\* and of a clientkick vote, its own or the one the proxy gives it.  Negative
\* numbers of gc are refused by the game.
InsideItsTables ==
    ~Idle =>
        /\ running.text.cmd = "gc" => GameArgv(1).num < SvMaxClients /\ GameArgv(2).num < Orders
        /\ running.text.cmd = "callvote" /\ GameArgv(1).word = "clientkick" =>
              GameArgv(2).num \in Taken

\* What the game reads in a command is what the client sent or what the proxy put
\* there for that command, and it can use it as it is.
ArgumentsAsMeant == OwnArguments /\ NamedKick /\ InsideItsTables
=============================================================================
