------------------------ MODULE ClientCommandsProofs ------------------------
(***************************************************************************)
(* The words that the game reads are the client's or the ones replaced for *)
(* its command, and the chat of a spectator stays among the spectators,    *)
(* for any slots, names and commands that CommandsAssumption allows.       *)
(***************************************************************************)
EXTENDS MCCommands, Arithmetic, SequenceTheorems

\* What the proxy puts in the place of a kick by name.
Kick(k) == [n \in 1..2 |-> IF n = 1 THEN Word("clientkick", 0) ELSE Word("number", k)]

\* The slots that nobody can take have no name to be found by.
OnlyTakenSlots == \A c \in Slots \ Taken : player[c] = Nobody

\* What was checked of a command before the game runs it holds until it is done,
\* whoever leaves meanwhile.
Checked ==
    ~Idle =>
        /\ running.text.cmd = "gc" =>
              running.text.arg1.num < SvMaxClients /\ running.text.arg2.num < Orders
        /\ running.text.cmd = "callvote" /\ running.text.arg1.word = "clientkick" =>
              running.text.arg2.num \in Taken

\* The arguments are those of a vote, or of a kick with a number.
Replaced ==
    \/ gameArgv = Nothing
    \/ ~Idle /\ running.text.cmd = "vote"
    \/ /\ ~Idle /\ running.text.cmd = "callvote" /\ running.text.arg1.word = "kick"
       /\ \E k \in Taken : gameArgv = Kick(k)

\* The flag of the chat is that of the command the game runs.
ChatOfTheCommand ==
    spectatorChat = (/\ ~Idle /\ running.text.cmd = "say_team"
                     /\ running.team = "spectator" /\ belowTeam)

CommandsInv == TypeOK /\ OnlyTakenSlots /\ Checked /\ Replaced /\ ChatOfTheCommand

-----------------------------------------------------------------------------
(* The checks *)

\* CommandsAssumption, and the records of the module.
LEMMA Constants ==
    /\ MaxClients \in Nat /\ SvMaxClients \in Nat /\ Taken \subseteq Slots
    /\ Slots \subseteq Nat /\ NoName \notin Names
    /\ \A n \in Names : Plain[n] # "longer than a cvar"
    /\ \A t \in Texts : t.arg1.num \in Int /\ t.arg2.num \in Int
    /\ Orders \in Nat
<1>1. MaxClients \in Nat /\ SvMaxClients \in Nat /\ SvMaxClients <= MaxClients
    <2>1. MaxClients \in Nat \ {0} /\ SvMaxClients \in 1..MaxClients
        BY CommandsAssumption, Zenon DEF CommandsAssumption
    <2> QED BY <2>1, SMT
<1>2. Taken \subseteq Slots /\ Slots \subseteq Nat
    BY <1>1, SMT DEF Slots, Taken
<1>3. NoName \notin Names /\ Orders \in Nat
    BY CommandsAssumption, Zenon DEF CommandsAssumption
<1>4. \A n \in Names : Plain[n] # "longer than a cvar"
    BY CommandsAssumption, Zenon DEF CommandsAssumption
<1>5. \A t \in Texts : t.arg1.num \in Int /\ t.arg2.num \in Int
    BY CommandsAssumption, Zenon DEF CommandsAssumption
<1> QED BY <1>1, <1>2, <1>3, <1>4, <1>5, Zenon

\* The votes that are checked: a kick by number takes a slot.
LEMMA CheckedVotes ==
    /\ "kick" \notin DOMAIN VoteRange
    /\ "clientkick" \in DOMAIN VoteRange /\ VoteRange["clientkick"] = Taken
BY DEF VoteRange

\* The slots that have a name.
Named(wanted) == {c \in Slots : /\ player[c].name # NoName
                                /\ Plain[player[c].name] = wanted}

\* A name is found in the first slot that has it.
LEMMA FoundByName ==
    ASSUME NEW wanted
    PROVE  /\ Named(wanted) = {} => ~(ClientNumberFromName(wanted) >= 0)
                                    /\ ClientNumberFromName(wanted) < 0
           /\ Named(wanted) # {} => /\ ClientNumberFromName(wanted) \in Named(wanted)
                                    /\ ClientNumberFromName(wanted) >= 0
                                    /\ ~(ClientNumberFromName(wanted) < 0)
<1> DEFINE named == Named(wanted)
<1>1. named \in SUBSET Nat
    BY Constants DEF Named
<1>2. named # {} => \E c \in named : \A d \in named : c <= d
    BY <1>1, LowestNumber
<1> DEFINE first == CHOOSE c \in named : \A d \in named : c <= d
<1>3. named # {} => first \in named
    BY <1>2
<1>4. ClientNumberFromName(wanted) = IF named = {} THEN -1 ELSE first
    BY DEF ClientNumberFromName, Named
<1> HIDE DEF first, named
<1>5. named = {} => ClientNumberFromName(wanted) = -1
    BY <1>4
<1>6. named # {} => ClientNumberFromName(wanted) \in named
                    /\ ClientNumberFromName(wanted) \in Nat
    BY <1>1, <1>3, <1>4
<1> QED BY <1>5, <1>6, SMT DEF named

\* A name that is found is the name of a client.
LEMMA FoundAmongTheTaken ==
    ASSUME OnlyTakenSlots, NEW wanted, ClientNumberFromName(wanted) >= 0
    PROVE  ClientNumberFromName(wanted) \in Taken
<1>1. ClientNumberFromName(wanted) \in Named(wanted)
    BY FoundByName, Zenon
<1>2. \A c \in Named(wanted) : c \in Taken
    BY DEF OnlyTakenSlots, Nobody, Named
<1> QED BY <1>1, <1>2

\* The arguments of a command, and what Allowed has checked of it.
LEMMA GivenArguments ==
    ASSUME OnlyTakenSlots, NEW c, NEW t \in Texts, Allowed(c, t)
    PROVE  /\ \/ ReplaceArguments(t) = Nothing
              \/ t.cmd = "vote"
              \/ /\ t.cmd = "callvote" /\ t.arg1.word = "kick"
                 /\ \E k \in Taken : ReplaceArguments(t) = Kick(k)
           /\ t.cmd = "gc" => t.arg1.num < SvMaxClients /\ t.arg2.num < Orders
           /\ t.cmd = "callvote" /\ t.arg1.word = "clientkick" => t.arg2.num \in Taken
<1>1. t.cmd = "callvote" /\ t.arg1.word = "kick"
        /\ ClientNumberFromName(t.arg2.word) >= 0
      => \E k \in Taken : ReplaceArguments(t) = Kick(k)
    <2>1. SUFFICES ASSUME t.cmd = "callvote", t.arg1.word = "kick",
                          ClientNumberFromName(t.arg2.word) >= 0
                   PROVE  \E k \in Taken : ReplaceArguments(t) = Kick(k)
        OBVIOUS
    <2>2. ReplaceArguments(t) = Kick(ClientNumberFromName(t.arg2.word))
        BY <2>1 DEF ReplaceArguments, Kick
    <2> QED BY <2>1, <2>2, FoundAmongTheTaken
<1>2. t.cmd = "gc" => t.arg1.num < SvMaxClients /\ t.arg2.num < Orders
    <2>1. t.arg1.num \in Int /\ t.arg2.num \in Int
          /\ SvMaxClients \in Nat /\ Orders \in Nat
        BY Constants, Zenon
    <2>2. t.cmd = "gc" => ~(t.arg1.num >= SvMaxClients) /\ ~(t.arg2.num >= Orders)
        BY DEF Allowed, CrashesTheGame
    <2> QED BY <2>1, <2>2, SMT
<1>3. t.cmd = "callvote" /\ t.arg1.word = "clientkick" => t.arg2.num \in Taken
    BY CheckedVotes DEF Allowed, BadVote
<1>4. \/ ReplaceArguments(t) = Nothing
      \/ t.cmd = "vote"
      \/ t.cmd = "callvote" /\ t.arg1.word = "kick"
         /\ ClientNumberFromName(t.arg2.word) >= 0
    BY DEF ReplaceArguments
<1> QED BY <1>1, <1>2, <1>3, <1>4

-----------------------------------------------------------------------------
(* The invariant *)

\* CommandsInv at the start.
LEMMA CommandsInit == Init => CommandsInv
<1> SUFFICES ASSUME Init PROVE CommandsInv
    OBVIOUS
<1>1. Idle
    BY DEF Init, Idle
<1>2. TypeOK
    BY <1>1 DEF Init, TypeOK, Nobody, Nothing
<1>3. OnlyTakenSlots
    BY DEF Init, OnlyTakenSlots
<1> QED BY <1>1, <1>2, <1>3 DEF Init, CommandsInv, Checked, Replaced, ChatOfTheCommand

\* A step that only writes the record of a slot that can be taken, or of every one.
LEMMA PlayersChange ==
    ASSUME CommandsInv, NEW c \in Taken,
           NEW record \in [name : Names \cup {NoName}, team : {"free", "spectator"},
                           isConnected : BOOLEAN, muted : BOOLEAN, waits : SUBSET Answers],
           player' = [player EXCEPT ![c] = record],
           UNCHANGED <<belowTeam, running, gameArgv, spectatorChat>>,
           intermission' \in BOOLEAN
    PROVE  CommandsInv'
<1> USE DEF CommandsInv
<1>1. TypeOK'
    BY Constants DEF TypeOK, Idle
<1>2. OnlyTakenSlots'
    BY Constants DEF OnlyTakenSlots, TypeOK
<1>3. Checked' /\ Replaced' /\ ChatOfTheCommand'
    BY DEF Checked, Replaced, ChatOfTheCommand, Idle
<1> QED BY <1>1, <1>2, <1>3

\* The proxy starts again with its data.
LEMMA StartsAgain ==
    ASSUME running' = None, gameArgv' = Nothing, spectatorChat' = FALSE,
           belowTeam' \in BOOLEAN, intermission' \in BOOLEAN,
           player' \in [Slots -> [name : Names \cup {NoName},
                                  team : {"free", "spectator"}, isConnected : BOOLEAN,
                                  muted : BOOLEAN, waits : SUBSET Answers]],
           OnlyTakenSlots'
    PROVE  CommandsInv'
<1>1. Idle'
    BY DEF Idle
<1>2. TypeOK'
    BY <1>1 DEF TypeOK, Nothing
<1> QED BY <1>1, <1>2 DEF CommandsInv, Checked, Replaced, ChatOfTheCommand

\* The game is given a command.
LEMMA ForwardKeeps ==
    ASSUME CommandsInv, NEW c \in Taken, NEW t \in Texts, Forward(c, t)
    PROVE  CommandsInv'
<1> USE DEF CommandsInv
<1>1. running' = [who |-> c, text |-> t, team |-> player[c].team, muted |-> player[c].muted]
    BY DEF Forward, ClientTeam
<1>2. running'.who = c /\ running'.text = t /\ running'.team = player[c].team
    BY <1>1
<1>3. ~Idle'
    <2>1. c # -1
        <3>1. SvMaxClients \in Nat
            BY Constants
        <3> QED BY <3>1, SMT DEF Taken
    <2>2. None.who = -1
        BY DEF None
    <2> QED BY <1>2, <2>1, <2>2 DEF Idle
<1>4. TypeOK'
    <2>1. gameArgv' = ReplaceArguments(t) /\ UNCHANGED <<player, belowTeam, intermission>>
        BY DEF Forward
    <2>2. DOMAIN ReplaceArguments(t) = 1..2
        BY DEF ReplaceArguments, Nothing
    <2>3. spectatorChat' \in BOOLEAN
        BY DEF Forward, TypeOK
    <2> QED BY <1>2, <2>1, <2>2, <2>3 DEF TypeOK
<1>5. OnlyTakenSlots'
    BY DEF Forward, OnlyTakenSlots
<1>6. Checked' /\ Replaced'
    BY <1>2, <1>3, GivenArguments DEF Forward, Checked, Replaced
<1>7. ChatOfTheCommand'
    <2>1. ~spectatorChat
        BY DEF Forward, CommandOf, ChatOfTheCommand
    <2> QED BY <1>2, <1>3, <2>1 DEF Forward, ChatOfTheCommand, ClientTeam
<1> QED BY <1>4, <1>5, <1>6, <1>7

\* Every step keeps CommandsInv.
LEMMA CommandsNext == CommandsInv /\ [Next]_vars => CommandsInv'
<1> SUFFICES ASSUME CommandsInv, [Next]_vars PROVE CommandsInv'
    OBVIOUS
<1> DEFINE Player == [name : Names \cup {NoName}, team : {"free", "spectator"},
                      isConnected : BOOLEAN, muted : BOOLEAN, waits : SUBSET Answers]
<1>0. /\ \A c \in Slots : player[c] \in Player
      /\ player \in [Slots -> Player]
      /\ Nobody \in Player
      /\ intermission \in BOOLEAN /\ belowTeam \in BOOLEAN
    BY DEF CommandsInv, TypeOK, Nobody
<1>1. ASSUME NEW c \in Taken, DropClient(c),
             UNCHANGED <<belowTeam, intermission, running, gameArgv, spectatorChat>>
      PROVE  CommandsInv'
    BY <1>0, <1>1, PlayersChange DEF DropClient
<1>2. ASSUME NEW c \in Taken, NEW t \in Texts, Cheat(c, t) PROVE CommandsInv'
    BY <1>1, <1>2 DEF Cheat
<1>3. ASSUME NEW c \in Taken, NEW t \in Texts, Answer(c, t) PROVE CommandsInv'
    <2>1. [player[c] EXCEPT !.waits = @ \cup {t.cmd}] \in Player
        BY <1>0, <1>3, Constants DEF Answer, Answered
    <2>2. player' = [player EXCEPT ![c] = [player[c] EXCEPT !.waits = @ \cup {t.cmd}]]
        BY <1>3 DEF Answer
    <2> QED BY <1>0, <1>3, <2>1, <2>2, PlayersChange DEF Answer
<1>4. ASSUME NEW c \in Taken, NEW t \in Texts, Forward(c, t) PROVE CommandsInv'
    BY <1>4, ForwardKeeps
<1>5. ASSUME NEW team \in {"free", "spectator"}, ChangeTeam(team) PROVE CommandsInv'
    <2>1. running.who \in Taken
        BY <1>5 DEF ChangeTeam, CommandsInv, TypeOK
    <2>2. [player[running.who] EXCEPT !.team = team] \in Player
        BY <1>0, <2>1, Constants
    <2>3. player' = [player EXCEPT ![running.who] = [player[running.who] EXCEPT !.team = team]]
        BY <1>5 DEF ChangeTeam
    <2>4. ASSUME NEW c \in Taken, c = running.who PROVE CommandsInv'
        <3>1. [player[c] EXCEPT !.team = team] \in Player
              /\ player' = [player EXCEPT ![c] = [player[c] EXCEPT !.team = team]]
            BY <2>2, <2>3, <2>4
        <3>2. UNCHANGED <<belowTeam, running, gameArgv, spectatorChat>>
              /\ intermission' \in BOOLEAN
            BY <1>0, <1>5 DEF ChangeTeam
        <3> HIDE DEF Player
        <3> QED BY <3>1, <3>2, PlayersChange DEF Player
    <2> QED BY <2>1, <2>4
<1>6. ASSUME NEW c \in Taken, Overflow(c) \/ Leave(c) PROVE CommandsInv'
    BY <1>1, <1>6 DEF Overflow, Leave
<1>7. ASSUME NEW c \in Taken, Begin(c) PROVE CommandsInv'
    <2>1. [player[c] EXCEPT !.isConnected = TRUE] \in Player
        BY <1>0, Constants
    <2>2. player' = [player EXCEPT ![c] = [player[c] EXCEPT !.isConnected = TRUE]]
        BY <1>7 DEF Begin
    <2> QED BY <1>0, <1>7, <2>1, <2>2, PlayersChange DEF Begin
<1>8. ASSUME NEW c \in Taken, NEW name \in Names, NEW team \in {"free", "spectator"},
             Connect(c, name, team)
      PROVE  CommandsInv'
    <2>1. [Nobody EXCEPT !.name = name, !.team = team] \in Player
        BY <1>0
    <2> QED BY <1>0, <1>8, <2>1, PlayersChange DEF Connect
<1>9. ASSUME NEW c \in Taken, NEW muted \in BOOLEAN, Mute(c, muted) PROVE CommandsInv'
    <2>1. [player[c] EXCEPT !.muted = muted] \in Player
        BY <1>0, Constants
    <2>2. player' = [player EXCEPT ![c] = [player[c] EXCEPT !.muted = muted]]
        BY <1>9 DEF Mute
    <2> QED BY <1>0, <1>9, <2>1, <2>2, PlayersChange DEF Mute
<1>10. ASSUME NEW c \in Taken, NEW a \in Answers, TimePasses(c, a) PROVE CommandsInv'
    <2>1. [player[c] EXCEPT !.waits = @ \ {a}] \in Player
        BY <1>0, Constants
    <2>2. player' = [player EXCEPT ![c] = [player[c] EXCEPT !.waits = @ \ {a}]]
        BY <1>10 DEF TimePasses
    <2> QED BY <1>0, <1>10, <2>1, <2>2, PlayersChange DEF TimePasses
<1>11. CASE ClientCommandDone
    <2>1. OnlyTakenSlots'
        BY <1>11 DEF ClientCommandDone, CommandsInv, OnlyTakenSlots
    <2> QED BY <1>0, <1>11, <2>1, StartsAgain DEF ClientCommandDone
<1>12. CASE Error
    <2>1. OnlyTakenSlots' /\ player' \in [Slots -> Player]
        BY <1>0, <1>12 DEF Error, OnlyTakenSlots
    <2> QED BY <1>12, <2>1, StartsAgain DEF Error
<1>13. CASE LevelEnds
    BY <1>0, <1>13 DEF LevelEnds, CommandsInv, TypeOK, OnlyTakenSlots, Checked, Replaced,
                       ChatOfTheCommand, Idle
<1>14. CASE MapChange
    <2>1. \A c \in Slots : [Nobody EXCEPT !.name = player[c].name,
                                          !.team = player[c].team] \in Player
        BY <1>0
    <2>2. player' \in [Slots -> Player]
        BY <1>14, <2>1 DEF MapChange
    <2>3. OnlyTakenSlots'
        BY <1>14 DEF MapChange, CommandsInv, OnlyTakenSlots, Nobody
    <2>4. running' = None
        BY <1>14 DEF MapChange, Idle
    <2> QED BY <1>14, <2>2, <2>3, <2>4, StartsAgain DEF MapChange
<1>15. CASE UNCHANGED vars
    BY <1>15 DEF vars, CommandsInv, TypeOK, OnlyTakenSlots, Checked, Replaced,
                 ChatOfTheCommand, Idle
<1> QED BY <1>2, <1>3, <1>4, <1>5, <1>6, <1>7, <1>8, <1>9, <1>10, <1>11, <1>12, <1>13,
           <1>14, <1>15 DEF Next

-----------------------------------------------------------------------------
(* What the proxy promises *)

\* A kick that names a player becomes one by number, and no other does (Allowed,
\* ReplaceArguments).
LEMMA KicksByName ==
    ASSUME CommandsInv
    PROVE  NamedKick
<1> SUFFICES ASSUME NEW c \in Taken, NEW t \in Texts,
                    t.cmd = "callvote", t.arg1.word = "kick", t.size = "short",
                    t.marks = {}
             PROVE  /\ Allowed(c, t) <=> Named(t.arg2.word) # {}
                    /\ Named(t.arg2.word) # {} =>
                          /\ ReplaceArguments(t)[1].word = "clientkick"
                          /\ ReplaceArguments(t)[2].num \in Named(t.arg2.word)
    BY DEF NamedKick, Named
<1> DEFINE named == Named(t.arg2.word)
<1>1. ClientNumberFromName(t.arg2.word) < 0 <=> named = {}
    BY FoundByName
<1>2. named # {} => t.arg2.word # "longer than a cvar"
    <2>1. \A d \in Slots : player[d].name \in Names \cup {NoName}
        BY DEF CommandsInv, TypeOK
    <2> QED BY <2>1, Constants DEF Named
<1>3. BadVote(t) <=> named = {}
    BY <1>1, <1>2, CheckedVotes DEF BadVote
<1>4. /\ ~Muted(c, t) /\ ~TooLong(t) /\ ~CrashesTheGame(t) /\ ~Separated(t)
      /\ t.cmd # "callteamvote" /\ t.cmd # "kill"
    BY DEF Muted, TooLong, CrashesTheGame, Separated, Says
<1>5. ASSUME named # {}
      PROVE  /\ ReplaceArguments(t)[1].word = "clientkick"
             /\ ReplaceArguments(t)[2].num \in named
    <2>1. ClientNumberFromName(t.arg2.word) \in named
          /\ ClientNumberFromName(t.arg2.word) >= 0
        BY <1>5, FoundByName
    <2>2. ReplaceArguments(t) = Kick(ClientNumberFromName(t.arg2.word))
        BY <2>1 DEF ReplaceArguments, Kick
    <2> QED BY <2>1, <2>2 DEF Kick, Word
<1> QED BY <1>3, <1>4, <1>5 DEF Allowed

\* The words are the client's, or of the vote it calls, and numbers the game can use.
LEMMA MeantByTheInvariant ==
    ASSUME CommandsInv
    PROVE  ArgumentsAsMeant
<1>1. OwnArguments
    BY DEF CommandsInv, Replaced, OwnArguments
<1>2. InsideItsTables
    <2>1. Nothing[1] = NoWord /\ Nothing[2] = NoWord
        BY DEF Nothing
    <2>2. ASSUME ~Idle, running.text.cmd = "gc"
          PROVE  GameArgv(1).num < SvMaxClients /\ GameArgv(2).num < Orders
        BY <2>1, <2>2 DEF CommandsInv, Checked, Replaced, GameArgv
    <2>3. ASSUME ~Idle, running.text.cmd = "callvote", GameArgv(1).word = "clientkick"
          PROVE  GameArgv(2).num \in Taken
        <3>1. CASE gameArgv = Nothing
            BY <2>1, <2>3, <3>1 DEF CommandsInv, Checked, GameArgv
        <3>2. ASSUME NEW k \in Taken, gameArgv = Kick(k) PROVE GameArgv(2).num \in Taken
            <4>1. gameArgv[2] = Word("number", k)
                BY <3>2 DEF Kick
            <4>2. Word("number", k).word = "number" /\ NoWord.word = ""
                BY DEF Word, NoWord
            <4>3. gameArgv[2] # NoWord
                BY <4>1, <4>2
            <4>4. gameArgv[2].num = k
                BY <4>1 DEF Word
            <4> QED BY <4>3, <4>4 DEF GameArgv
        <3> QED BY <2>3, <3>1, <3>2 DEF CommandsInv, Replaced
    <2> QED BY <2>2, <2>3 DEF InsideItsTables
<1> QED BY <1>1, <1>2, KicksByName DEF ArgumentsAsMeant

\* The types of the module, for any slots, names and commands.
THEOREM CommandsTyped == Spec => []TypeOK
<1>1. CommandsInv => TypeOK
    BY DEF CommandsInv
<1> QED BY <1>1, CommandsInit, CommandsNext, PTL DEF Spec

\* What the game reads in a command is what its client sent, or what the proxy put
\* there for this command, whoever leaves and whatever fails while it runs
\* (ReplaceArguments, ClientCommandDone).
THEOREM ArgumentsHold == Spec => []ArgumentsAsMeant
<1>1. CommandsInv => ArgumentsAsMeant
    BY MeantByTheInvariant
<1> QED BY <1>1, CommandsInit, CommandsNext, PTL DEF Spec

\* The chat of a spectator is read by the spectators, and every other chat by all
\* (TeamChat).
THEOREM SpectatorsKeepTheirChat == Spec => []SpectatorsAmongThemselves
<1>1. CommandsInv => SpectatorsAmongThemselves
    BY DEF CommandsInv, ChatOfTheCommand, SpectatorsAmongThemselves, TeamChat, ClientTeam
<1> QED BY <1>1, CommandsInit, CommandsNext, PTL DEF Spec

-----------------------------------------------------------------------------
(* Entities *)

EntitiesInv ==
    /\ located \in Nat
    /\ number \in [E!GentityNums -> Int]
    /\ WorldIsWhatWasLinked

\* The constants of Entities.
LEMMA EntitiesLimits ==
    /\ MaxGentities \in Nat \ {0} /\ EntitySizes \subseteq Nat \ {0} /\ Numbers \subseteq Int
    /\ E!GentityNums \subseteq Nat /\ -1 \notin E!GentityNums
BY PartsAssumption DEF E!EntitiesConstants, E!GentityNums

\* An element of the array is found by its address, whatever is in its number.
LEMMA PlaceByAddress ==
    ASSUME located \in Nat \ {0}, NEW n \in E!GentityNums
    PROVE  E!PlaceOf(n) = n
<1>1. n \in Nat
    BY EntitiesLimits
<1>2. /\ n * located \in Nat
      /\ (n * located) % located = 0 /\ (n * located) \div located = n
    BY <1>1, Multiple
<1>3. ~(located <= 0) /\ ~(n * located < 0)
    BY <1>2
<1>4. E!NumForGentity(n * located) = n
    BY <1>2, <1>3, Zenon DEF E!NumForGentity
<1> QED
    BY <1>4 DEF E!PlaceOf, E!SvEntityForGentity

LEMMA EntitiesNext == EntitiesInv /\ E!Next => EntitiesInv'
<1> SUFFICES ASSUME EntitiesInv, E!Next PROVE EntitiesInv'
    OBVIOUS
<1> USE DEF EntitiesInv, WorldIsWhatWasLinked, E!WorldIsWhatWasLinked
<1>1. CASE \E size \in EntitySizes : E!LocateGameData(size)
    BY <1>1, EntitiesLimits DEF E!LocateGameData
<1>2. CASE \E n \in E!GentityNums, v \in Numbers : E!SetNumber(n, v)
    BY <1>2, EntitiesLimits DEF E!SetNumber
<1>3. ASSUME NEW n \in E!GentityNums, E!Link(n) \/ E!Unlink(n)
      PROVE  EntitiesInv'
    <2>1. E!PlaceOf(n) = n
        BY <1>3, PlaceByAddress DEF E!Link, E!Unlink
    <2>2. n # -1
        BY EntitiesLimits
    <2> QED
        BY <1>3, <2>1, <2>2 DEF E!Link, E!Unlink
<1>4. CASE \E address \in -1..3, v \in Numbers : E!Other(address, v)
    BY <1>4 DEF E!Other
<1> QED
    BY <1>1, <1>2, <1>3, <1>4 DEF E!Next

\* The engine's world has the entities that the game has linked, for any sizes of
\* the array's entities and whatever is written to their numbers
\* (Proxy_SV_SvEntityForGentity).
THEOREM WorldIsTheGames == MCSpec => []WorldIsWhatWasLinked
<1>1. MCInit => EntitiesInv
    BY DEF MCInit, E!Init, EntitiesInv, WorldIsWhatWasLinked, E!WorldIsWhatWasLinked
<1>2. EntitiesInv /\ [MCNext]_<<part, vars, messageVars, tokensVars, entityVars, banVars>> => EntitiesInv'
    <2>1. EntitiesInv /\ UNCHANGED entityVars => EntitiesInv'
        BY DEF EntitiesInv, entityVars, WorldIsWhatWasLinked, E!WorldIsWhatWasLinked
    <2> QED
        BY <2>1, EntitiesNext DEF MCNext
<1>3. EntitiesInv => WorldIsWhatWasLinked
    BY DEF EntitiesInv
<1> QED
    BY <1>1, <1>2, <1>3, PTL DEF MCSpec

-----------------------------------------------------------------------------
(* Messages *)

\* Once the end was passed, readcount tells; until then, the read place is in the
\* message.
MessageInv ==
    /\ message \in [oob : BOOLEAN, cursize : Nat]
    /\ bit \in Nat /\ readcount \in Nat
    /\ value.is = "zero" => readcount > message.cursize
    /\ readcount <= message.cursize =>
           bit <= M!End /\ (message.oob => bit = 8 * readcount)
    /\ M!NothingPastTheEnd

\* The constants of MessageBits.
LEMMA MessageLimits ==
    /\ MessageSizes \subseteq Nat /\ Widths \subseteq ((-32)..32) \ {0}
    /\ OobWidths \subseteq {8, 16, 32} /\ MaxSymbol \in Nat \ {0}
BY PartsAssumption DEF M!MessageConstants

\* A value of at most 32 bits has at most four symbols.
LEMMA Symbols ==
    ASSUME NEW k \in 0..4, NEW s \in k..(MaxSymbol * k)
    PROVE  s \in Nat /\ s <= 4 * MaxSymbol
<1>1. MaxSymbol * 0 = 0 /\ MaxSymbol * 1 = MaxSymbol /\ MaxSymbol * 2 = 2 * MaxSymbol
      /\ MaxSymbol * 3 = 3 * MaxSymbol /\ MaxSymbol * 4 = 4 * MaxSymbol
    BY MessageLimits
<1>2. k \in {0, 1, 2, 3, 4}
    OBVIOUS
<1> QED
    BY <1>1, <1>2, MessageLimits

\* One call of Proxy_MSG_ReadBits.
LEMMA ReadKeeps ==
    ASSUME MessageInv, UNCHANGED message,
           NEW bits \in IF message.oob THEN OobWidths ELSE Widths,
           NEW symbols \in (M!Abs(bits) \div 8)..(MaxSymbol * (M!Abs(bits) \div 8)),
           M!ReadBits(bits, symbols)
    PROVE  /\ MessageInv'
           /\ value.is = "zero" => value'.is = "zero" /\ readcount' > message.cursize
<1>1. message.cursize \in Nat /\ message.oob \in BOOLEAN /\ M!End \in Nat
    BY DEF MessageInv, M!End
<1>2. /\ bits \in (-32)..32
      /\ M!Abs(bits) \in 0..32
    BY MessageLimits DEF M!Abs
<1>3. M!Abs(bits) \div 8 \in 0..4 /\ M!Abs(bits) % 8 \in 0..7
    BY <1>2
<1>4. symbols \in Nat /\ symbols <= 4 * MaxSymbol /\ 4 * MaxSymbol \in Nat
    BY <1>3, Symbols, MessageLimits
<1>5. M!End' = M!End
    BY DEF M!End
<1>6. CASE readcount > message.cursize
    BY <1>1, <1>5, <1>6 DEF M!ReadBits, MessageInv, M!NothingPastTheEnd
<1>7. CASE readcount <= message.cursize /\ M!Over(bits)
    <2>1. /\ value' = [is |-> "zero", upTo |-> bit] /\ readcount' = message.cursize + 1
          /\ bit' = bit
        BY <1>1, <1>7 DEF M!ReadBits, M!GivesZero, MessageInv
    <2> QED
        BY <1>1, <1>5, <2>1 DEF MessageInv, M!NothingPastTheEnd
<1>8. CASE readcount <= message.cursize /\ ~M!Over(bits)
    <2>0. value.is # "zero" /\ bit <= M!End /\ M!Read(bits, symbols)
        BY <1>1, <1>8 DEF M!ReadBits, MessageInv
    <2>1. CASE message.oob
        <3>1. bits \in {8, 16, 32} /\ M!Abs(bits) = bits /\ bits \div 8 \in {1, 2, 4}
              /\ bits = 8 * (bits \div 8)
            BY <2>1, MessageLimits DEF M!Abs
        <3>2. bit = 8 * readcount /\ readcount + bits \div 8 <= message.cursize
            BY <1>1, <1>8, <2>1, <3>1 DEF M!Over, MessageInv
        <3>3. /\ bit' = bit + bits /\ readcount' = readcount + bits \div 8
              /\ value' = [is |-> "read", upTo |-> bit + bits]
            BY <2>0, <2>1 DEF M!Read, M!EngineReads
        <3> HIDE DEF M!Abs
        <3>4. bit' = 8 * readcount' /\ bit' <= M!End
            BY <1>1, <3>1, <3>2, <3>3 DEF M!End, MessageInv
        <3> QED
            BY <1>1, <1>4, <1>5, <2>0, <3>1, <3>3, <3>4 DEF MessageInv, M!NothingPastTheEnd
    <2>2. CASE ~message.oob
        <3> DEFINE place == bit + (M!Abs(bits) % 8) + symbols
        <3>1. bit + (M!Abs(bits) % 8) <= M!End
            BY <1>1, <1>3, <1>8, <2>2 DEF M!Over, MessageInv
        <3>2. place \in Nat /\ place <= M!End + 4 * MaxSymbol /\ bit' = place
            BY <1>1, <1>3, <1>4, <2>0, <2>2, <3>1 DEF M!Read, M!EngineReads, MessageInv
        <3>3. CASE place > M!End
            <4>1. /\ value' = [is |-> "zero", upTo |-> bit]
                  /\ readcount' = message.cursize + 1
                BY <2>0, <2>2, <3>3 DEF M!Read, M!EngineReads
            <4> QED
                BY <1>1, <1>5, <2>0, <3>2, <4>1 DEF MessageInv, M!NothingPastTheEnd
        <3>4. CASE ~(place > M!End)
            <4>1. /\ value' = [is |-> "read", upTo |-> place]
                  /\ readcount' = place \div 8 + 1
                BY <2>0, <2>2, <3>4 DEF M!Read, M!EngineReads
            <4>2. place \div 8 \in Nat
                BY <3>2
            <4> QED
                BY <1>1, <1>4, <1>5, <2>0, <2>2, <3>2, <3>4, <4>1, <4>2
                DEF MessageInv, M!NothingPastTheEnd
        <3> QED
            BY <3>3, <3>4
    <2> QED
        BY <1>1, <2>1, <2>2
<1> QED
    BY <1>1, <1>6, <1>7, <1>8 DEF MessageInv

\* A message gives its own bits or zeros, and zeros for good once its end is passed
\* (Proxy_MSG_ReadBits).
THEOREM MessagesEnd == MCSpec => ReadsEndWithTheMessage
<1> DEFINE Final == value.is = "zero" => value'.is = "zero" /\ readcount' > message.cursize
           NoneFollowed == <<part, vars, messageVars, tokensVars, entityVars, banVars>>
<1>1. MCInit => MessageInv
    <2> SUFFICES ASSUME M!Init PROVE MessageInv
        BY DEF MCInit
    <2>1. message \in [oob : BOOLEAN, cursize : Nat]
        BY MessageLimits DEF M!Init
    <2>2. M!End \in Nat /\ 4 * MaxSymbol \in Nat
        BY <2>1, MessageLimits DEF M!End
    <2> QED
        BY <2>1, <2>2 DEF M!Init, MessageInv, M!NothingPastTheEnd
<1>2. MessageInv /\ [MCNext]_NoneFollowed => MessageInv' /\ [Final]_M!messageVars
    <2>1. ASSUME MessageInv, M!Next PROVE MessageInv' /\ Final
        BY <2>1, ReadKeeps DEF M!Next
    <2>2. ASSUME MessageInv, UNCHANGED messageVars PROVE MessageInv' /\ UNCHANGED M!messageVars
        BY <2>2 DEF messageVars, M!messageVars, MessageInv, M!NothingPastTheEnd, M!End
    <2> QED
        BY <2>1, <2>2 DEF MCNext
<1>3. MessageInv => M!NothingPastTheEnd
    BY DEF MessageInv
<1> HIDE DEF Final
<1>4. MCSpec => []M!NothingPastTheEnd /\ [][Final]_M!messageVars
    BY <1>1, <1>2, <1>3, PTL DEF MCSpec
<1> QED
    BY <1>4 DEF ReadsEndWithTheMessage, M!ReadsEndWithTheMessage, M!EndIsFinal, Final

-----------------------------------------------------------------------------
(* Words *)

\* The rest of a sequence.
LEMMA Rest ==
    ASSUME NEW S, NEW s \in Seq(S), NEW n \in 0..Len(s)
    PROVE  /\ SubSeq(s, n + 1, Len(s)) \in Seq(S) /\ Len(SubSeq(s, n + 1, Len(s))) = Len(s) - n
<1>1. Len(s) \in Nat /\ DOMAIN s = 1..Len(s)
    OBVIOUS
<1>2. PICK m \in Int : m = n + 1
    <2>1. n + 1 \in Int
        BY <1>1
    <2> QED
        BY <2>1
<1>3. \A i \in m..Len(s) : s[i] \in S
    <2>1. \A i \in m..Len(s) : i \in 1..Len(s)
        BY <1>1, <1>2
    <2> QED
        BY <2>1
<1>4. /\ SubSeq(s, m, Len(s)) \in Seq(S)
      /\ Len(SubSeq(s, m, Len(s))) = IF m <= Len(s) THEN Len(s) - m + 1 ELSE 0
    BY <1>1, <1>3, SubSeqProperties
<1>5. Len(SubSeq(s, m, Len(s))) = Len(s) - n
    <2>1. PICK l \in Nat : l = Len(s)
        BY <1>1
    <2>2. (IF m <= l THEN l - m + 1 ELSE 0) = l - n
        BY <1>2, <2>1
    <2> QED
        BY SMTT(40), <1>4, <2>1, <2>2
<1> QED
    BY <1>2, <1>4, <1>5

\* What FlattenSeq makes of sequences, from the first on.
LEMMA Flattened ==
    ASSUME NEW S, NEW seqs \in Seq(Seq(S)), seqs # <<>>
    PROVE  \E f \in [1..Len(seqs) -> Seq(S)] :
              /\ f[1] = seqs[1]
              /\ \A i \in 2..Len(seqs) : f[i] = f[i - 1] \o seqs[i]
              /\ T!FlattenSeq(seqs) = f[Len(seqs)]
<1>1. /\ Len(seqs) \in Nat /\ Len(seqs) # 0 /\ DOMAIN seqs = 1..Len(seqs)
      /\ \A i \in 1..Len(seqs) : seqs[i] \in Seq(S)
    OBVIOUS
<1>2. PICK k \in Nat : k = Len(seqs) - 1
    <2>1. Len(seqs) - 1 \in Nat
        BY <1>1
    <2> QED
        BY <2>1
<1> DEFINE Joins(f, n) == /\ f[1] = seqs[1]
                          /\ \A i \in 2..(n + 1) : f[i] = f[i - 1] \o seqs[i]
           Has(n) == \E f \in [1..(n + 1) -> Seq(S)] : Joins(f, n)
           Joined == {n \in Nat : n <= k => Has(n)}
<1>3. Nat \subseteq Joined
    <2>1. Has(0)
        <3>1. PICK f : f = [i \in 1..1 |-> seqs[1]]
            OBVIOUS
        <3>2. f \in [1..1 -> Seq(S)] /\ f[1] = seqs[1]
            BY <1>1, <3>1
        <3>3. Joins(f, 0)
            <4>1. \A i : ~(i \in 2..(0 + 1))
                OBVIOUS
            <4> QED
                BY <3>2, <4>1
        <3>4. f \in [1..(0 + 1) -> Seq(S)]
            BY <3>2
        <3> QED
            BY <3>3, <3>4
    <2>2. ASSUME NEW n \in Nat, Has(n), n + 1 <= k PROVE Has(n + 1)
        <3>1. PICK f \in [1..(n + 1) -> Seq(S)] : Joins(f, n)
            BY <2>2
        <3> DEFINE g == [i \in 1..(n + 2) |-> IF i = n + 2 THEN f[n + 1] \o seqs[n + 2] ELSE f[i]]
        <3>2. seqs[n + 2] \in Seq(S) /\ f[n + 1] \in Seq(S)
            <4>1. n + 2 \in 1..Len(seqs) /\ n + 1 \in 1..(n + 1)
                BY <1>1, <1>2, <2>2
            <4> QED
                BY <1>1, <4>1
        <3>3. g \in [1..(n + 2) -> Seq(S)]
            <4>1. f[n + 1] \o seqs[n + 2] \in Seq(S)
                BY <3>2
            <4>2. \A i \in 1..(n + 2) : i = n + 2 \/ i \in 1..(n + 1)
                OBVIOUS
            <4> QED
                BY <4>1, <4>2
        <3>4. \A i \in 2..(n + 1) : g[i] = f[i] /\ g[i - 1] = f[i - 1]
            OBVIOUS
        <3>5. g[n + 2] = f[n + 1] \o seqs[n + 2] /\ g[n + 1] = f[n + 1] /\ g[1] = f[1]
            <4>1. n + 2 \in 1..(n + 2) /\ n + 1 \in 1..(n + 2) /\ 1 \in 1..(n + 2)
                  /\ n + 1 # n + 2 /\ 1 # n + 2
                OBVIOUS
            <4> QED
                BY <4>1
        <3> HIDE DEF g
        <3>6. \A i \in 2..(n + 2) : i = n + 2 \/ i \in 2..(n + 1)
            OBVIOUS
        <3>7. (n + 2) - 1 = n + 1 /\ (n + 1) + 1 = n + 2
            OBVIOUS
        <3>8. Joins(g, n + 1)
            BY <3>1, <3>4, <3>5, <3>6, <3>7
        <3>9. g \in [1..((n + 1) + 1) -> Seq(S)]
            BY <3>3, <3>7
        <3> QED
            BY <3>8, <3>9
    <2> HIDE DEF Has
    <2>3. \A n \in Nat : n + 1 <= k => n <= k
        BY <1>2
    <2>4. 0 \in Joined /\ \A n \in Nat : n \in Joined => n + 1 \in Joined
        BY <2>1, <2>2, <2>3
    <2> HIDE DEF Joined
    <2> QED
        BY <2>4, Induction
<1> HIDE DEF Joined
<1>4. PICK f \in [1..Len(seqs) -> Seq(S)] : Joins(f, k)
    <2>1. k \in Joined
        BY <1>2, <1>3
    <2>2. k <= k /\ k + 1 = Len(seqs)
        BY <1>1, <1>2
    <2> QED
        BY <2>1, <2>2 DEF Joined, Has
<1> DEFINE Step(h) == [i \in 1..Len(seqs) |-> IF i = 1 THEN seqs[i] ELSE h[i - 1] \o seqs[i]]
           g == CHOOSE h : h = Step(h)
<1>5. T!FlattenSeq(seqs) = g[Len(seqs)]
    BY <1>1, Zenon DEF T!FlattenSeq
<1>6. g = Step(g)
    <2>1. f = Step(f)
        <3>1. k + 1 = Len(seqs)
            BY <1>1, <1>2
        <3>2. \A i \in 1..Len(seqs) : i = 1 \/ i \in 2..(k + 1)
            BY <1>1, <3>1
        <3> QED
            BY <1>4, <3>2
    <2> HIDE DEF Step
    <2> QED
        BY <2>1, Zenon
<1> HIDE DEF g
<1>7. g[1] = seqs[1] /\ \A i \in 2..Len(seqs) : g[i] = g[i - 1] \o seqs[i]
    <2>1. \A i \in 1..Len(seqs) : Step(g)[i] = IF i = 1 THEN seqs[i] ELSE g[i - 1] \o seqs[i]
        OBVIOUS
    <2> HIDE DEF Step
    <2>2. \A i \in 1..Len(seqs) : g[i] = Step(g)[i]
        BY <1>6, Zenon
    <2>3. 1 \in 1..Len(seqs) /\ \A i \in 2..Len(seqs) : i \in 1..Len(seqs) /\ i # 1
        BY <1>1
    <2> QED
        BY <2>1, <2>2, <2>3, Zenon
<1> DEFINE Same == {n \in Nat : n <= k => g[n + 1] = f[n + 1]}
<1>8. Nat \subseteq Same
    <2>1. 0 \in Same
        BY <1>4, <1>7
    <2>2. ASSUME NEW n \in Nat, n \in Same PROVE n + 1 \in Same
        <3> SUFFICES ASSUME n + 1 <= k PROVE g[n + 2] = f[n + 2]
            OBVIOUS
        <3>1. n + 2 \in 2..Len(seqs) /\ n + 2 \in 2..(k + 1) /\ (n + 2) - 1 = n + 1
            BY <1>1, <1>2
        <3>2. g[n + 1] = f[n + 1]
            BY <2>2
        <3> QED
            BY <1>4, <1>7, <3>1, <3>2
    <2> HIDE DEF Same
    <2> QED
        BY <2>1, <2>2, Induction
<1>9. g[Len(seqs)] = f[Len(seqs)]
    <2>1. k \in Same /\ k + 1 = Len(seqs)
        BY <1>1, <1>2, <1>8
    <2> QED
        BY <1>2, <2>1
<1>10. \A i \in 2..Len(seqs) : f[i] = f[i - 1] \o seqs[i]
    <2>1. k + 1 = Len(seqs)
        BY <1>1, <1>2
    <2> QED
        BY <1>4, <2>1
<1> QED
    BY <1>4, <1>5, <1>9, <1>10

TokensTypeOK ==
    /\ text_in \in Seq(T!Chars) /\ text \in Seq(T!Chars)
    /\ argv \in Seq(Seq(T!Chars)) /\ written \in Nat
    /\ state \in {"typed", "between", "quoted", "word", "comment", "done"}

InAWord == state \in {"quoted", "word"}

\* Where each word ends in the buffer: pos[i] is behind the zero of word i, which is
\* yet to be written in the middle of a word.
Positions == [0..Len(argv) -> Nat]
Laid(pos) ==
    /\ pos[0] = 0
    /\ \A i \in 1..Len(argv) : pos[i] = pos[i - 1] + Len(argv[i]) + 1
    /\ pos[Len(argv)] = written + IF InAWord THEN 1 ELSE 0

\* What follows takes one more character before the next word.
Ends ==
    \/ text = <<>> \/ T!Ahead(<<"space">>) \/ T!OpensQuote
    \/ T!LineComment \/ T!Comment

\* What is written and what is still to read are no more than the copy, and a zero for
\* a word that has ended.
TokensInv ==
    /\ TokensTypeOK
    /\ Len(argv) <= MaxTokens
    /\ \E pos \in Positions : Laid(pos)
    /\ state = "typed" => argv = <<>> /\ written = 0
    /\ InAWord => argv # <<>> /\ written + Len(text) <= InfoSize - 1
    /\ state = "between" =>
        /\ written + Len(text) <= InfoSize
        /\ written + Len(text) <= InfoSize - 1 \/ Ends
    /\ state = "comment" => written + Len(text) <= InfoSize
    /\ state = "done" => written <= InfoSize

LEMMA TokensLimits == InfoSize \in Nat \ {0} /\ MaxTokens \in Nat \ {0}
BY PartsAssumption DEF T!TokensConstants

LEMMA TokensInit == T!Init => TokensInv
<1> SUFFICES ASSUME T!Init PROVE TokensInv
    OBVIOUS
<1>1. /\ text_in = <<>> /\ text = <<>> /\ argv = <<>> /\ written = 0 /\ state = "typed"
    BY DEF T!Init
<1>2. Len(argv) = 0
    BY <1>1
<1>3. \E pos \in Positions : Laid(pos)
    <2>1. PICK pos : pos = [i \in 0..0 |-> 0]
        OBVIOUS
    <2>2. pos \in Positions /\ Laid(pos)
        BY <1>1, <1>2, <2>1 DEF Positions, Laid, InAWord
    <2> QED
        BY <2>2
<1>4. TokensTypeOK
    BY <1>1 DEF TokensTypeOK
<1> QED
    BY <1>1, <1>2, <1>3, <1>4, TokensLimits DEF TokensInv, InAWord

\* The text moves on by some of its characters.
LEMMA MovesOn ==
    ASSUME TokensTypeOK, NEW to, NEW n \in Nat, n <= Len(text), T!Moves(to, n)
    PROVE  /\ state' = to /\ UNCHANGED <<text_in, ignoreQuotes>>
           /\ text' \in Seq(T!Chars) /\ Len(text) \in Nat /\ Len(text') = Len(text) - n
<1>1. PICK s \in Seq(T!Chars) : s = text
    BY DEF TokensTypeOK
<1>2. Len(s) \in Nat /\ n \in 0..Len(s)
    BY <1>1
<1>3. /\ SubSeq(s, n + 1, Len(s)) \in Seq(T!Chars)
      /\ Len(SubSeq(s, n + 1, Len(s))) = Len(s) - n
    BY <1>2, Rest
<1> QED
    BY <1>1, <1>2, <1>3 DEF T!Moves

\* What is ahead is there.
LEMMA AheadIsThere ==
    /\ T!Ahead(<<"space">>) => Len(text) >= 1
    /\ T!Ahead(<<"quote">>) => Len(text) >= 1
    /\ T!Ahead(<<"star", "slash">>) => Len(text) >= 2
<1>1. Len(<<"space">>) = 1 /\ Len(<<"quote">>) = 1 /\ Len(<<"star", "slash">>) = 2
    OBVIOUS
<1>2. ASSUME TokensTypeOK PROVE Len(text) \in Nat
    BY <1>2 DEF TokensTypeOK
<1>3. /\ T!Ahead(<<"space">>) => 1 <= Len(text)
      /\ T!Ahead(<<"quote">>) => 1 <= Len(text)
      /\ T!Ahead(<<"star", "slash">>) => 2 <= Len(text)
    BY <1>1 DEF T!Ahead, T!IsPrefix
<1> QED
    BY <1>3

\* A step that leaves the words, or ends one.
LEMMA WordsStay ==
    ASSUME TokensInv, argv' = argv,
           written' + (IF InAWord' THEN 1 ELSE 0) = written + IF InAWord THEN 1 ELSE 0
    PROVE  \E pos \in Positions' : Laid(pos)'
<1>1. PICK pos \in Positions : Laid(pos)
    BY DEF TokensInv
<1>2. pos \in Positions' /\ Laid(pos)'
    BY <1>1 DEF Positions, Laid
<1> QED
    BY <1>2

\* A text typed, cut when it is tokenized.
LEMMA TypedKeeps ==
    ASSUME TokensInv, (\E c \in T!Chars : T!Type(c)) \/ T!Start
    PROVE  TokensInv'
<1>1. /\ state = "typed" /\ argv' = argv /\ written' = written
      /\ state' \in {"typed", "between"}
    BY DEF T!Type, T!Start
<1>2. \E pos \in Positions' : Laid(pos)'
    BY <1>1, WordsStay DEF InAWord
<1>3. CASE \E c \in T!Chars : T!Type(c)
    <2>1. text_in' \in Seq(T!Chars) /\ text' = text /\ state' = state
        BY <1>3 DEF T!Type, TokensInv, TokensTypeOK
    <2>2. TokensTypeOK'
        BY <1>1, <2>1 DEF TokensInv, TokensTypeOK
    <2> QED
        BY <1>1, <1>2, <2>1, <2>2 DEF TokensInv, InAWord
<1>4. CASE T!Start
    <2>1. /\ text' = (IF Len(text_in) < InfoSize THEN text_in
                      ELSE SubSeq(text_in, 1, InfoSize - 1))
          /\ state' = "between" /\ text_in' = text_in
        BY <1>4 DEF T!Start, T!Copied
    <2>2. PICK s \in Seq(T!Chars), l \in Nat : s = text_in /\ l = InfoSize - 1
        <3>1. text_in \in Seq(T!Chars) /\ InfoSize - 1 \in Nat
            BY TokensLimits DEF TokensInv, TokensTypeOK
        <3> QED
            BY <3>1
    <2>3. Len(s) \in Nat /\ DOMAIN s = 1..Len(s)
        OBVIOUS
    <2>4. text' \in Seq(T!Chars) /\ Len(text') <= InfoSize - 1 /\ Len(text') \in Nat
        <3>1. CASE Len(s) < InfoSize
            BY <2>1, <2>2, <2>3, <3>1, TokensLimits
        <3>2. CASE ~(Len(s) < InfoSize)
            <4>1. \A i \in 1..l : s[i] \in T!Chars
                <5>1. \A i \in 1..l : i \in 1..Len(s)
                    BY <2>2, <2>3, <3>2, TokensLimits
                <5> QED
                    BY <2>3, <5>1
            <4>2. /\ SubSeq(s, 1, l) \in Seq(T!Chars)
                  /\ Len(SubSeq(s, 1, l)) = IF 1 <= l THEN l - 1 + 1 ELSE 0
                BY <4>1, SubSeqProperties
            <4>3. Len(SubSeq(s, 1, l)) = l
                BY <4>2
            <4> QED
                BY <2>1, <2>2, <3>2, <4>2, <4>3
        <3> QED
            BY <3>1, <3>2
    <2>5. TokensTypeOK'
        BY <1>1, <2>1, <2>4 DEF TokensInv, TokensTypeOK
    <2>6. written' = 0 /\ Len(argv') <= MaxTokens
        BY <1>1 DEF TokensInv
    <2> QED
        BY <1>2, <2>1, <2>4, <2>5, <2>6, TokensLimits DEF TokensInv, InAWord
<1> QED
    BY <1>3, <1>4

\* Between words, and in comments.
LEMMA BetweenKeeps == ASSUME TokensInv, T!Between \/ T!InComment PROVE TokensInv'
<1>1. /\ state \in {"between", "comment"} /\ UNCHANGED <<argv, written>>
      /\ TokensTypeOK /\ written \in Nat /\ Len(text) \in Nat
      /\ written + Len(text) <= InfoSize
    BY DEF T!Between, T!InComment, TokensInv, TokensTypeOK
<1>2. \E to \in {"between", "comment", "done"}, n \in Nat :
        /\ n <= Len(text) /\ T!Moves(to, n)
        /\ to = "between" => n >= 1
    <2>1. CASE T!Between
        <3>1. T!Moves("done", 0) \/ (T!Ahead(<<"space">>) /\ T!Moves("between", 1))
                \/ T!Moves("comment", 0)
            BY <2>1 DEF T!Between
        <3> QED
            BY <1>1, <3>1, AheadIsThere
    <2>2. CASE T!InComment
        <3>1. \/ T!Moves("done", 0)
              \/ T!Ahead(<<"star", "slash">>) /\ T!Moves("between", 2)
              \/ text # <<>> /\ T!Moves("comment", 1)
            BY <2>2 DEF T!InComment
        <3>2. text # <<>> => Len(text) >= 1
            BY <1>1 DEF TokensTypeOK
        <3> QED
            BY <1>1, <3>1, <3>2, AheadIsThere
    <2> QED
        BY <2>1, <2>2
<1>3. PICK to \in {"between", "comment", "done"}, n \in Nat :
        /\ n <= Len(text) /\ T!Moves(to, n)
        /\ to = "between" => n >= 1
    BY <1>2
<1>4. /\ state' = to /\ UNCHANGED <<text_in, ignoreQuotes>>
      /\ text' \in Seq(T!Chars) /\ Len(text') = Len(text) - n
    BY <1>1, <1>3, MovesOn
<1>5. \E pos \in Positions' : Laid(pos)'
    BY <1>1, <1>3, <1>4, WordsStay DEF InAWord
<1>6. TokensTypeOK'
    BY <1>1, <1>3, <1>4 DEF TokensTypeOK
<1>7. /\ written' + Len(text') <= InfoSize /\ written' <= InfoSize
      /\ state' = "between" => written' + Len(text') <= InfoSize - 1
    BY <1>1, <1>3, <1>4, TokensLimits
<1> QED
    BY <1>1, <1>3, <1>4, <1>5, <1>6, <1>7 DEF TokensInv, InAWord

\* A word begins: empty, and its zero is still to come.
LEMMA BeginKeeps == TokensInv /\ T!Begin => TokensInv'
<1> SUFFICES ASSUME TokensInv, T!Begin PROVE TokensInv'
    OBVIOUS
<1>1. /\ state = "between" /\ argv' = Append(argv, <<>>) /\ written' = written
      /\ TokensTypeOK /\ written \in Nat /\ Len(text) \in Nat
      /\ Len(argv) <= MaxTokens /\ Len(argv) # MaxTokens /\ Len(argv) \in Nat
    BY DEF T!Begin, T!Full, TokensInv, TokensTypeOK
<1>2. /\ argv' \in Seq(Seq(T!Chars)) /\ argv' # <<>> /\ Len(argv') = Len(argv) + 1
      /\ DOMAIN argv = 1..Len(argv)
      /\ \A i \in 1..Len(argv) : argv'[i] = argv[i]
      /\ argv'[Len(argv) + 1] = <<>>
    <2>1. PICK s \in Seq(Seq(T!Chars)) : s = argv
        BY <1>1 DEF TokensTypeOK
    <2>2. <<>> \in Seq(T!Chars)
        OBVIOUS
    <2>3. /\ Append(s, <<>>) \in Seq(Seq(T!Chars)) /\ Len(Append(s, <<>>)) = Len(s) + 1
          /\ DOMAIN s = 1..Len(s) /\ Len(s) \in Nat
          /\ \A i \in 1..Len(s) : Append(s, <<>>)[i] = s[i]
          /\ Append(s, <<>>)[Len(s) + 1] = <<>>
        BY <2>2
    <2>4. Append(s, <<>>) # <<>>
        BY <2>3
    <2> QED
        BY <1>1, <2>1, <2>3, <2>4
<1>3. /\ InAWord' /\ text' \in Seq(T!Chars)
      /\ Len(text') \in Nat /\ written + Len(text') <= InfoSize - 1
      /\ text_in' = text_in
    <2>1. CASE T!OpensQuote
        <3>1. T!Moves("quoted", 1) /\ Len(text) >= 1
            BY <2>1, AheadIsThere DEF T!Begin, T!OpensQuote
        <3>2. state' = "quoted" /\ text' \in Seq(T!Chars) /\ Len(text') = Len(text) - 1
                /\ text_in' = text_in
            BY <1>1, <3>1, MovesOn
        <3>3. written + Len(text) <= InfoSize
            BY <1>1 DEF TokensInv
        <3> QED
            BY <1>1, <3>1, <3>2, <3>3, TokensLimits DEF InAWord
    <2>2. CASE ~T!OpensQuote
        <3>1. T!Moves("word", 0) /\ ~Ends
            BY <2>2 DEF T!Begin, Ends
        <3>2. state' = "word" /\ text' \in Seq(T!Chars) /\ Len(text') = Len(text) - 0
                /\ text_in' = text_in
            BY <1>1, <3>1, MovesOn
        <3>3. written + Len(text) <= InfoSize - 1
            BY <1>1, <3>1 DEF TokensInv
        <3> QED
            BY <1>1, <3>1, <3>2, <3>3 DEF InAWord
    <2> QED
        BY <2>1, <2>2
<1>4. \E pos \in Positions' : Laid(pos)'
    <2>1. PICK k \in Nat : k = Len(argv)
        BY <1>1
    <2>2. PICK pos \in [0..k -> Nat] : Laid(pos)
        BY <2>1 DEF TokensInv, Positions
    <2>3. ~InAWord /\ pos[0] = 0 /\ pos[k] = written
          /\ \A i \in 1..k : pos[i] = pos[i - 1] + Len(argv[i]) + 1
        BY <1>1, <2>1, <2>2 DEF Laid, InAWord
    <2>4. PICK new : new = [i \in 0..(k + 1) |-> IF i = k + 1 THEN pos[k] + 1 ELSE pos[i]]
        OBVIOUS
    <2>5. /\ new \in [0..(k + 1) -> Nat] /\ new[k + 1] = pos[k] + 1
          /\ \A i \in 0..k : new[i] = pos[i]
        <3>1. \A i \in 0..(k + 1) : i = k + 1 \/ i \in 0..k
            OBVIOUS
        <3>2. pos[k] + 1 \in Nat /\ k + 1 \in 0..(k + 1)
            OBVIOUS
        <3>3. \A i \in 0..k : i \in 0..(k + 1) /\ i # k + 1 /\ pos[i] \in Nat
            OBVIOUS
        <3> QED
            BY <2>4, <3>1, <3>2, <3>3
    <2>6. ASSUME NEW i \in 1..(k + 1) PROVE new[i] = new[i - 1] + Len(argv'[i]) + 1
        <3>1. CASE i = k + 1
            <4>1. argv'[i] = <<>> /\ new[i - 1] = pos[k] /\ Len(<<>>) = 0
                BY <1>2, <2>1, <2>5, <3>1
            <4>2. pos[k] \in Nat
                OBVIOUS
            <4> QED
                BY <2>5, <3>1, <4>1, <4>2
        <3>2. CASE i \in 1..k
            <4>0. i \in 0..k /\ i - 1 \in 0..k
                BY <3>2
            <4>1. argv'[i] = argv[i] /\ new[i] = pos[i] /\ new[i - 1] = pos[i - 1]
                BY <1>2, <2>1, <2>5, <3>2, <4>0
            <4> QED
                BY <2>3, <3>2, <4>1
        <3> QED
            BY <3>1, <3>2
    <2>7. Len(argv') = k + 1 /\ new[0] = 0 /\ new[k + 1] = written' + 1
        BY <1>1, <1>2, <2>1, <2>3, <2>5
    <2>8. new \in Positions' /\ Laid(new)'
        BY <1>3, <2>5, <2>6, <2>7 DEF Positions, Laid
    <2> QED
        BY <2>8
<1>5. TokensTypeOK'
    <2>1. argv' \in Seq(Seq(T!Chars)) /\ text' \in Seq(T!Chars) /\ text_in' \in Seq(T!Chars)
        BY <1>1, <1>2, <1>3 DEF TokensTypeOK
    <2>2. written' \in Nat /\ state' \in {"quoted", "word"}
        BY <1>1, <1>3 DEF InAWord
    <2> QED
        BY <2>1, <2>2 DEF TokensTypeOK
<1>6. Len(argv') <= MaxTokens
    <2>1. PICK k \in Nat : k = Len(argv)
        BY <1>1
    <2>2. Len(argv') = k + 1 /\ k <= MaxTokens /\ k # MaxTokens
        BY <1>1, <1>2, <2>1
    <2> QED
        BY <2>2, TokensLimits
<1> QED
    BY <1>1, <1>2, <1>3, <1>4, <1>5, <1>6 DEF TokensInv, InAWord

\* A character more of the word.
LEMMA AddKeeps ==
    ASSUME TokensInv, InAWord, text # <<>>, NEW to \in {"quoted", "word"}, T!Moves(to, 1), T!Add
    PROVE  TokensInv'
<1>1. /\ TokensTypeOK /\ written \in Nat /\ text \in Seq(T!Chars) /\ Len(text) \in Nat
      /\ Len(argv) <= MaxTokens /\ argv # <<>> /\ argv \in Seq(Seq(T!Chars))
      /\ written + Len(text) <= InfoSize - 1
    BY DEF TokensInv, TokensTypeOK
<1>2. Len(text) >= 1 /\ Head(text) \in T!Chars
    BY <1>1
<1>3. /\ state' = to /\ text_in' = text_in /\ text' \in Seq(T!Chars)
      /\ Len(text') = Len(text) - 1
    BY SMTT(40), <1>1, <1>2, MovesOn
<1>4. PICK k \in Nat : k = Len(argv) /\ k \in 1..k /\ DOMAIN argv = 1..k
    <2>1. Len(argv) \in Nat /\ Len(argv) \in 1..Len(argv) /\ DOMAIN argv = 1..Len(argv)
        BY <1>1
    <2> QED
        BY <2>1
<1>5. PICK word : word = Append(argv[k], Head(text))
    OBVIOUS
<1>6. word \in Seq(T!Chars) /\ Len(word) = Len(argv[k]) + 1 /\ Len(argv[k]) \in Nat
    <2>1. argv[k] \in Seq(T!Chars)
        BY <1>1, <1>4
    <2> QED
        BY <1>2, <1>5, <2>1
<1>7. argv' = [argv EXCEPT ![k] = word] /\ written' = written + 1
    BY <1>4, <1>5 DEF T!Add
<1>8. /\ argv' \in Seq(Seq(T!Chars)) /\ Len(argv') = k
      /\ argv'[k] = word /\ \A i \in 1..k : i # k => argv'[i] = argv[i]
    <2>1. argv' \in Seq(Seq(T!Chars)) /\ Len(argv') = Len(argv)
        BY <1>1, <1>4, <1>6, <1>7, ExceptSeq
    <2> QED
        BY <1>4, <1>7, <2>1
<1>9. \E pos \in Positions' : Laid(pos)'
    <2>1. PICK pos \in [0..k -> Nat] : Laid(pos)
        BY <1>4 DEF TokensInv, Positions
    <2>2. /\ pos[0] = 0 /\ pos[k] = written + 1
          /\ \A i \in 1..k : pos[i] = pos[i - 1] + Len(argv[i]) + 1
        BY <1>4, <2>1 DEF Laid
    <2>3. PICK new : new = [pos EXCEPT ![k] = pos[k] + 1]
        OBVIOUS
    <2>4. /\ new \in [0..k -> Nat] /\ new[k] = pos[k] + 1
          /\ \A i \in 0..k : i # k => new[i] = pos[i]
        <3>1. k \in 0..k /\ pos[k] + 1 \in Nat
            OBVIOUS
        <3> QED
            BY <2>3, <3>1
    <2>5. ASSUME NEW i \in 1..k PROVE new[i] = new[i - 1] + Len(argv'[i]) + 1
        <3>1. i - 1 \in 0..k /\ i - 1 # k /\ i \in 0..k
            OBVIOUS
        <3>2. new[i - 1] = pos[i - 1] /\ pos[i - 1] \in Nat
            BY <2>4, <3>1
        <3>3. CASE i = k
            <4>1. new[i] = pos[k] + 1 /\ Len(argv'[i]) = Len(argv[k]) + 1
                BY <1>6, <1>8, <2>4, <3>3
            <4>2. pos[k] = pos[i - 1] + Len(argv[k]) + 1
                BY <2>2, <3>3
            <4> QED
                BY <1>6, <3>2, <4>1, <4>2
        <3>4. CASE i # k
            BY <1>8, <2>2, <2>4, <3>1, <3>2, <3>4
        <3> QED
            BY <3>3, <3>4
    <2>6. new[0] = 0 /\ new[k] = written' + 1
        BY <1>1, <1>4, <1>7, <2>2, <2>4
    <2>7. new \in Positions' /\ Laid(new)'
        BY <1>3, <1>8, <2>4, <2>5, <2>6 DEF Positions, Laid, InAWord
    <2> QED
        BY <2>7
<1>10. TokensTypeOK'
    BY <1>1, <1>3, <1>7, <1>8 DEF TokensTypeOK
<1>11. argv' # <<>> /\ Len(argv') <= MaxTokens
    <2>1. 1 \in DOMAIN argv'
        BY <1>4, <1>8
    <2> QED
        BY <1>1, <1>4, <1>8, <2>1
<1>12. written' + Len(text') <= InfoSize - 1
    BY <1>1, <1>3, <1>7, TokensLimits
<1> QED
    BY <1>3, <1>9, <1>10, <1>11, <1>12 DEF TokensInv, InAWord

\* The end of a word.
LEMMA EndOfWord ==
    ASSUME TokensInv, InAWord, NEW to \in {"between", "done"}, NEW n \in {0, 1},
           n <= Len(text), T!Moves(to, n), argv' = argv, written' = written + 1,
           to = "between" => n = 1 \/ Ends
    PROVE  TokensInv'
<1>1. /\ TokensTypeOK /\ written \in Nat /\ Len(text) \in Nat
      /\ written + Len(text) <= InfoSize - 1 /\ Len(argv) <= MaxTokens
    BY DEF TokensInv, TokensTypeOK
<1>2. /\ state' = to /\ UNCHANGED <<text_in, ignoreQuotes>>
      /\ text' \in Seq(T!Chars) /\ Len(text') = Len(text) - n
    BY <1>1, MovesOn
<1>3. \E pos \in Positions' : Laid(pos)'
    BY <1>1, <1>2, WordsStay DEF InAWord
<1>4. TokensTypeOK'
    BY <1>1, <1>2 DEF TokensTypeOK
<1>5. written' + Len(text') <= InfoSize /\ written' <= InfoSize
    BY <1>1, <1>2, TokensLimits
<1>6. CASE n = 1
    <2>1. written' + Len(text') <= InfoSize - 1
        BY <1>1, <1>2, <1>6, TokensLimits
    <2> QED
        BY <1>1, <1>2, <1>3, <1>4, <1>5, <2>1 DEF TokensInv, InAWord
<1>7. CASE n = 0
    <2>1. text' = text
        <3>1. SubSeq(text, 1, Len(text)) = text
            BY <1>1, SubSeqFull DEF TokensTypeOK
        <3> QED
            BY <1>7, <3>1 DEF T!Moves
    <2>2. to = "between" => Ends'
        BY <1>2, <1>7, <2>1 DEF Ends, T!Ahead, T!OpensQuote, T!LineComment, T!Comment
    <2> QED
        BY <1>1, <1>2, <1>3, <1>4, <1>5, <2>2 DEF TokensInv, InAWord
<1> QED
    BY <1>6, <1>7

LEMMA WordKeeps == ASSUME TokensInv, T!InQuotes \/ T!InWord PROVE TokensInv'
<1>1. InAWord
    BY DEF T!InQuotes, T!InWord, InAWord
<1>2. Len(text) \in Nat /\ text \in Seq(T!Chars)
    BY DEF TokensInv, TokensTypeOK
<1>3. CASE T!InQuotes
    <2>1. CASE text = <<>>
        BY <1>1, <1>2, <1>3, <2>1, EndOfWord DEF T!InQuotes
    <2>2. CASE text # <<>> /\ T!Ahead(<<"quote">>)
        BY <1>1, <1>2, <1>3, <2>2, EndOfWord, AheadIsThere DEF T!InQuotes
    <2>3. CASE text # <<>> /\ ~T!Ahead(<<"quote">>)
        BY <1>1, <1>3, <2>3, AddKeeps DEF T!InQuotes
    <2> QED
        BY <2>1, <2>2, <2>3
<1>4. CASE T!InWord
    <2>1. CASE text = <<>>
        BY <1>1, <1>2, <1>4, <2>1, EndOfWord DEF T!InWord
    <2>2. CASE text # <<>> /\ (T!Ahead(<<"space">>) \/ T!OpensQuote \/ T!LineComment \/ T!Comment)
        <3>1. Ends
            BY <2>2 DEF Ends
        <3> QED
            BY <1>1, <1>2, <1>4, <2>2, <3>1, EndOfWord DEF T!InWord
    <2>3. CASE text # <<>> /\ ~(T!Ahead(<<"space">>) \/ T!OpensQuote \/ T!LineComment \/ T!Comment)
        BY <1>1, <1>4, <2>3, AddKeeps DEF T!InWord
    <2> QED
        BY <2>1, <2>2, <2>3
<1> QED
    BY <1>3, <1>4

LEMMA AgainKeeps == TokensInv /\ T!Again => TokensInv'
<1> SUFFICES ASSUME TokensInv, T!Again PROVE TokensInv'
    OBVIOUS
<1>1. /\ text_in' = <<>> /\ state' = "typed" /\ text' = <<>> /\ argv' = <<>> /\ written' = 0
    BY DEF T!Again
<1>2. Len(argv') = 0
    BY <1>1
<1>3. \E pos \in Positions' : Laid(pos)'
    <2>1. PICK pos : pos = [i \in 0..0 |-> 0]
        OBVIOUS
    <2>2. pos \in Positions' /\ Laid(pos)'
        BY <1>1, <1>2, <2>1 DEF Positions, Laid, InAWord
    <2> QED
        BY <2>2
<1>4. TokensTypeOK'
    BY <1>1 DEF TokensTypeOK
<1> QED
    BY <1>1, <1>2, <1>3, <1>4, TokensLimits DEF TokensInv, InAWord

LEMMA TokensNext == TokensInv /\ T!Next => TokensInv'
BY TypedKeeps, BetweenKeeps, BeginKeeps, WordKeeps, AgainKeeps DEF T!Next

\* The words joined again are as long as what was written, but for the last zero.
LEMMA JoinedLength ==
    ASSUME TokensInv, state = "done"
    PROVE  Len(T!Cmd_ArgsFrom(0)) < InfoSize
<1>1. /\ argv \in Seq(Seq(T!Chars)) /\ written \in Nat /\ written <= InfoSize
      /\ InfoSize \in Nat \ {0}
    BY TokensLimits DEF TokensInv, TokensTypeOK
<1>2. PICK k \in Nat : k = Len(argv) /\ DOMAIN argv = 1..k
    BY <1>1
<1>3. \A i \in 1..k : argv[i] \in Seq(T!Chars) /\ Len(argv[i]) \in Nat
    BY <1>1, <1>2
<1>4. PICK seqs : seqs = [i \in 1..k |-> argv[i] \o IF i < k THEN <<"space">> ELSE <<>>]
    OBVIOUS
<1>5. T!Cmd_ArgsFrom(0) = T!FlattenSeq(seqs)
    <2>1. Len(argv) - 0 = k /\ \A i \in 1..k : 0 + i = i
        BY <1>2
    <2>2. [i \in 1..(Len(argv) - 0) |->
              argv[0 + i] \o (IF 0 + i < Len(argv) THEN <<"space">> ELSE <<>>)] = seqs
        BY <1>2, <1>4, <2>1
    <2> QED
        BY <2>2 DEF T!Cmd_ArgsFrom
<1>6. \A i \in 1..k : /\ seqs[i] \in Seq(T!Chars)
                      /\ Len(seqs[i]) = Len(argv[i]) + IF i < k THEN 1 ELSE 0
    <2> TAKE i \in 1..k
    <2>1. PICK s \in Seq(T!Chars) : s = argv[i]
        BY <1>3
    <2>2. <<"space">> \in Seq(T!Chars) /\ <<>> \in Seq(T!Chars)
        BY DEF T!Chars
    <2>3. /\ s \o <<"space">> \in Seq(T!Chars) /\ Len(s \o <<"space">>) = Len(s) + 1
          /\ s \o <<>> \in Seq(T!Chars) /\ Len(s \o <<>>) = Len(s) + 0
        BY <2>2
    <2>4. seqs[i] = s \o IF i < k THEN <<"space">> ELSE <<>>
        BY <1>4, <2>1
    <2> QED
        BY <2>1, <2>3, <2>4
<1>7. seqs \in Seq(Seq(T!Chars)) /\ Len(seqs) = k
    <2>1. seqs \in [1..k -> Seq(T!Chars)]
        BY <1>4, <1>6
    <2> QED
        BY <2>1, LenProperties
<1>8. CASE k = 0
    <2>1. T!FlattenSeq(seqs) = seqs
        BY <1>7, <1>8 DEF T!FlattenSeq
    <2> QED
        BY <1>1, <1>5, <1>7, <1>8, <2>1
<1>9. CASE k # 0
    <2>1. PICK f \in [1..k -> Seq(T!Chars)] :
            /\ f[1] = seqs[1]
            /\ \A i \in 2..k : f[i] = f[i - 1] \o seqs[i]
            /\ T!FlattenSeq(seqs) = f[k]
        <3>1. seqs # <<>>
            BY <1>7, <1>9
        <3> QED
            BY <1>7, <3>1, Flattened
    <2>2. PICK pos \in [0..k -> Nat] :
            /\ pos[0] = 0 /\ pos[k] = written
            /\ \A i \in 1..k : pos[i] = pos[i - 1] + Len(argv[i]) + 1
        <3>1. PICK pos \in [0..k -> Nat] : Laid(pos)
            BY <1>2 DEF TokensInv, Positions
        <3> QED
            BY SMTT(40), <1>2, <3>1, <1>1 DEF Laid, InAWord
    <2> DEFINE Long(i) == IF i < k THEN Len(f[i]) = pos[i] ELSE pos[i] = Len(f[i]) + 1
               So == {n \in Nat : n + 1 <= k => Long(n + 1)}
    <2>3. Long(1)
        <3>1. 1 \in 1..k
            BY <1>9
        <3>2. f[1] = seqs[1] /\ pos[1] = pos[0] + Len(argv[1]) + 1
            BY <2>1, <2>2, <3>1
        <3>3. PICK a \in Nat : a = Len(argv[1])
            BY <1>3, <3>1
        <3>4. pos[1] = a + 1
            BY <2>2, <3>2, <3>3
        <3>5. CASE 1 < k
            <4>1. Len(f[1]) = a + 1
                BY <1>6, <3>1, <3>2, <3>3, <3>5
            <4> QED
                BY <3>4, <3>5, <4>1
        <3>6. CASE ~(1 < k)
            <4>1. Len(f[1]) = a + 0
                BY <1>6, <3>1, <3>2, <3>3, <3>6
            <4> QED
                BY <3>4, <3>6, <4>1
        <3> QED
            BY <3>5, <3>6
    <2>4. ASSUME NEW n \in Nat, n + 2 <= k, Long(n + 1) PROVE Long(n + 2)
        <3>1. n + 1 \in 1..k /\ n + 2 \in 2..k /\ n + 2 \in 1..k /\ n + 1 < k
              /\ (n + 2) - 1 = n + 1
            BY <2>4
        <3>2. f[n + 2] = f[n + 1] \o seqs[n + 2] /\ pos[n + 2] = pos[n + 1] + Len(argv[n + 2]) + 1
            BY <2>1, <2>2, <3>1
        <3>3. PICK s \in Seq(T!Chars), t \in Seq(T!Chars) : s = f[n + 1] /\ t = seqs[n + 2]
            BY <1>6, <3>1
        <3>4. Len(s \o t) = Len(s) + Len(t)
            OBVIOUS
        <3>5. Len(s) = pos[n + 1] /\ pos[n + 1] \in Nat
            BY <2>4, <3>1, <3>3
        <3>6. PICK a \in Nat, p \in Nat : a = Len(argv[n + 2]) /\ p = pos[n + 1]
            BY <1>3, <3>1, <3>5
        <3>7. pos[n + 2] = p + a + 1 /\ Len(f[n + 2]) = p + Len(t)
            BY <3>2, <3>3, <3>4, <3>5, <3>6
        <3>8. CASE n + 2 < k
            <4>1. Len(t) = a + 1
                BY <1>6, <3>1, <3>3, <3>6, <3>8
            <4> QED
                BY <3>7, <3>8, <4>1
        <3>9. CASE ~(n + 2 < k)
            <4>1. Len(t) = a + 0
                BY <1>6, <3>1, <3>3, <3>6, <3>9
            <4> QED
                BY <3>7, <3>9, <4>1
        <3> QED
            BY <3>8, <3>9
    <2> HIDE DEF Long
    <2>5. Nat \subseteq So
        <3>1. 0 \in So
            BY <2>3
        <3>2. ASSUME NEW n \in Nat, n \in So PROVE n + 1 \in So
            <4>1. (n + 1) + 1 = n + 2 /\ (n + 2 <= k => n + 1 <= k)
                OBVIOUS
            <4> QED
                BY <2>4, <3>2, <4>1
        <3> HIDE DEF So
        <3> QED
            BY <3>1, <3>2, Induction
    <2>6. Long(k)
        <3>1. PICK n \in Nat : n + 1 = k
            <4>1. k - 1 \in Nat /\ (k - 1) + 1 = k
                BY <1>9
            <4> QED
                BY <4>1
        <3>2. n \in So /\ n + 1 <= k
            BY <2>5, <3>1
        <3> QED
            BY <3>1, <3>2
    <2>7. Len(f[k]) = written - 1
        BY <2>2, <2>6 DEF Long
    <2> QED
        BY <1>1, <1>5, <2>1, <2>7
<1> QED
    BY <1>8, <1>9

LEMMA TokensFitThen == TokensInv => TokensFit
<1> SUFFICES ASSUME TokensInv PROVE TokensFit
    OBVIOUS
<1>1. /\ written \in Nat /\ Len(argv) <= MaxTokens /\ Len(text) \in Nat
      /\ state \in {"typed", "between", "quoted", "word", "comment", "done"}
      /\ InfoSize \in Nat /\ MaxTokens \in Nat
    BY TokensLimits DEF TokensInv, TokensTypeOK
<1>2. written <= InfoSize
    BY <1>1 DEF TokensInv, InAWord
<1>3. written <= InfoSize + MaxTokens
    BY <1>1, <1>2
<1> QED
    BY <1>1, <1>3, JoinedLength DEF TokensFit, T!TokensFit

\* The words fit where the game keeps them, and those it joins again fit the
\* caller's text (Cmd_TokenizeString2, Cmd_ArgsFrom).
THEOREM WordsFit == MCSpec => []TokensFit
<1> DEFINE NoneFollowed == <<part, vars, messageVars, tokensVars, entityVars, banVars>>
<1>1. MCInit => TokensInv
    BY TokensInit DEF MCInit
<1>2. TokensInv /\ [MCNext]_NoneFollowed => TokensInv'
    <2>1. ASSUME TokensInv, T!Next PROVE TokensInv'
        BY <2>1, TokensNext
    <2>2. ASSUME TokensInv, UNCHANGED tokensVars PROVE TokensInv'
        <3>1. TokensTypeOK' /\ (Positions = Positions') /\ (Ends <=> Ends') /\ (InAWord <=> InAWord')
              /\ \A pos : Laid(pos) <=> Laid(pos)'
            BY <2>2 DEF tokensVars, TokensInv, TokensTypeOK, InAWord, Positions, Laid, Ends,
                        T!Ahead, T!OpensQuote, T!LineComment, T!Comment
        <3> QED
            BY <2>2, <3>1 DEF tokensVars, TokensInv
    <2> QED
        BY <2>1, <2>2 DEF MCNext
<1> QED
    BY <1>1, <1>2, TokensFitThen, PTL DEF MCSpec
=============================================================================
