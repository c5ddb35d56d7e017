----------------------------- MODULE MCCommands -----------------------------
(***************************************************************************)
(* Instances for TLC of what comes from the clients, the game and the      *)
(* administrator: the commands of the clients (ClientCommands), with two   *)
(* slots that can be taken and one that cannot, the bits of a message      *)
(* (MessageBits), the words of a text (Tokens), the entities the game      *)
(* links (Entities) and the bans (Bans).  Each is followed by itself: part *)
(* says which.                                                             *)
(***************************************************************************)
EXTENDS ClientCommands, MCBans

CONSTANTS
    ann, bob, redAnn,
    MessageSizes, Widths, OobWidths, MaxSymbol,
    InfoSize, MaxTokens, MaxText,
    MaxGentities, EntitySizes, Numbers

VARIABLES
    part,
    message, bit, readcount, value,
    text_in, ignoreQuotes, state, text, argv, written,
    located, number, inWorld, linked, failed

messageVars == <<message, bit, readcount, value>>
tokensVars == <<text_in, ignoreQuotes, state, text, argv, written>>
banVars == <<active, list, file, filterBan, banIPs, saved>>
entityVars == <<located, number, inWorld, linked, failed>>

M == INSTANCE MessageBits WITH Sizes <- MessageSizes
T == INSTANCE Tokens
E == INSTANCE Entities WITH Sizes <- EntitySizes

ASSUME PartsAssumption ==
    M!MessageConstants /\ T!TokensConstants /\ E!EntitiesConstants

\* Names that differ by their colors.
MCPlain == [n \in {ann, bob, redAnn} |-> IF n = bob THEN "bob" ELSE "ann"]

\* For each check of a command, the words on both sides of it.
Short(cmd, arg1, arg2) ==
    [cmd |-> cmd, arg1 |-> arg1, arg2 |-> arg2, size |-> "short", marks |-> {}]
Alone(cmd) == Short(cmd, NoWord, NoWord)
Number(n) == Word("number", n)
Line(cmd, size, marks) == [Alone(cmd) EXCEPT !.size = size, !.marks = marks]

Chats == {Line("say", "short", {";"}), Line("say_team", "short", {}),
          Line("tell", "over256", {}), Line("voice_cmd", "over256", {})}
Others == {Alone("other"), Line("other", "over512", {}), Line("other", "short", {";"}),
           Alone("jkaDST_"), Alone("kill"), Alone("callteamvote"),
           Alone("myratio"), Alone("netStatus"),
           Short("team", Word("follow1", 0), NoWord), Alone("team"),
           Short("npc", Word("spawn", 0), Word("ragnos", 0))}
Votes == {Short("vote", Word(w, 0), NoWord) : w \in {"Y", "n"}}
         \cup {Short("callvote", Word("kick", 0), Word(w, 0)) : w \in {"ann", "bob"}}
         \cup {Short("callvote", Word("clientkick", 0), Number(n)) : n \in {-1, 1, 2}}
         \cup {Short("callvote", Word("map", 0), Word("longer than a cvar", 0))}
Voices == {Short("gc", Number(n), Number(k)) : n \in {1, 2}, k \in {6, 7}}

MCTexts == Chats \cup Others \cup Votes \cup Voices

ValueWidths == {-8, 1, 5, 8, 16, 19, 32}
EntityNumbers == {-1, 0, 1, 3}

\* One of the first states of the parts that are not followed.
Unfollowed ==
    /\ part # "commands" => ~belowTeam
    /\ part # "message" => message = CHOOSE m \in [oob : BOOLEAN, cursize : MessageSizes] : TRUE
    /\ part # "tokens" => ~ignoreQuotes

MCInit ==
    /\ part \in {"commands", "message", "tokens", "entities", "bans"}
    /\ Init /\ M!Init /\ T!Init /\ E!Init /\ B!Init
    /\ Unfollowed

MCNext ==
    \/ part = "commands" /\ Next /\ UNCHANGED <<part, messageVars, tokensVars, entityVars, banVars>>
    \/ part = "message" /\ M!Next /\ UNCHANGED <<part, vars, tokensVars, entityVars, banVars>>
    \/ part = "tokens" /\ T!Next /\ UNCHANGED <<part, vars, messageVars, entityVars, banVars>>
    \/ part = "entities" /\ E!Next /\ UNCHANGED <<part, vars, messageVars, tokensVars, banVars>>
    \/ /\ part = "bans" /\ B!Next
       /\ UNCHANGED <<part, vars, messageVars, tokensVars, entityVars>>

MCSpec == MCInit /\ [][MCNext]_<<part, vars, messageVars, tokensVars, entityVars, banVars>>

-----------------------------------------------------------------------------
\* A value is of the bits of its message, or zero (Proxy_MSG_ReadBits).
ReadsEndWithTheMessage == M!ReadsEndWithTheMessage

\* The words of any text fit in their buffer (Cmd_TokenizeString2).
TokensFit == T!TokensFit

\* The engine's world has the entities that the game linked
\* (Proxy_SV_SvEntityForGentity).
WorldIsWhatWasLinked == E!WorldIsWhatWasLinked
=============================================================================
