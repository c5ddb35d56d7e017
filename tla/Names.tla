------------------------------- MODULE Names -------------------------------
(***************************************************************************)
(* The names of the clients (UniqueName and Sanitize, Features/Userinfo.cpp)*)
(* from the calls of the engine to the game: a name that another client    *)
(* already shows gets the lowest free number.                              *)
(*                                                                         *)
(* A name is the text that names are compared on (without colors, spaces   *)
(* and case), a sequence, and the style that the comparison ignores.  A    *)
(* number "^7[n]" is one element of the text.                              *)
(*                                                                         *)
(* How the characters are cleaned is in CleanName: here the cleaning is    *)
(* any function on the names.  It runs at every call, also on the names    *)
(* that it has cleaned before, and does not always leave them: "* *Bob"    *)
(* gives " *Bob", which gives "Bob" at the next map change.                *)
(*                                                                         *)
(* The engine connects, calls and drops the clients, and the game shows    *)
(* their names in CS_PLAYERS: both are external.                           *)
(***************************************************************************)
EXTENDS Integers, Sequences, FiniteSets

CONSTANTS
    MaxClients,     \* client slots: 32
    Letters,        \* the characters of a text
    Styles,         \* what the comparison ignores
    NoName,         \* no configstring, no userinfo
    MaxName,        \* longest text, with its number
    Cleaning,       \* Proxy_ClientCleanName, on the names that it changes
    Typed,          \* bound: the names that clients and bots come with
    SameValues,     \* bound: values of proxy_sv_allowSamePlayerNames
    Bots            \* bound: whether bots play, {TRUE} or {}

Slots == 0..(MaxClients - 1)
Numbers == 1..MaxClients
Texts == Seq(Letters \cup Numbers)
\* A text with its number is no longer than MAX_NETNAME.
Names == {n \in [text : Texts, style : Styles] : Len(n.text) <= MaxName}

ASSUME NamesAssumption ==
    /\ MaxClients \in Nat \ {0}
    /\ MaxName \in Nat \ {0}
    /\ Letters \cap Numbers = {}
    /\ NoName \notin Names
    /\ DOMAIN Cleaning \subseteq Names
    /\ \A n \in DOMAIN Cleaning : Cleaning[n] \in Names
    /\ Typed \subseteq Names
    /\ SameValues \subseteq BOOLEAN

VARIABLES
    slot,           \* engine: "free", "human" or "bot", per slot
    userinfo,       \* engine: the name in the userinfo of the slot
    players,        \* game: the name in the CS_PLAYERS of the slot
    cleanName,      \* proxy: the name it keeps for its own messages
    same,           \* proxy_sv_allowSamePlayerNames
    toConnect,      \* map change: the clients to connect again
    unclean         \* history: the last map change found a player whose name
                    \* is not one that the cleaning leaves

vars == <<slot, userinfo, players, cleanName, same, toConnect, unclean>>

Blank == [s \in Slots |-> NoName]

TypeOK ==
    /\ slot \in [Slots -> {"free", "human", "bot"}]
    /\ userinfo \in [Slots -> Names \cup {NoName}]
    /\ players \in [Slots -> Names \cup {NoName}]
    /\ cleanName \in [Slots -> Names \cup {NoName}]
    /\ same \in BOOLEAN
    /\ toConnect \subseteq Slots
    /\ unclean \in BOOLEAN

Init ==
    /\ slot = [s \in Slots |-> "free"]
    /\ userinfo = Blank
    /\ players = Blank
    /\ cleanName = Blank
    /\ same \in SameValues
    /\ toConnect = {}
    /\ unclean = FALSE

-----------------------------------------------------------------------------
(* UniqueName *)

NameKey(n) == n.text

\* Another slot shows a name with the same key.
InUse(s, n) ==
    \E t \in Slots \ {s} :
        players[t] # NoName /\ NameKey(players[t]) = NameKey(n)

\* The name cut so that its number fits.
Base(n) ==
    IF Len(n.text) < MaxName THEN n
    ELSE [text |-> SubSeq(n.text, 1, MaxName - 1), style |-> n.style]

Numbered(n, number) ==
    [text |-> Append(Base(n).text, number), style |-> n.style]

Free(s, n) == {number \in Numbers : ~InUse(s, Numbered(n, number))}

\* Mutant of Lowest: the number of the clients that have the name.
LowestCounted(s, n) ==
    Numbered(n, Cardinality({t \in Slots \ {s} :
        players[t] # NoName /\ Base(n).text = Base(players[t]).text}) + 1)

Lowest(s, n) ==
    Numbered(n, CHOOSE number \in Free(s, n) : \A m \in Free(s, n) : number <= m)

UniqueName(s, n) ==
    IF ~InUse(s, n) \/ Free(s, n) = {} THEN n ELSE Lowest(s, n)

Clean(n) == IF n \in DOMAIN Cleaning THEN Cleaning[n] ELSE n

\* Mutant of Sanitized: a name that is free gets a number too.
SanitizedAlways(s, n) == IF same THEN Clean(n) ELSE Lowest(s, Clean(n))

\* What Sanitize makes of the name n.
Sanitized(s, n) == IF same THEN Clean(n) ELSE UniqueName(s, Clean(n))

-----------------------------------------------------------------------------
(* Clients *)

\* The game shows the name of the userinfo, which Sanitize wrote.
Show(s, n) ==
    /\ userinfo' = [userinfo EXCEPT ![s] = n]
    /\ players' = [players EXCEPT ![s] = n]

\* SV_DropClient: GAME_CLIENT_DISCONNECT resets what the proxy and the game keep.
Drop(s) ==
    /\ slot' = [slot EXCEPT ![s] = "free"]
    /\ userinfo' = [userinfo EXCEPT ![s] = NoName]
    /\ players' = [players EXCEPT ![s] = NoName]
    /\ cleanName' = [cleanName EXCEPT ![s] = NoName]

\* A new connection.  It may still be refused once its name is kept: there is no
\* room in its userinfo, or the game refuses it.  The slot is then free, and no
\* GAME_CLIENT_DISCONNECT is sent for it.  A userinfo that Validate refuses
\* changes nothing.
Connect(s, n, accepted) ==
    /\ toConnect = {}
    /\ slot[s] = "free"
    /\ cleanName' = [cleanName EXCEPT ![s] = Sanitized(s, n)]
    /\ IF accepted
       THEN slot' = [slot EXCEPT ![s] = "human"] /\ Show(s, Sanitized(s, n))
       ELSE UNCHANGED <<slot, userinfo, players>>
    /\ UNCHANGED <<same, toConnect, unclean>>

\* A bot keeps the name of the bot files.
AddBot(s, n) ==
    /\ toConnect = {}
    /\ slot[s] = "free"
    /\ slot' = [slot EXCEPT ![s] = "bot"]
    /\ Show(s, n)
    /\ UNCHANGED <<cleanName, same, toConnect, unclean>>

\* Mutant of UpdateUserinfo: the game reads what the client sent.
UpdateUserinfoUnsanitized(s, n, valid, tooSoon) ==
    /\ toConnect = {}
    /\ slot[s] = "human"
    /\ IF valid
       THEN /\ cleanName' = [cleanName EXCEPT ![s] = Sanitized(s, n)]
            /\ Show(s, IF tooSoon THEN players[s] ELSE n)
            /\ UNCHANGED slot
       ELSE Drop(s)
    /\ UNCHANGED <<same, toConnect, unclean>>

\* A userinfo command.  The client whose userinfo Sanitize refuses is dropped;
\* the game gives a client that changes its name too soon its old one back.
UpdateUserinfo(s, n, valid, tooSoon) ==
    /\ toConnect = {}
    /\ slot[s] = "human"
    /\ IF valid
       THEN /\ cleanName' = [cleanName EXCEPT ![s] = Sanitized(s, n)]
            /\ Show(s, IF tooSoon THEN players[s] ELSE Sanitized(s, n))
            /\ UNCHANGED slot
       ELSE Drop(s)
    /\ UNCHANGED <<same, toConnect, unclean>>

Leave(s) ==
    /\ toConnect = {}
    /\ slot[s] # "free"
    /\ Drop(s)
    /\ UNCHANGED <<same, toConnect, unclean>>

\* A map change loads the proxy again and clears the configstrings; a
\* map_restart keeps them.  The clients then connect again, in order.
MapChange(restart) ==
    /\ toConnect = {}
    /\ cleanName' = Blank
    /\ players' = IF restart THEN players ELSE Blank
    /\ toConnect' = {s \in Slots : slot[s] # "free"}
    /\ unclean' = \E s \in Slots : slot[s] = "human" /\ Clean(userinfo[s]) # userinfo[s]
    /\ UNCHANGED <<slot, userinfo, same>>

First(s) == s \in toConnect /\ \A t \in toConnect : s <= t

ConnectAgain(s, accepted) ==
    /\ First(s)
    /\ toConnect' = toConnect \ {s}
    /\ IF ~accepted
       THEN Drop(s)
       ELSE LET n == userinfo[s]
                name == IF slot[s] = "bot" THEN n ELSE Sanitized(s, n)
            IN  /\ Show(s, name)
                /\ cleanName' = IF slot[s] = "bot" THEN cleanName
                                ELSE [cleanName EXCEPT ![s] = name]
                /\ UNCHANGED slot
    /\ UNCHANGED <<same, unclean>>

SetSame(value) ==
    /\ toConnect = {}
    /\ same' = value
    /\ UNCHANGED <<slot, userinfo, players, cleanName, toConnect, unclean>>

Next ==
    \/ \E s \in Slots, n \in Typed, accepted \in BOOLEAN : Connect(s, n, accepted)
    \/ Bots # {} /\ \E s \in Slots, n \in Typed : AddBot(s, n)
    \/ \E s \in Slots, n \in Typed, valid, tooSoon \in BOOLEAN :
          UpdateUserinfo(s, n, valid, tooSoon)
    \/ \E s \in Slots : Leave(s)
    \/ \E restart \in BOOLEAN : MapChange(restart)
    \/ \E s \in Slots, accepted \in BOOLEAN : ConnectAgain(s, accepted)
    \/ \E value \in SameValues : SetSame(value)

Spec == Init /\ [][Next]_vars

-----------------------------------------------------------------------------
(* Properties *)

Human(s) == slot[s] = "human"
Shows(s) == players[s] # NoName

\* No two players show the same name, where the setting was never on: after any
\* sequence of connections, changes of name that the game accepts or gives back,
\* map changes and map restarts (UniqueName, Features/Userinfo.cpp).
NoSharedNames ==
    TRUE \notin SameValues =>
        \A s, t \in Slots :
            s # t /\ Human(s) /\ Human(t) /\ Shows(s) /\ Shows(t)
                => NameKey(players[s]) # NameKey(players[t])

\* A player never takes a name that another client shows, bots included, while
\* the setting is off.
TakesAFreeName ==
    [][\A s \in Slots :
          ~same /\ slot'[s] = "human" /\ players'[s] \notin {players[s], NoName}
              => ~InUse(s, players'[s])]_vars

\* Where the setting was never on, a map change and a map_restart leave every
\* player its name, number included, in whatever order the clients come: UniqueName
\* finds the names as it left them.  Two things take a player's name from it.  A
\* bot that comes before it is one (a bot keeps its own name).  The other is a name
\* that the second cleaning changes, "* *Bob" above, with the names that it clashes
\* with: the property is about the map changes that find no such player.
NamesSurviveMapChange ==
    [][TRUE \notin SameValues /\ ~unclean /\ (\A s \in Slots : slot[s] # "bot")
        => \A s \in toConnect \ toConnect' :
               slot'[s] = "human" => players'[s] = userinfo[s]]_vars

\* A name is free when a player takes it, and his as long as he stays.
NamesTakenAndKept == TakesAFreeName /\ NamesSurviveMapChange
=============================================================================
