----------------------------- MODULE InfoString -----------------------------
(***************************************************************************)
(* The userinfo as a string of keys and values.  Reading a key takes the   *)
(* first one of its name in any spelling; setting it removes the first one *)
(* of exactly its spelling and puts the new one in front, if it fits, and  *)
(* else leaves the string without the key.  Three keys are set for the     *)
(* client: "ip" by the engine at a connection and by SV_UserinfoChanged,   *)
(* "name" and "model" by Sanitize, and "model" by SV_UserinfoChanged too.  *)
(*                                                                         *)
(* A string is the sequence of its pairs.  The length of a pair is that of *)
(* its value and one more for the key and the separators.  The client's    *)
(* string is followed while it is written, one pair at a time; what it     *)
(* replaces is not.                                                        *)
(***************************************************************************)
EXTENDS Integers, FiniteSets, Sequences, SequencesExt

CONSTANTS
    MaxInfo,        \* MAX_INFO_STRING
    MaxPairs        \* bound: pairs of a string a client sends

\* The values, by their lengths.
Length == [own |-> 2, address |-> 1, longAddress |-> 4,
           typed |-> 1, clean |-> 2,
           kyle |-> 1, longModel |-> 4,
           short |-> 1, long |-> 3]
Values == [ip |-> {"address", "longAddress"}, name |-> {"typed"},
           model |-> {"kyle", "longModel"}, other |-> {"short", "long"}]
NoValue == ""

InfoConstants == MaxInfo \in Nat \ {0} /\ MaxPairs \in Nat

VARIABLES
    info,           \* cl->userinfo, or what the client writes
    client          \* "free", "connecting", "changing" or "in"

infoVars == <<info, client>>

\* exact: the key is spelled as the server spells it.
Pair(key, exact, value) == [key |-> key, exact |-> exact, value |-> value]
AnyPair == [key : DOMAIN Values, exact : BOOLEAN, value : DOMAIN Length]
Pairs == {p \in AnyPair : p.value \in Values[p.key] /\ (p.key = "other" => p.exact)}

TypeOK ==
    /\ info \in Seq(AnyPair)
    /\ client \in {"free", "connecting", "changing", "in"}

Init == info = <<>> /\ client = "free"

-----------------------------------------------------------------------------
(* q_shared.cpp *)

Strlen(s) ==
    LET upTo[n \in 0..Len(s)] == IF n = 0 THEN 0 ELSE upTo[n - 1] + 1 + Length[s[n].value]
    IN  upTo[Len(s)]

First(places) == CHOOSE n \in places : \A m \in places : n <= m
Named(s, key) == {n \in DOMAIN s : s[n].key = key}
Spelled(s, key) == {n \in Named(s, key) : s[n].exact}

\* Info_ValueForKey.
Info_ValueForKey(s, key) ==
    IF Named(s, key) = {} THEN NoValue ELSE s[First(Named(s, key))].value

\* Info_RemoveKey.
Info_RemoveKey(s, key) ==
    IF Spelled(s, key) = {} THEN s ELSE RemoveAt(s, First(Spelled(s, key)))

\* Mutant of Info_SetValueForKey: the new pair goes to the end.
SetAtTheEnd(s, key, value) ==
    LET rest == Info_RemoveKey(s, key)
        fits == Strlen(<<Pair(key, TRUE, value)>>) + Strlen(rest) < MaxInfo
    IN  [ok |-> fits,
         info |-> IF fits THEN rest \o <<Pair(key, TRUE, value)>> ELSE rest]

\* Info_SetValueForKey.  The values set hold none of the forbidden characters.
Info_SetValueForKey(s, key, value) ==
    LET rest == Info_RemoveKey(s, key)
        fits == Strlen(<<Pair(key, TRUE, value)>>) + Strlen(rest) < MaxInfo
    IN  [ok |-> fits,
         info |-> IF fits THEN <<Pair(key, TRUE, value)>> \o rest ELSE rest]

\* The loop of Info_NextPair in Validate, which counts a key in any spelling.
Count(s, key) == Cardinality(Named(s, key))

-----------------------------------------------------------------------------
(* Userinfo.cpp *)

\* Validate, of the keys followed here.
Validate(s) ==
    /\ s # <<>> /\ Strlen(s) < MaxInfo
    /\ Count(s, "ip") <= 1 /\ Count(s, "name") = 1 /\ Count(s, "model") = 1

BadModel(s) == Info_ValueForKey(s, "model") = "longModel"

\* Sanitize: what becomes of the string, unless it is refused.
Sanitize(s) ==
    LET named == Info_SetValueForKey(s, "name", "clean")
        kyle == Info_SetValueForKey(named.info, "model", "kyle")
    IN  IF ~Validate(s) \/ ~named.ok THEN [ok |-> FALSE, info |-> s]
        ELSE IF BadModel(named.info) THEN kyle
        ELSE named

-----------------------------------------------------------------------------
(* SV_UserinfoChanged *)

\* Mutant of SV_UserinfoChanged: a string without room for "ip" is let through.
UserinfoChangedWithoutRoom(s) ==
    LET own == Info_SetValueForKey(s, "ip", "own").info
        kyle == Info_SetValueForKey(own, "model", "kyle")
    IN  IF BadModel(own) THEN kyle ELSE [ok |-> TRUE, info |-> own]

\* The length that the string would have with the address of the connection.
LengthWithIp(s) ==
    LET val == Info_ValueForKey(s, "ip")
    IN  IF val = NoValue THEN Strlen(s) + 1 + Length["own"]
        ELSE Strlen(s) - Length[val] + Length["own"]

SV_UserinfoChanged(s) ==
    LET own == Info_SetValueForKey(s, "ip", "own").info
        kyle == Info_SetValueForKey(own, "model", "kyle")
    IN  IF LengthWithIp(s) >= MaxInfo THEN [ok |-> FALSE, info |-> s]
        ELSE IF BadModel(own) THEN kyle
        ELSE [ok |-> TRUE, info |-> own]

-----------------------------------------------------------------------------
(* Actions *)

\* A client writes the string of its connection, or of a "userinfo" command.
Write ==
    /\ \/ client = "free" /\ client' = "connecting"
       \/ client = "in" /\ client' = "changing"
    /\ info' = <<>>
Type(pair) ==
    /\ client \in {"connecting", "changing"} /\ Len(info) < MaxPairs
    /\ info' = Append(info, pair)
    /\ UNCHANGED client

\* The client is in with its string, or not at all.
InWith(result) ==
    /\ client' = IF result.ok THEN "in" ELSE "free"
    /\ info' = IF result.ok THEN result.info ELSE <<>>

\* ClientConnect: Check wants an "ip", which the engine adds if there is room.
Connect ==
    /\ client = "connecting" /\ Strlen(info) < MaxInfo
    /\ LET sent == Info_SetValueForKey(info, "ip", "own").info
           clean == Sanitize(sent)
       IN  InWith(IF Info_ValueForKey(sent, "ip") = NoValue \/ ~clean.ok
                  THEN [ok |-> FALSE, info |-> <<>>]
                  ELSE SV_UserinfoChanged(clean.info))

\* SV_UpdateUserinfo_f, and GAME_CLIENT_USERINFO_CHANGED.
UserinfoCommand ==
    /\ client = "changing" /\ Strlen(info) < MaxInfo
    /\ LET changed == SV_UserinfoChanged(info)
       IN  InWith(IF changed.ok THEN Sanitize(changed.info) ELSE changed)

\* The map changes: ClientConnect of the clients that are in.
MapChange ==
    /\ client = "in"
    /\ InWith(IF Info_ValueForKey(info, "ip") = NoValue
              THEN [ok |-> FALSE, info |-> <<>>] ELSE Sanitize(info))

Leave == client = "in" /\ client' = "free" /\ info' = <<>>

Next ==
    \/ Write \/ (\E pair \in Pairs : Type(pair))
    \/ Connect \/ UserinfoCommand \/ MapChange \/ Leave

-----------------------------------------------------------------------------
(* Properties *)

\* What the game and the engine read of a client that is in is what the proxy has
\* checked, in whatever spelling and order the client sent its keys.
ReadsSanitized ==
    client = "in" =>
        /\ Info_ValueForKey(info, "name") = "clean"
        /\ ~BadModel(info)

\* A client that is in always has an "ip" to be banned by ("do not leave the client
\* without "ip"", SV_UserinfoChanged).  It is the address of its connection, put
\* in front of what it sent; or else the one that the client wrote under another
\* spelling of the key, in a string that was too long for both.
IpOwnOrWritten ==
    client = "in" =>
        \/ Info_ValueForKey(info, "ip") = "own"
        \/ Named(info, "ip") # {} /\ Spelled(info, "ip") = {}

\* The keys that the server sets for a client are read as it set them; the "ip",
\* unless the string had no room for it.
ReadAsSet == ReadsSanitized /\ IpOwnOrWritten

\* "The `ip` key, which the game's ban check (`addip`) reads, is set again from the
\* address of the connection at every userinfo change" (docs/features.md).  But the
\* length is counted with the value that is read, whatever the spelling of its key,
\* and only a key spelled "ip" is then removed: a string that holds an "IP" and
\* fits by that count alone keeps it, as its only one.
IpOfTheConnection == client = "in" => Info_ValueForKey(info, "ip") = "own"
=============================================================================
