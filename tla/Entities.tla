------------------------------ MODULE Entities ------------------------------
(***************************************************************************)
(* The engine's half of an entity (SV_SvEntityForGentity, rewritten in     *)
(* Engine/Hooks/server/sv_game.cpp).  The game gives the engine an array   *)
(* of entities, of a size of its own, and may give it again; it links and  *)
(* unlinks an entity by its address.  The engine keeps, for each of its    *)
(* places, whether the entity is linked.  The number that an entity holds  *)
(* is the game's to write.                                                 *)
(*                                                                         *)
(* Addresses are counted in units that divide the sizes of an entity.      *)
(***************************************************************************)
EXTENDS Integers

CONSTANTS
    MaxGentities,   \* MAX_GENTITIES
    Sizes,          \* bound: sizes of an entity
    Numbers         \* bound: what the game writes to s.number

EntitiesConstants ==
    MaxGentities \in Nat \ {0} /\ Sizes \subseteq Nat \ {0} /\ Numbers \subseteq Int

VARIABLES
    located,        \* locatedGameData: the size of an entity, or 0
    number,         \* s.number of each entity of the array
    inWorld,        \* engine: the places that are linked
    linked,         \* history: the entities the game has linked
    failed          \* Com_Error: "no", or for "an element" of the array or "another"

entityVars == <<located, number, inWorld, linked, failed>>

GentityNums == 0..(MaxGentities - 1)

Init ==
    /\ located = 0
    /\ number = [n \in GentityNums |-> 0]
    /\ inWorld = {} /\ linked = {}
    /\ failed = "no"

\* LocateGameData of a new map, passed on to the engine: its world is new too.
LocateGameData(size) ==
    /\ failed = "no"
    /\ located' = size
    /\ number' = [n \in GentityNums |-> 0]
    /\ inWorld' = {} /\ linked' = {}
    /\ UNCHANGED failed

\* Proxy_SV_NumForGentity: -1 if it is not an element.
NumForGentity(address) ==
    IF located <= 0 \/ address < 0 \/ address % located # 0 THEN -1
    ELSE address \div located

\* Mutant of SvEntityForGentity: the original, by the number.
SvEntityByNumber(address, s_number) == IF s_number \in GentityNums THEN s_number ELSE -1

\* Proxy_SV_SvEntityForGentity: -1 for the error.
SvEntityForGentity(address, s_number) ==
    IF NumForGentity(address) \in GentityNums THEN NumForGentity(address)
    ELSE IF s_number \in GentityNums THEN s_number ELSE -1

SetNumber(n, value) ==
    /\ failed = "no" /\ located # 0
    /\ number' = [number EXCEPT ![n] = value]
    /\ UNCHANGED <<located, inWorld, linked, failed>>

\* The place of an element, or the error.
PlaceOf(n) == SvEntityForGentity(n * located, number[n])

Link(n) ==
    /\ failed = "no" /\ located # 0
    /\ failed' = IF PlaceOf(n) = -1 THEN "an element" ELSE "no"
    /\ inWorld' = inWorld \cup ({PlaceOf(n)} \ {-1})
    /\ linked' = linked \cup {n}
    /\ UNCHANGED <<located, number>>

Unlink(n) ==
    /\ failed = "no" /\ located # 0
    /\ failed' = IF PlaceOf(n) = -1 THEN "an element" ELSE "no"
    /\ inWorld' = inWorld \ {PlaceOf(n)}
    /\ linked' = linked \ {n}
    /\ UNCHANGED <<located, number>>

\* One that is not in the array, before there is one or between two elements, has
\* its number only: what the engine does with its place is not followed.
Other(address, value) ==
    /\ failed = "no" /\ NumForGentity(address) \notin GentityNums
    /\ SvEntityForGentity(address, value) = -1
    /\ failed' = "another"
    /\ UNCHANGED <<located, number, inWorld, linked>>

Next ==
    \/ \E size \in Sizes : LocateGameData(size)
    \/ \E n \in GentityNums, value \in Numbers : SetNumber(n, value)
    \/ \E n \in GentityNums : Link(n) \/ Unlink(n)
    \/ \E address \in -1..3, value \in Numbers : Other(address, value)

-----------------------------------------------------------------------------
(* Properties *)

\* "Against the player ghosting bug (players walking through an affected player)":
\* the entities in the engine's world are those that the game has linked and not
\* unlinked, whatever it writes to their numbers in between, and none of them stops
\* the server (Proxy_SV_SvEntityForGentity).
WorldIsWhatWasLinked == inWorld = linked /\ failed # "an element"
=============================================================================
