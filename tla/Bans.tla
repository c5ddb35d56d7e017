-------------------------------- MODULE Bans --------------------------------
(***************************************************************************)
(* The IP bans of Features/Bans.cpp: the list in memory, the file that     *)
(* keeps it across the loads of the proxy, the list of the game in the     *)
(* cvar g_banIPs, imported at each load, and the commands addip, removeip, *)
(* ban and unban.                                                          *)
(*                                                                         *)
(* An address is a sequence of octets; a spelling in a command, the file   *)
(* or the cvar is a sequence of octets and wildcards, of any length, or    *)
(* Bad, one that StringToFilter refuses.  A filter is a spelling of full   *)
(* length: a wildcard is an octet with a mask of 0, and a compare of 0.    *)
(* Commands and loads of the game run one at a time on the server.         *)
(***************************************************************************)
EXTENDS Integers, FiniteSets, Sequences, SequencesExt

CONSTANTS
    Octets,         \* values of an octet; 0 is one of them
    Places,         \* octets of an address: 4
    Wildcard, Bad,  \* "*", and a spelling that is refused
    Hole,           \* an entry of the list that is not used
    MaxIpFilters,   \* entries of the list: 1024
    Words,          \* bound: the spellings typed
    FileSizes       \* bound: number of lines of a file edited by hand

Addresses == [1..Places -> Octets]
Filters == [1..Places -> Octets \cup {Wildcard}]
Spellings == UNION {[1..n -> Octets \cup {Wildcard}] : n \in 1..Places}

BansConstants ==
    /\ Places \in Nat \ {0} /\ MaxIpFilters \in Nat
    /\ 0 \in Octets /\ Octets \subseteq 0..255 /\ Wildcard \notin Octets
    /\ Hole \notin Spellings /\ Bad \notin Spellings
    /\ Words \subseteq Spellings \cup {Bad}
    /\ FileSizes \subseteq Nat

VARIABLES
    active,     \* the proxy answers the commands and refuses connections
    list,       \* ipFilters, up to numIpFilters
    file,       \* the lines of ybeproxy_bans.txt
    filterBan,  \* the cvar g_filterBan
    banIPs,     \* the words of the cvar g_banIPs
    saved       \* observer: the file is the last list the proxy wrote or read

vars == <<active, list, file, filterBan, banIPs, saved>>

-----------------------------------------------------------------------------
(* Filters *)

\* Mutant of StringToFilter: a 0 is a wildcard for everyone.
RetailFilter(s, legacy) ==
    [i \in 1..Places |-> IF i > Len(s) \/ s[i] = 0 THEN Wildcard ELSE s[i]]

StringToFilter(s, legacy) ==
    [i \in 1..Places |-> IF i > Len(s) \/ (legacy /\ s[i] = 0) THEN Wildcard ELSE s[i]]

FiltersOf(words, legacy) ==
    {StringToFilter(w, legacy) : w \in ToSet(words) \ {Bad}}

Used(l) == ToSet(l) \ {Hole}

Covers(filter, address) == \A i \in 1..Places : filter[i] \in {Wildcard, address[i]}

\* The addresses that some filter of a set covers.
Covered(filters) == {a \in Addresses : \E f \in filters : Covers(f, a)}

\* IsBanned: what ClientConnect refuses.
Refused == IF active THEN Covered(Used(list)) ELSE {}

-----------------------------------------------------------------------------
(* The list *)

IndexOf(l, f) == {i \in DOMAIN l : l[i] = f}
First(s) == CHOOSE i \in s : \A j \in s : i <= j

HasRoom(l) == Len(l) < MaxIpFilters

\* Mutant of AddIP: a hole is used before the whole list is searched.
AddIPInHole(l, s, legacy) ==
    LET f == StringToFilter(s, legacy)
    IN  IF s = Bad THEN l
        ELSE IF Hole \in ToSet(l) THEN [l EXCEPT ![First(IndexOf(l, Hole))] = f]
        ELSE IF f \in ToSet(l) \/ ~HasRoom(l) THEN l
        ELSE Append(l, f)

\* AddIP: the first hole, or the end.
AddIP(l, s, legacy) ==
    LET f == StringToFilter(s, legacy)
    IN  IF s = Bad \/ f \in ToSet(l) THEN l
        ELSE IF Hole \in ToSet(l) THEN [l EXCEPT ![First(IndexOf(l, Hole))] = f]
        ELSE IF HasRoom(l) THEN Append(l, f)
        ELSE l

\* Its result.
Accepted(l, s) == s # Bad /\ StringToFilter(s, FALSE) \in ToSet(AddIP(l, s, FALSE))

AddIPList(l, words, legacy) ==
    LET upTo[n \in 0..Len(words)] == IF n = 0 THEN l ELSE AddIP(upTo[n - 1], words[n], legacy)
    IN  upTo[Len(words)]

\* What is written of a list: no hole.
Lines(l) ==
    LET upTo[n \in 0..Len(l)] ==
            IF n = 0 THEN <<>>
            ELSE IF l[n] = Hole THEN upTo[n - 1]
            ELSE Append(upTo[n - 1], l[n])
    IN  upTo[Len(l)]

\* Mutant of UpdateIPBans: the lines after a hole are not written.
UpdateIPBansToHole(l) ==
    \/ /\ file' = IF Hole \in ToSet(l) THEN SubSeq(l, 1, First(IndexOf(l, Hole)) - 1) ELSE l
       /\ saved' = TRUE
    \/ UNCHANGED file /\ saved' = FALSE

\* UpdateIPBans: the file may fail to open, and is then left as it was.
UpdateIPBans(l) ==
    \/ /\ file' = Lines(l)
       /\ saved' = TRUE
    \/ UNCHANGED file /\ saved' = FALSE

-----------------------------------------------------------------------------
(* Loads *)

\* All that a load reads fits in the list.
Fits == Cardinality(FiltersOf(file, FALSE) \cup FiltersOf(banIPs, TRUE)) <= MaxIpFilters

\* Mutant of Load: the list of the game is imported with the new meaning.
LoadNewMeaning ==
    /\ active' = filterBan
    /\ IF ~filterBan
       THEN list' = <<>> /\ saved' = FALSE /\ UNCHANGED <<file, banIPs>>
       ELSE /\ list' = AddIPList(AddIPList(<<>>, file, FALSE), banIPs, FALSE)
            /\ banIPs' = <<>>
            /\ IF banIPs = <<>> THEN UNCHANGED file /\ saved' = Fits ELSE UpdateIPBans(list')

\* BeforeGameInit: the file, then the list of the game, which is emptied before
\* the file is written.
Load ==
    /\ active' = filterBan
    /\ IF ~filterBan
       THEN list' = <<>> /\ saved' = FALSE /\ UNCHANGED <<file, banIPs>>
       ELSE /\ list' = AddIPList(AddIPList(<<>>, file, FALSE), banIPs, TRUE)
            /\ banIPs' = <<>>
            /\ IF banIPs = <<>> THEN UNCHANGED file /\ saved' = Fits ELSE UpdateIPBans(list')

MapChange == Load /\ UNCHANGED filterBan

\* A server that starts has what the earlier ones left.
Init ==
    /\ active = FALSE
    /\ list = <<>>
    /\ file = <<>>
    /\ filterBan = TRUE
    /\ banIPs = <<>>
    /\ saved = FALSE

-----------------------------------------------------------------------------
(* Commands *)

\* addip, and ban for the address of a player.
AddAndSave(s) ==
    /\ active
    /\ list' = AddIP(list, s, FALSE)
    /\ IF Accepted(list, s) THEN UpdateIPBans(list') ELSE UNCHANGED <<file, saved>>
    /\ UNCHANGED <<active, filterBan, banIPs>>

\* removeip, and unban for the address of a player: the first filter that is
\* the spelling, with its meaning or with the old one.
RemoveIP(s) ==
    /\ active /\ s # Bad
    /\ LET found == IndexOf(list, StringToFilter(s, FALSE)) \cup IndexOf(list, StringToFilter(s, TRUE))
       IN  IF found = {}
           THEN UNCHANGED <<list, file, saved>>
           ELSE list' = [list EXCEPT ![First(found)] = Hole] /\ UpdateIPBans(list')
    /\ UNCHANGED <<active, filterBan, banIPs>>

AddIPCommand == \E s \in Words : AddAndSave(s)
RemoveIPCommand == \E s \in Words : RemoveIP(s)
BanCommand(a) == AddAndSave(a)
UnbanCommand(a) == RemoveIP(a)

\* The file is edited by hand; the cvars are set, or the game keeps its list.
EditFile ==
    /\ \E n \in FileSizes : file' \in [1..n -> Words]
    /\ saved' = FALSE
    /\ UNCHANGED <<active, list, filterBan, banIPs>>
SetBanIPs ==
    /\ \E s \in Words : banIPs' = <<s>>
    /\ UNCHANGED <<active, list, file, filterBan, saved>>
SetFilterBan ==
    /\ filterBan' \in BOOLEAN
    /\ UNCHANGED <<active, list, file, banIPs, saved>>

Next ==
    \/ MapChange
    \/ AddIPCommand \/ RemoveIPCommand
    \/ \E a \in Addresses : BanCommand(a) \/ UnbanCommand(a)
    \/ EditFile \/ SetBanIPs \/ SetFilterBan

Spec == Init /\ [][Next]_vars

-----------------------------------------------------------------------------
(* Properties *)

TypeOK ==
    /\ active \in BOOLEAN /\ filterBan \in BOOLEAN /\ saved \in BOOLEAN
    /\ list \in Seq(Filters \cup {Hole}) /\ Len(list) <= MaxIpFilters
    /\ ~active => list = <<>>
    /\ file \in Seq(Spellings \cup {Bad})
    /\ banIPs \in Seq(Spellings \cup {Bad})

\* No ban is twice in the list, so that one removeip removes it: whatever the
\* holes, the lines of the file, the imports and the spellings.
NoDuplicates ==
    \A i, j \in DOMAIN list : i # j /\ list[i] # Hole => list[i] # list[j]

\* The next load finds the bans of this one: unless a write failed or the file
\* was edited, its lines are the bans in memory.
FileIsList == active /\ saved => FiltersOf(file, FALSE) = Used(list)

\* A map change refuses the same addresses as before and those of the list of
\* the game, with its meaning, where a 0 is a wildcard.
MapChangeKeepsBans ==
    [][MapChange /\ active /\ active' /\ saved /\ Fits
         => Refused' = Refused \cup Covered(FiltersOf(banIPs, TRUE))]_vars

\* The addresses a spelling stands for: the octets left out are wildcards.
Spells(s, a) == \A i \in 1..Len(s) : s[i] \in {Wildcard, a[i]}

\* "Every octet that is written is compared, 0 included" (docs/features.md): a
\* ban refuses the addresses it spells, and no other one, unless the list is full.
AddBansItsSpelling ==
    [][\A s \in (Words \cup Addresses) \ {Bad} : AddAndSave(s) =>
         \/ Refused' = Refused \cup {a \in Addresses : Spells(s, a)}
         \/ Refused' = Refused /\ Len(list) = MaxIpFilters]_vars

\* What is banned is what was spelled, on this map and on the next.
BansAsSpelled == MapChangeKeepsBans /\ AddBansItsSpelling
=============================================================================
