------------------------------- MODULE MCBans -------------------------------
(***************************************************************************)
(* The part of MCCommands that is an instance of Bans: addresses of two    *)
(* octets; spellings that differ by a 0, by the octet that is missing,     *)
(* which is a wildcard, or by the order.                                   *)
(***************************************************************************)
CONSTANTS Octets, Places, Wildcard, Bad, Hole, MaxIpFilters, Words, FileSizes

VARIABLES active, list, file, filterBan, banIPs, saved

B == INSTANCE Bans

ASSUME BansAssumption == B!BansConstants

MCWords == {<<1, 0>>, <<1>>, <<0, 1>>, Bad}

BansSpec == B!Spec

-----------------------------------------------------------------------------
\* No ban is twice in the list (AddIP).
BannedOnce == B!NoDuplicates

\* The next load finds the bans of this one (UpdateIPBans).
FileIsList == B!FileIsList

\* What is banned is what was spelled, on this map and on the next (StringToFilter).
BansAsSpelled == B!BansAsSpelled
=============================================================================
