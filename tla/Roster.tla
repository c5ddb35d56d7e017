------------------------------- MODULE Roster -------------------------------
(***************************************************************************)
(* What the proxy promises to the people on the server about who is on it: *)
(* the roster shows, for every client slot, the client that holds it.  A   *)
(* human joins with an address that is not banned and that has room under  *)
(* the limit of clients per address; a map change removes the humans whose *)
(* address is banned by then and keeps or removes the others; nobody       *)
(* appears otherwise.  The address is the one read in the userinfo: its    *)
(* own, or one it managed to write there.                                  *)
(*                                                                         *)
(* ClientSlots, the detailed module, implements this one: there the roster *)
(* is the set of CS_PLAYERS configstrings, which the game module writes    *)
(* and the proxy guards, and the addresses are the proxy's.                *)
(***************************************************************************)
EXTENDS Naturals, FiniteSets

CONSTANTS
    Slots,      \* client slots, 0 .. sv_maxclients - 1
    Humans,     \* players that connect over the network
    Bots,       \* bots of the game module
    AddrOf,     \* the IP address, without the port, of each human
    Written,    \* the addresses that each human may write in its userinfo
    Nobody,     \* no client
    NoAddr      \* the empty address

VARIABLES
    roster,     \* who each slot shows, Nobody when the slot is empty
    addresses,  \* the address each slot is known by, NoAddr without a human
    banned,     \* addresses of the ban list
    limit       \* proxy_sv_maxClientsPerIP, 0 for no limit

rosterVars == <<roster, addresses, banned, limit>>

Addrs == {AddrOf[h] : h \in Humans} \cup UNION {Written[h] : h \in Humans}
AddressesOf(h) == {AddrOf[h]} \cup Written[h]

RosterInit ==
    /\ roster = [s \in Slots |-> Nobody]
    /\ addresses = [s \in Slots |-> NoAddr]
    /\ banned = {}
    /\ limit \in Nat

\* The slots other than s that are known by the address a.
OthersFrom(s, a) == {t \in Slots \ {s} : addresses[t] = a}

\* A human takes a slot, or takes its own slot again.
Join(s, h, a) ==
    /\ roster[s] \in {Nobody, h}
    /\ a \notin banned
    /\ limit > 0 => Cardinality(OthersFrom(s, a)) < limit
    /\ roster' = [roster EXCEPT ![s] = h]
    /\ addresses' = [addresses EXCEPT ![s] = a]
    /\ UNCHANGED <<banned, limit>>

JoinBot(s, b) ==
    /\ roster[s] = Nobody
    /\ roster' = [roster EXCEPT ![s] = b]
    /\ UNCHANGED <<addresses, banned, limit>>

Leave(s) ==
    /\ roster' = [roster EXCEPT ![s] = Nobody]
    /\ addresses' = [addresses EXCEPT ![s] = NoAddr]
    /\ UNCHANGED <<banned, limit>>

\* Nobody joins during a map change; a human stays with the address read again
\* then, and only when it is not banned.
ChangeMap ==
    /\ \E stay \in SUBSET Slots :
          roster' = [s \in Slots |-> IF s \in stay THEN roster[s] ELSE Nobody]
    /\ addresses' \in [Slots -> Addrs \cup {NoAddr}]
    /\ \A s \in Slots :
          IF roster'[s] \in Humans
          THEN addresses'[s] \in AddressesOf(roster'[s]) \ banned
          ELSE addresses'[s] = NoAddr
    /\ UNCHANGED <<banned, limit>>

\* The administrator edits the ban list or the limit: nobody moves.
Administer ==
    /\ banned' \subseteq Addrs
    /\ limit' \in Nat
    /\ UNCHANGED <<roster, addresses>>

RosterNext ==
    \/ \E s \in Slots, h \in Humans : \E a \in AddressesOf(h) : Join(s, h, a)
    \/ \E s \in Slots, b \in Bots : JoinBot(s, b)
    \/ \E s \in Slots : Leave(s)
    \/ ChangeMap
    \/ Administer

RosterSpec == RosterInit /\ [][RosterNext]_rosterVars
=============================================================================
