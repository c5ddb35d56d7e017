----------------------------- MODULE Challenge -----------------------------
(***************************************************************************)
(* The stateless challenges of Engine/Challenge.cpp: getchallenge is       *)
(* answered with a keyed hash of the address and of the time, kept         *)
(* nowhere, and the hook of SV_DirectConnect gives a connect that brings a *)
(* valid one its entry in svs.challenges, where the engine looks it up.    *)
(*                                                                         *)
(* An address is an IP and a port.  The hash is taken as perfect: two      *)
(* challenges are equal only when the key, the address and the timestamp   *)
(* are.  The network may lose, delay, repeat and reorder packets: any      *)
(* challenge ever sent may come back, any number of times, from any        *)
(* address (a NAT may give a client another port).  pingTime, firstTime    *)
(* and connected, which decide nothing here, are left out.                 *)
(*                                                                         *)
(* "watch" is an observer: it follows one answer to getchallenge, any one, *)
(* and what becomes of the connects that bring it back.                    *)
(***************************************************************************)
EXTENDS Integers

CONSTANTS
    Addrs,          \* addresses of the clients
    Keys, NoKey,    \* keys of the hash, and none
    NoAddr,         \* the address of an empty entry
    NoChallenge,    \* the challenge of an empty entry
    MaxChallenges,  \* entries of svs.challenges: 1024
    Span,           \* milliseconds of a timestamp: 2^14
    FirstTime,      \* svs.time at the first packet of a server that starts
    MaxTime         \* bound: last svs.time

ASSUME ChallengeAssumption ==
    /\ NoKey \notin Keys /\ NoAddr \notin Addrs
    /\ MaxChallenges \in Nat \ {0} /\ Span \in Nat \ {0}
    /\ FirstTime \in Nat \ {0} /\ MaxTime \in Nat

\* A timestamp before the first one is compared, never sent.
Challenges == [key : Keys, adr : Addrs, timestamp : Int]

ASSUME NoChallengeAssumption == NoChallenge \notin Challenges

VARIABLES
    time,       \* svs.time
    table,      \* svs.challenges
    key,        \* the key this load of the proxy works with, NoKey before LoadKey
    keyCvar,    \* proxy_sv_challengeKey
    issued,     \* the challenges sent so far
    watch       \* the observer

vars == <<time, table, key, keyCvar, issued, watch>>

-----------------------------------------------------------------------------
Slots == 1..MaxChallenges
EmptyEntry == [adr |-> NoAddr, challenge |-> NoChallenge, time |-> 0]
EntryType ==
    [adr : Addrs, challenge : Challenges, time : Nat \ {0}] \cup {EmptyEntry}

\* The challenge followed was sent at "at"; its entry was made at "made" (0: not
\* yet); verdict is what became of a connect at this very moment.
NotWatching ==
    [challenge |-> NoChallenge, at |-> 0, made |-> 0, verdict |-> "none"]
WatchType ==
    [challenge : Challenges \cup {NoChallenge}, at : Nat, made : Nat,
     verdict : {"none", "new", "known", "refused"}]

TypeOK ==
    /\ time \in Nat \ {0}
    /\ table \in [Slots -> EntryType]
    /\ key \in Keys \cup {NoKey} /\ keyCvar \in Keys \cup {NoKey}
    /\ issued \subseteq Challenges
    /\ watch \in WatchType

Init ==
    /\ time = FirstTime
    /\ table = [i \in Slots |-> EmptyEntry]
    /\ key = NoKey /\ keyCvar = NoKey
    /\ issued = {}
    /\ watch = NotWatching

-----------------------------------------------------------------------------
(* The hash *)

\* Mutant of LoadKey: the key is not saved for the next load.
LoadKeyUnsaved(k) ==
    /\ k \in Keys /\ (key # NoKey => k = key)
    /\ key' = k
    /\ UNCHANGED keyCvar

\* LoadKey, before the first hash of a load: the key of the cvar, or a new one
\* that is saved there.
LoadKey(k) ==
    /\ k \in Keys
    /\ IF key # NoKey THEN k = key ELSE keyCvar # NoKey => k = keyCvar
    /\ key' = k
    /\ keyCvar' = IF key # NoKey THEN keyCvar ELSE k

Timestamp == time \div Span

Create(k, timestamp, from) == [key |-> k, adr |-> from, timestamp |-> timestamp]

\* The top bit of a challenge.
Parity(c) == c.timestamp % 2

\* The timestamp with the parity of the challenge: the current one or the one
\* before.
Verify(k, c, from) ==
    c = Create(k, Timestamp - ((Timestamp + Parity(c)) % 2), from)

-----------------------------------------------------------------------------
(* The table *)

Matches(i, c, from) == table[i].challenge = c /\ table[i].adr = from

\* Mutant of Found: the search stops at the first entry.
FoundFirst(c, from) == Matches(1, c, from)

Found(c, from) == \E i \in Slots : Matches(i, c, from)

\* Mutant of Oldest: the last entry made is the one replaced.
Youngest(i) == \A j \in Slots : table[i].time >= table[j].time

\* The first of the oldest entries.
Oldest(i) ==
    \A j \in Slots : \/ table[i].time < table[j].time
                     \/ table[i].time = table[j].time /\ i <= j

-----------------------------------------------------------------------------
(* The packets *)

\* Answer: getchallenge.  The observer may follow this answer.
Answer(from) ==
    \E k \in Keys :
      /\ LoadKey(k)
      /\ LET c == Create(k, Timestamp, from)
         IN  /\ issued' = issued \cup {c}
             /\ \/ UNCHANGED watch
                \/ /\ watch.challenge = NoChallenge
                   /\ watch' = [NotWatching EXCEPT !.challenge = c, !.at = time]
      /\ UNCHANGED <<time, table>>

\* What the observer notes of a connect.
Noted(c, from, verdict) ==
    IF c # watch.challenge \/ from # c.adr THEN watch
    ELSE [watch EXCEPT !.verdict = verdict,
                       !.made = IF verdict = "new" THEN time ELSE @]

\* Admit, then the lookup of SV_DirectConnect: a connect finds its entry, or
\* makes one, or is refused.
Admit(c, from) ==
    \/ /\ Found(c, from)
       /\ watch' = Noted(c, from, "known")
       /\ UNCHANGED <<table, key, keyCvar>>
    \/ /\ ~Found(c, from)
       /\ \E k \in Keys :
            /\ LoadKey(k)
            /\ IF Verify(k, c, from)
               THEN /\ \E i \in Slots :
                         /\ Oldest(i)
                         /\ table' = [table EXCEPT ![i] = [adr |-> from, challenge |-> c, time |-> time]]
                    /\ watch' = Noted(c, from, "new")
               ELSE /\ watch' = Noted(c, from, "refused")
                    /\ UNCHANGED table

Connect(from) ==
    /\ \E c \in issued : Admit(c, from)
    /\ UNCHANGED <<time, issued>>

-----------------------------------------------------------------------------
(* The server *)

Tick ==
    /\ time < MaxTime
    /\ time' = time + 1
    /\ watch' = [watch EXCEPT !.verdict = "none"]
    /\ UNCHANGED <<table, key, keyCvar, issued>>

\* The engine loads the proxy again; svs and the cvars stay.
MapChange ==
    /\ key' = NoKey
    /\ UNCHANGED <<time, table, keyCvar, issued, watch>>

\* killserver: SV_Shutdown clears svs, with its time; the cvars stay.
KillServer ==
    /\ time' = FirstTime
    /\ table' = [i \in Slots |-> EmptyEntry]
    /\ key' = NoKey
    /\ watch' = NotWatching
    /\ UNCHANGED <<keyCvar, issued>>

Next ==
    \/ \E a \in Addrs : Answer(a) \/ Connect(a)
    \/ Tick
    \/ MapChange
    \/ KillServer

Spec == Init /\ [][Next]_vars

-----------------------------------------------------------------------------
(* Properties *)

\* "The table only holds addresses that answered": an entry is the one of an
\* address that brought back a challenge that was sent to it.
OnlyAnswered ==
    \A i \in Slots : table[i] # EmptyEntry =>
      table[i].challenge \in issued /\ table[i].challenge.adr = table[i].adr

\* A connect sent again (lost packet, full server) takes no other entry: a
\* client that retries does not push the others out of the table.
NoDuplicates ==
    \A i, j \in Slots :
      i # j /\ table[i] # EmptyEntry => table[i].challenge # table[j].challenge

\* "A challenge is valid for 16 to 32 s", whatever the map changes in between:
\* refused only after a whole timestamp, and good for a new entry for less than
\* two.
Window ==
    /\ watch.verdict = "refused" => time - watch.at >= Span
    /\ watch.verdict = "new" => time - watch.at < 2 * Span

\* An entry leaves only once no entry left is older: new connects push out those
\* that were admitted before.
OnlyOldestLeave ==
    watch.made # 0 /\ ~Found(watch.challenge, watch.challenge.adr) =>
      \A i \in Slots : table[i].time >= watch.made

\* A client that was answered has one entry, until clients that came later need it.
OneEntryUntilOldest == NoDuplicates /\ OnlyOldestLeave
=============================================================================
