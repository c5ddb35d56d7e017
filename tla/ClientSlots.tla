---------------------------- MODULE ClientSlots ----------------------------
(***************************************************************************)
(* The client slots of the server, as the three programs that share them   *)
(* see them: the engine (client_t), the proxy (ClientData) and the game    *)
(* module (the CS_PLAYERS configstring of the slot).                       *)
(*                                                                         *)
(* The engine calls the proxy (vmMain) on every connect, begin, disconnect,*)
(* client command and userinfo change; the proxy does its part, then calls *)
(* the game, or refuses in its place.  Everything runs on one thread, but  *)
(* a slot is freed, taken again, or refilled by a map change between any   *)
(* two calls, and a map change unloads the proxy: its static data restarts *)
(* from zero while the engine keeps its clients.                           *)
(*                                                                         *)
(* Kick votes are here too: a vote remembers a slot number, and runs       *)
(* seconds later against whoever holds the slot then (Features/Votes.cpp). *)
(*                                                                         *)
(* The original engine is modelled (isOriginalEngine); its code is not in  *)
(* the repository: SV_DropClient, SV_DirectConnect, SV_SpawnServer,        *)
(* SV_MapRestart_f and the command buffer are external.                    *)
(***************************************************************************)
EXTENDS Naturals, FiniteSets

CONSTANTS
    Slots,      \* client slots, 0 .. sv_maxclients - 1
    Humans,     \* players that connect over the network
    Bots,       \* bots of the game module
    AddrOf,     \* the IP address, without the port, of each human
    Written,    \* the addresses that each human may write in its userinfo
    Nobody,     \* no client
    NoAddr,     \* the empty address
    MaxLimit    \* bound: largest value given to proxy_sv_maxClientsPerIP

Addrs == {AddrOf[h] : h \in Humans} \cup UNION {Written[h] : h \in Humans}
Clients == Humans \cup Bots

ASSUME ClientsAssumption ==
    /\ Nobody \notin Clients
    /\ Humans \cap Bots = {}
    /\ AddrOf \in [Humans -> Addrs]
    /\ Written \in [Humans -> SUBSET Addrs]
    /\ NoAddr \notin Addrs
    /\ MaxLimit \in Nat
    /\ IsFiniteSet(Slots)

VARIABLES
    slot,       \* engine: state, client and "ip" key of the userinfo, per slot
    data,       \* proxy: ClientData of each slot
    shown,      \* game: the slots whose CS_PLAYERS configstring is set
    vote,       \* game: the kick vote, its target slot; the client meant and the
                \* address the proxy had for it then
    voteAddr,   \* proxy: voteAddresses, the address of each slot at the vote
    kick,       \* engine: the "clientkick" in the command buffer
    banned,     \* the ban list (module Bans has its details)
    limit       \* proxy_sv_maxClientsPerIP

vars == <<slot, data, shown, vote, voteAddr, kick, banned, limit>>

-----------------------------------------------------------------------------
(* State and helpers *)

FreeSlot == [state |-> "free", who |-> Nobody, ip |-> NoAddr]
NoData == [address |-> NoAddr, isConnected |-> FALSE, welcome |-> FALSE,
           muted |-> Nobody]
NoVote == [stage |-> "none"]
NoKick == [slot |-> Nobody, who |-> Nobody]

\* What Info_ValueForKey may read as the "ip" of a human that is in: the address
\* of the connection, that Info_SetValueForKey writes, or an address the client
\* wrote under "IP": the key is read without case but removed and counted with
\* it, and a string with no room for the real one keeps the written one.  With
\* room for both, Validate refuses the second key (module InfoString).
AddressesOf(h) == {AddrOf[h]} \cup Written[h]

\* "loading" stands for CS_CONNECTED and CS_PRIMED.
States == {"free", "zombie", "loading", "active"}
InUse(s) == slot[s].state \in {"loading", "active"}
HumanIn(s) == slot[s].who \in Humans

Address == Addrs \cup {NoAddr}
SlotType == [state : States, who : Clients \cup {Nobody}, ip : Address]
DataType == [address : Address, isConnected : BOOLEAN, welcome : BOOLEAN,
             muted : Clients \cup {Nobody}]
VoteType == [stage : {"open", "passed"}, slot : Slots, who : Clients,
             address : Address]
KickType == [slot : Slots, who : Clients]

TypeOK ==
    /\ slot \in [Slots -> SlotType]
    /\ data \in [Slots -> DataType]
    /\ shown \subseteq Slots
    /\ vote \in {NoVote} \cup VoteType
    /\ voteAddr \in [Slots -> Address]
    /\ kick \in {NoKick} \cup KickType
    /\ banned \subseteq Addrs
    /\ limit \in 0..MaxLimit

Init ==
    /\ slot = [s \in Slots |-> FreeSlot]
    /\ data = [s \in Slots |-> NoData]
    /\ shown = {}
    /\ vote = NoVote
    /\ voteAddr = [s \in Slots |-> NoAddr]
    /\ kick = NoKick
    /\ banned = {}
    /\ limit \in 0..MaxLimit

\* The engine's SV_DropClient: a zombie for a human, with its userinfo emptied,
\* a free slot for a bot.
Dropped(s) ==
    IF HumanIn(s)
    THEN [state |-> "zombie", who |-> slot[s].who, ip |-> NoAddr]
    ELSE FreeSlot

\* Mutants of DropClient: the data is reset only for a client that entered the
\* game; the reset forgets the mute.
DropClientOnlyEntered(s) ==
    /\ slot' = [slot EXCEPT ![s] = Dropped(s)]
    /\ data' = [data EXCEPT ![s] = IF @.isConnected THEN NoData ELSE @]
    /\ shown' = shown \ {s}
DropClientKeepsMute(s) ==
    /\ slot' = [slot EXCEPT ![s] = Dropped(s)]
    /\ data' = [data EXCEPT ![s] = [NoData EXCEPT !.muted = data[s].muted]]
    /\ shown' = shown \ {s}

\* SV_DropClient of a slot in use, with the GAME_CLIENT_DISCONNECT it sends:
\* the proxy forgets its data (ClientDisconnect) and the game its CS_PLAYERS.
DropClient(s) ==
    /\ slot' = [slot EXCEPT ![s] = Dropped(s)]
    /\ data' = [data EXCEPT ![s] = NoData]
    /\ shown' = shown \ {s}

-----------------------------------------------------------------------------
(* Connection *)

\* Mutant of TooManyFrom: one client too many.
OneTooMany(s, ip) ==
    /\ limit > 0
    /\ Cardinality({t \in Slots \ {s} : data[t].address = ip}) > limit

\* Check, the addresses of the other slots that reach the limit: an address is
\* empty for a bot and until the game accepted the client.
TooManyFrom(s, ip) ==
    /\ limit > 0
    /\ Cardinality({t \in Slots \ {s} : data[t].address = ip}) >= limit

\* Check: why a client of the slot s is refused, for the "ip" of its userinfo.
Refused(s, ip, firstTime) ==
    \/ ip = NoAddr
    \/ ip \in banned
    \/ firstTime /\ TooManyFrom(s, ip)

\* SV_DirectConnect takes the slot of the same connection again, whatever its
\* state, or else a free one.
SlotFor(s, h) ==
    IF \E t \in Slots : slot[t].who = h
    THEN slot[s].who = h
    ELSE slot[s].state = "free"

\* SV_DirectConnect disconnects the client from the game before it takes its
\* slot again, and a refused client leaves the slot free.  ip: what the userinfo
\* reads as once the engine added the "ip" key, NoAddr when it had no room for
\* it; valid: Sanitize accepts the userinfo; accepted: so does the game.
Connect(s, h, ip, valid, accepted) ==
    LET checked == ~Refused(s, ip, TRUE) /\ valid
        old == IF slot[s].state = "free" THEN data[s] ELSE NoData
    IN  /\ SlotFor(s, h)
        /\ ip \in AddressesOf(h) \cup {NoAddr}
        /\ IF checked /\ accepted
           THEN /\ slot' = [slot EXCEPT ![s] =
                              [state |-> "loading", who |-> h, ip |-> ip]]
                /\ data' = [data EXCEPT ![s] =
                              [NoData EXCEPT !.address = ip, !.welcome = TRUE]]
                /\ shown' = shown \cup {s}
           ELSE /\ slot' = [slot EXCEPT ![s] = FreeSlot]
                /\ data' = [data EXCEPT ![s] =
                              [old EXCEPT !.welcome = checked \/ old.welcome]]
                /\ shown' = shown \ {s}
        /\ UNCHANGED <<vote, voteAddr, kick, banned, limit>>

\* Mutant of Begin: the message is not marked as sent.
BeginWelcomesAgain(s) ==
    /\ slot[s].state = "loading"
    /\ slot' = [slot EXCEPT ![s].state = "active"]
    /\ data' = [data EXCEPT ![s].isConnected = TRUE]
    /\ UNCHANGED <<shown, vote, voteAddr, kick, banned, limit>>

\* Mutant of Begin: the proxy marks the client only when it welcomes it, so not
\* after a map change.
BeginOnlyWelcomed(s) ==
    /\ slot[s].state = "loading"
    /\ slot' = [slot EXCEPT ![s].state = "active"]
    /\ data' = [data EXCEPT ![s].isConnected = @ \/ data[s].welcome,
                            ![s].welcome = FALSE]
    /\ UNCHANGED <<shown, vote, voteAddr, kick, banned, limit>>

\* SV_ClientEnterWorld at the first move of a loading client: GAME_CLIENT_BEGIN.
Begin(s) ==
    /\ slot[s].state = "loading"
    /\ slot' = [slot EXCEPT ![s].state = "active"]
    /\ data' = [data EXCEPT ![s].isConnected = TRUE, ![s].welcome = FALSE]
    /\ UNCHANGED <<shown, vote, voteAddr, kick, banned, limit>>

\* The client disconnects, times out, floods, or an administrator kicks it.
Leave(s) ==
    /\ InUse(s)
    /\ DropClient(s)
    /\ UNCHANGED <<vote, voteAddr, kick, banned, limit>>

\* SV_CheckTimeouts, in SV_Frame: a zombie becomes free after sv_zombietime.
\* The command buffer ran before: no kick waits there.
ZombieTimeout(s) ==
    /\ kick = NoKick
    /\ slot[s].state = "zombie"
    /\ slot' = [slot EXCEPT ![s] = FreeSlot]
    /\ UNCHANGED <<data, shown, vote, voteAddr, kick, banned, limit>>

\* The game adds a bot in its frame: the engine gives it a free slot.  The game
\* connects it itself, or through vmMain, where the proxy marks it connected;
\* a bot has no address and no welcome message.
AddBot(s, b) ==
    /\ kick = NoKick
    /\ slot[s].state = "free"
    /\ \A t \in Slots : slot[t].who # b
    /\ slot' = [slot EXCEPT ![s] = [state |-> "active", who |-> b, ip |-> NoAddr]]
    /\ \/ UNCHANGED data
       \/ data' = [data EXCEPT ![s].isConnected = TRUE, ![s].welcome = FALSE]
    /\ shown' = shown \cup {s}
    /\ UNCHANGED <<vote, voteAddr, kick, banned, limit>>

\* SV_UpdateUserinfo_f: the client's string replaces the userinfo.  The engine
\* part sets "ip" again, or drops the client when there is no room (ip = NoAddr);
\* the address kept at the connection stays.  The game is then called all the
\* same: Sanitize refuses the empty userinfo of the client that was just dropped,
\* so the game does not show it again.  A change that the flood check ignores is
\* a stutter here.
UpdateUserinfo(s, ip, valid) ==
    LET afterEngine == IF ip # NoAddr THEN [slot[s] EXCEPT !.ip = ip]
                                      ELSE Dropped(s)
        sanitized == valid /\ afterEngine.ip # NoAddr
    IN  /\ InUse(s) /\ HumanIn(s)
        /\ ip \in AddressesOf(slot[s].who) \cup {NoAddr}
        /\ IF sanitized
           THEN /\ slot' = [slot EXCEPT ![s] = afterEngine]
                /\ shown' = shown \cup {s}
                /\ UNCHANGED data
           ELSE DropClient(s)
        /\ UNCHANGED <<vote, voteAddr, kick, banned, limit>>

-----------------------------------------------------------------------------
(* Map change: the engine unloads the proxy and the game, loads them again, *)
(* and connects again every client that is in.                              *)

\* The clients that connect again: refused are the humans that Sanitize or the
\* game refuse, and the bots that the engine removes.
Kept(refused) ==
    {s \in Slots \ refused : InUse(s) /\ (HumanIn(s) => ~Refused(s, slot[s].ip, FALSE))}

\* The clients that enter the game at once: the bots, and at a map_restart those
\* that were in it (Patches.cpp, SV_MapRestart_f).
Entered(restart, refused) ==
    {s \in Kept(refused) : HumanIn(s) => restart /\ slot[s].state = "active"}

Reconnected(s, restart, refused) ==
    IF s \in Entered(restart, refused) THEN [slot[s] EXCEPT !.state = "active"]
    ELSE IF s \in Kept(refused) THEN [slot[s] EXCEPT !.state = "loading"]
    ELSE IF InUse(s) THEN Dropped(s)
    ELSE slot[s]

MapChange(restart, refused) ==
    /\ slot' = [s \in Slots |-> Reconnected(s, restart, refused)]
    /\ data' = [s \in Slots |->
          [NoData EXCEPT
             !.address = IF s \in Kept(refused) THEN slot[s].ip ELSE NoAddr,
             !.isConnected = s \in Entered(restart, refused)]]
    /\ shown' = Kept(refused)
    /\ vote' = NoVote
    /\ voteAddr' = [s \in Slots |-> NoAddr]
    /\ UNCHANGED <<kick, banned, limit>>

-----------------------------------------------------------------------------
(* Kick votes *)

\* Mutant of SameAddress: the kick is never checked, as in the retail game.
NeverChecked(s) == TRUE

\* ConsoleCommand: the kick goes on when the slot still has the address it had
\* when the vote started.
SameAddress(s) == data[s].address = voteAddr[s]

\* The game appends "clientkick <slot>" to the command buffer.
QueueKick ==
    kick' = IF SameAddress(vote.slot)
            THEN [slot |-> vote.slot, who |-> vote.who]
            ELSE NoKick

\* Mutant of CallVote: the addresses of the previous vote stay.
CallVoteKeepsAddresses(s, target) ==
    /\ HumanIn(s) /\ data[s].isConnected
    /\ target \in shown
    /\ \/ vote.stage = "none" /\ UNCHANGED kick
       \/ vote.stage = "passed" /\ kick = NoKick /\ QueueKick
    /\ vote' = [stage |-> "open", slot |-> target, who |-> slot[target].who,
                address |-> data[target].address]
    /\ UNCHANGED <<slot, data, shown, voteAddr, banned, limit>>

\* "callvote kick": a client in the game calls the vote against a client the
\* game shows.  A vote that passed and waits runs first.  CS_VOTE_TIME is then
\* set, and the proxy takes the address of every slot (ConfigstringSet).
CallVote(s, target) ==
    /\ HumanIn(s) /\ data[s].isConnected
    /\ target \in shown
    /\ \/ vote.stage = "none" /\ UNCHANGED kick
       \/ vote.stage = "passed" /\ kick = NoKick /\ QueueKick
    /\ vote' = [stage |-> "open", slot |-> target, who |-> slot[target].who,
                address |-> data[target].address]
    /\ voteAddr' = [t \in Slots |-> data[t].address]
    /\ UNCHANGED <<slot, data, shown, banned, limit>>

\* CheckVote, in the game's frame: the vote passes, and waits, or fails.
CloseVote(passed) ==
    /\ kick = NoKick
    /\ vote.stage = "open"
    /\ vote' = IF passed THEN [vote EXCEPT !.stage = "passed"] ELSE NoVote
    /\ UNCHANGED <<slot, data, shown, voteAddr, kick, banned, limit>>

\* CheckVote three seconds later: the vote runs.
RunVote ==
    /\ kick = NoKick
    /\ vote.stage = "passed"
    /\ QueueKick
    /\ vote' = NoVote
    /\ UNCHANGED <<slot, data, shown, voteAddr, banned, limit>>

\* The engine runs its command buffer: clientkick drops the client of the slot.
\* The packets of the frame were read between the append and this.
RunKick ==
    /\ kick # NoKick
    /\ IF InUse(kick.slot) THEN DropClient(kick.slot)
                           ELSE UNCHANGED <<slot, data, shown>>
    /\ kick' = NoKick
    /\ UNCHANGED <<vote, voteAddr, banned, limit>>

-----------------------------------------------------------------------------
(* Administrator: console commands and cvars *)

\* The console commands "mute" and "unmute" of a client in the game.  muted is
\* a flag in the code: the model keeps who it was set for.
Mute(s) ==
    /\ data[s].isConnected
    /\ data' = [data EXCEPT ![s].muted = slot[s].who]
    /\ UNCHANGED <<slot, shown, vote, voteAddr, kick, banned, limit>>

Unmute(s) ==
    /\ data[s].isConnected
    /\ data' = [data EXCEPT ![s].muted = Nobody]
    /\ UNCHANGED <<slot, shown, vote, voteAddr, kick, banned, limit>>

\* "addip" and "ban", "removeip" and "unban": nobody is dropped.
EditBans(a) ==
    /\ banned' = IF a \in banned THEN banned \ {a} ELSE banned \cup {a}
    /\ UNCHANGED <<slot, data, shown, vote, voteAddr, kick, limit>>

SetLimit(n) ==
    /\ limit' = n
    /\ UNCHANGED <<slot, data, shown, vote, voteAddr, kick, banned>>

-----------------------------------------------------------------------------
Next ==
    \/ \E s \in Slots, h \in Humans, ip \in Address, valid, accepted \in BOOLEAN :
          Connect(s, h, ip, valid, accepted)
    \/ \E s \in Slots : Begin(s) \/ Leave(s) \/ ZombieTimeout(s)
    \/ \E s \in Slots, b \in Bots : AddBot(s, b)
    \/ \E s \in Slots, ip \in Address, valid \in BOOLEAN :
          UpdateUserinfo(s, ip, valid)
    \/ \E restart \in BOOLEAN, refused \in SUBSET Slots : MapChange(restart, refused)
    \/ \E s, target \in Slots : CallVote(s, target)
    \/ \E passed \in BOOLEAN : CloseVote(passed)
    \/ RunVote
    \/ RunKick
    \/ \E s \in Slots : Mute(s) \/ Unmute(s)
    \/ \E a \in Addrs : EditBans(a)
    \/ \E n \in 0..MaxLimit : SetLimit(n)

Spec == Init /\ [][Next]_vars

-----------------------------------------------------------------------------
(* Properties *)

\* No ghost player: the game shows a slot exactly while a client holds it.  The
\* comment of vmMain says what breaks it: "don't forward, the game would set
\* CS_PLAYERS again for a gone client" (Module/Main.cpp).
NoGhostPlayer == shown = {s \in Slots : InUse(s)}

\* The addresses that the client of a slot may be known by.
KnownBy(s) == IF InUse(s) /\ HumanIn(s) THEN AddressesOf(slot[s].who) ELSE {NoAddr}

\* The limit, the votes and "ban" always have an address for a human that is in,
\* and a map change always finds one in its userinfo: its own, or one it wrote in
\* a string with no room for its own.  A bot or an empty slot has none, so an
\* address never outlives its client, whatever frees or takes the slot.
AddressWhileIn ==
    \A s \in Slots : {data[s].address, slot[s].ip} \subseteq KnownBy(s)

\* The proxy ignores the commands of a client that has not entered the game,
\* and never those of a human that has: also after a map_restart, where the
\* proxy lost its data and the client did not load again.
CommandsOfPlayersOnly ==
    \A s \in Slots :
        /\ data[s].isConnected => slot[s].state = "active"
        /\ HumanIn(s) /\ slot[s].state = "active" => data[s].isConnected

\* "mute" ends when the player leaves: the next client of the slot, or the bot
\* that takes it, is never muted in its place.
MuteFollowsPlayer ==
    \A s \in Slots : data[s].muted # Nobody => data[s].muted = slot[s].who /\ InUse(s)

\* The welcome message is sent once per connection: it never waits for a human
\* that is in the game, though ClientConnect asks for it before the game accepts
\* the client, and a refused client leaves it set in a free slot.
WelcomeOnce ==
    \A s \in Slots : data[s].welcome /\ HumanIn(s) => slot[s].state = "loading"

Holder(s) == IF InUse(s) THEN slot[s].who ELSE Nobody

\* A passed kick vote is forwarded only when the slot has the address that the
\* voted client had, though it may have changed hands several times since the
\* vote started (Features/Votes.cpp).  The address is all that is compared:
\* KicksOnlyTheVotedOne is what the code does not keep.
KickKeepsAddress ==
    [][kick = NoKick /\ kick' # NoKick =>
         data[vote.slot].address = vote.address]_vars

\* A vote that passed is never canceled while its target is in the slot with the
\* address it had, also when the target left and came back.
KickNotLost ==
    [][/\ vote.stage = "passed"
       /\ RunVote \/ \E s, target \in Slots : CallVote(s, target)
       /\ Holder(vote.slot) = vote.who
       /\ data[vote.slot].address = vote.address
       => kick' # NoKick]_vars

\* A kick vote reaches the address it was called against, and no other, as far
\* as the command buffer.
KicksTheAddress == KickKeepsAddress /\ KickNotLost

\* What docs/features.md says, "A kick vote [...] is canceled when its target
\* leaves before the kick runs", and the code does not do: a client of the same
\* address, or another bot, passes the test of Votes.cpp, and nothing is tested
\* again between the test and the engine's clientkick.
KicksOnlyTheVotedOne ==
    [][RunKick /\ InUse(kick.slot) => slot[kick.slot].who = kick.who]_vars

\* Who the configstrings of the game show in each slot, and the address the proxy
\* has for it.
ShownRoster == [s \in Slots |-> IF s \in shown THEN slot[s].who ELSE Nobody]
KnownAddresses == [s \in Slots |-> data[s].address]

Roster == INSTANCE Roster WITH roster <- ShownRoster, addresses <- KnownAddresses

\* What the players see is a run of the abstract roster: nobody is shown in a
\* slot but by a connection that the bans and the limit let in, as far as the
\* address of its userinfo tells, and the one shown is never replaced without
\* leaving (Module/Main.cpp, Features/Connection.cpp).
ImplementsRoster == Roster!RosterSpec
=============================================================================
