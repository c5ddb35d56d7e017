# A verification of JKA_YBEProxy

JKA_YBEProxy sits between the dedicated server engine of Jedi Academy and its
game module.  The engine loads it in place of the game (`vmMain`), it loads the
real game module, passes the calls both ways, and on the original engine it also
replaces functions of the engine in memory.  All of it runs on one thread; what
makes it hard is what happens *between* two calls: slots change hands, packets
are lost, clocks wrap, commands wait in a queue, and every map change unloads the
proxy while the engine and its clients go on.

This directory holds TLA+ modules of the proxy's own logic, the TLC
configurations that check them on small instances, and proofs checked by TLAPS
for every value of the constants.  Paths below are relative to
`src/src/JKA_YBEProxy/` unless they start with `docs/` or `src/`, which are
relative to `src/`.

## The system

| part | state it keeps | operations | what is hard |
|---|---|---|---|
| Module entry, client slots (`Module/Main.cpp`, `Module/GameExports.cpp`, `Features/Connection.cpp`) | `ClientData` per slot: address, connected, welcome, mute; beside it the engine's `client_t` and the game's `CS_PLAYERS` | connect, begin, disconnect, userinfo change, client command, map change | three programs each have an opinion of who is in a slot; the proxy's opinion restarts from zero at each map |
| Kick votes (`Features/Votes.cpp`) | the address of each slot when the vote began | call of a vote, the queued `clientkick` | seconds pass between the vote and the kick, the slot may have another owner |
| Client protocol (`Engine/Hooks/server/sv_client.cpp`) | engine `client_t`: state, gamestates, download, commands | messages of the client, gamestate, download, pure check, `map_restart` | packets lost while the map changes |
| Connectionless packets (`Engine/RateLimit.cpp`, `Engine/Hooks/server/sv_main.cpp`) | one bucket per address, two global ones | filter of each packet | a 32-bit clock that wraps, a bounded table under flood |
| Challenges (`Engine/Challenge.cpp`) | a key, kept in a cvar; the engine's table | getchallenge, connect | stateless, over map changes; the table is full |
| IP bans (`Features/Bans.cpp`) | list in memory, file, `g_banIPs` | addip, removeip, ban, unban, load | two spellings of the same ban, holes, a write that fails |
| Hooks (`HookUtils/`, `Engine/Patches.cpp`) | the code of the engine, trampolines, the stub of `SV_PacketEvent` | attach, detach, at each map | unloading from inside a hooked function; moving instructions |
| Reload before a wrap (`Engine/Restart.cpp`) | one flag | `BeforeWrap` in every game frame | two counters, one limit in the engine that stops the server for good |
| Names and userinfo (`Features/Userinfo.cpp`, `src/src/sdk/server/sv_client.cpp`) | the name kept per slot | `Sanitize`, `UniqueName`, the limit on userinfo commands | names made unique again at each map change, in any order |
| Rates (`Engine/Rate.cpp`, `Features/Cvars.cpp`) | copies of settings, refreshed once a second | `Apply`, `SettingsChanged`, `SV_RateMsec` | some settings are read live, some from the copy |
| Pings (`Engine/NetStatus.cpp`, `sv_snapshot.cpp`, `sv_main.cpp`) | rings of sent and acknowledged messages | message sent, move received, `SV_CalcPings` | a signed clock that wraps, settings changed midway |
| Client commands and chat (`Features/ClientCommands.cpp`, `Features/Chat.cpp`) | mutes; the arguments and the chat flag of the command being run | refuse, answer, replace, forward | static data that stands while the game runs, which may drop clients or never return |
| The module's life (`Module/GameLibrary.cpp`, `GameImports.cpp`, `EngineApi.cpp`, `Engine/EngineState.cpp`) | the library, the table of wrappers, the addresses of one engine | open, init, shutdown, each system call | a start that fails half way; data of the last map; two interfaces of calls |
| Parsing (`Engine/Hooks/qcommon/msg.cpp`, `cmd.cpp`) | the read position; the words | `MSG_ReadBits`, `Cmd_TokenizeString2`, `Cmd_ArgsFrom` | ends of buffers |
| Console (`Engine/Hooks/qcommon/common.cpp`, `files.cpp`) | redirection, log file | `Com_Printf`, the redirection's begin and end | it calls itself; the proxy is unloaded in the middle of a redirection |
| Entity lookup (`Engine/Hooks/server/sv_game.cpp`) | none | number and address of an entity | the game writes the memory it is read from |

The parts interact by calls on one thread and by the engine's data: connect goes
through the filter (RateLimit), the challenge table (Challenge), the bans and the
limit per address, then Sanitize and UniqueName, and only then reaches the game
(ClientSlots).  A map change goes through all of them: the hooks are detached,
the module unloaded, and each part must find again what it had.  `PROJECT.json`
lists every component with what is left out of it, and every hazard with the
line where it bites and the properties that would show it.

## The modules

Each module header says what it abstracts.  Each definition that stands for code
is mapped in `PROJECT.json` (`map`) to its lines, or marked external: the engine,
the game module and the stock client are not in the repository and are modelled
as the code uses them.

* **ClientSlots** - the slots as engine (`slot`), proxy (`data`) and game
  (`shown`) see them.  `Connect`, `Begin`, `Leave`, `ZombieTimeout`, `AddBot`,
  `UpdateUserinfo`, `MapChange` are the engine's calls with the proxy's whole
  part of them; `CallVote`, `CloseVote`, `RunVote`, `RunKick` are the kick votes;
  `Mute`, `EditBans`, `SetLimit` the administrator.  It implements **Roster**, an
  abstract specification of who is on the server and at which address:
  `Roster == INSTANCE Roster WITH roster <- ShownRoster, addresses <- KnownAddresses`.
  `Written` gives each human the addresses it may be known by instead of its own,
  as InfoString finds them (see *Findings*, `names_ip`).
* **ClientProtocol** - one client, the server and a lossy channel.
  `ReceiveClientMessage` is `SV_ExecuteClientMessage` with all it calls
  (gamestate resent or not, commands, then the move); `SendClientMessage` the
  gamestates, downloads and snapshots; `MapChange` and `MapRestart` the engine's,
  with the patch of `InlinePatches`.
* **RateLimit** - `Limit`, `BucketForAddress` with its collector, and the three
  kinds of requests, over a clock that wraps.  `watch` is an observer that starts
  anywhere and watches one bucket.
* **Challenge** - `Answer`, `Admit`, `Verify`, `LoadKey`, map changes and
  `killserver`; the observer follows one challenge.
* **Bans** - the list with its holes, the file, the import, the commands.
  MCCommands takes it through MCBans, an instance, so that its proofs can stand
  beside Challenge's.
* **Hooks** - attach and detach of every hook over several loads of the proxy,
  with the stack of the packet code.  **Detour** - how one hook is built,
  instruction by instruction.  **Patches** - composes them: the first attachment
  of the first load is followed through `Detour`, whose outcome decides whether
  `Hooks` goes on or the server stops.
* **Restart** - one turn of `Com_Frame` around `BeforeWrap`.
* **Names** - `UniqueName` and `Sanitize` over connections and map changes.
  `Cleaning` is what `Proxy_ClientCleanName` makes of a name it has cleaned
  before: it is run again on the same name at each map change, and leaves most
  names, not all, as they are.
  **CleanName**, **ForcePowers**, **InfoFlood** - the cleaning of a name, the
  check of `forcepowers`, and the limit on userinfo commands.  **Userinfo**
  composes the three in the order in which a client meets them.  **InfoString** -
  the string of keys and values itself: what the engine reads of it after the
  proxy has set "ip", "name" and "model" in a string the client filled.
* **Rates** - the settings, their copies, and what each player gets.
* **Pings** - the engine's ring of frames and the proxy's estimates, each entry
  with a note of the message and clock it came from (used by properties only).
  **Timenudge** - the windows of a second and the median of three, where the
  average of a window is any number.  **ClientTime** - `SimulateClient`, with the
  client's own constants and fewer snapshots.  **NetRates** - the packets,
  snapshots and bytes of the last second.  **Pages** - the cut of `/netStatus` and `/proxyconfig` into
  commands.
* **ClientCommands** - the check of a command (`Allowed`), the answers, and the
  time during which the game runs it: `Forward` sets the replaced arguments and
  the chat flag, `ChangeTeam` and `Overflow` are what the game does meanwhile,
  `ClientCommandDone` or `Error` end it.
* **GameModule** - the start of a map step by step (`OpenLibrary` to `InitDone`)
  with a failure at each, `Shutdown` and `Error`, on two engines and two systems,
  and `Syscall` for every family of calls: which arguments are ghoul2 instances,
  and whether the proxy tests them (`Tested`).  No property speaks of the calls:
  it would compare two constants.
* **Console** - `Com_Printf` as a stack of its own calls, under rcon commands
  that change the map; `used` is what the buffer of a redirection holds.
* **MessageBits**, **Tokens** - the two parsers, one read and one character at a
  step.  **Entities** - link and unlink of the engine (external) around the
  proxy's lookup, while the game writes the numbers.
* **Arithmetic** - facts on numbers that proofs share, and induction.

`MC*.tla` give the constants their values for TLC.  Operators introduced by
"Mutant of ..." are plausible bugs of a definition; replacing the definition by
one of them must violate the property it is listed with in `PROJECT.json`.

Parts that do not share state are checked by one run: `MCNames`, `MCPatches`,
`MCPings`, `MCRestart`, `MCClientProtocol` and `MCCommands` hold a variable
`part` that says which part a behaviour follows while the others keep their first state.  The states of
such a run are the sum, not the product, of those of its parts.

## What the runs show

Each module has one type invariant, `TypeOK`.  It holds within the bounds of each
run and is proved for the modules that have proofs, but is no property of a run.

**slots** (2 slots, 2 humans of whom the second may be known by the address of
the first, 1 bot, limit 0 or 1).  A slot changes hands in every way that matters:
the same player, one of the same address, another one, a bot.
`AddressWhileIn`: while a human is in, the proxy and the userinfo hold an address
that it may be known by, and none outlives its player.  `CommandsOfPlayersOnly`:
the game runs no command of a slot without a player that has begun.
`MuteFollowsPlayer`: a mute never passes to the next owner.  `WelcomeOnce`.
`KicksTheAddress`: a kick that passed is forwarded exactly when the slot has the
voted address.  `ImplementsRoster`: nobody is shown but who got in by the rules.
**slots_kick** shows that the address is all that is compared
(`KicksOnlyTheVotedOne`), see *Findings*.

**protocol** (3 map changes or restarts, 2 packets lost, 1 typed command, a file
of one block).  `InTheWorldWithItsMap`: nobody enters the world with another
map's gamestate.  `OnlyLeavesByItself`: a stock client is never dropped by the
protocol.  `EntersTheMapOnce`: every client that stays ends in the world of the
last map, but in two cases it names, and gets no gamestate it does not need.
Three maps are needed for "the map before the restart, of the map before".
Beside it the challenges (2 clients, 2 keys, a table of 2, timestamps of 2 over 5
units).  `Window`: a challenge is good for one timestamp and less than two across
map changes.  `OneEntryUntilOldest`: a client that retries keeps its one entry,
which only answers made, until it is the oldest.
**protocol_nextdl** is the counterexample of the stronger claim of the
documentation (`AlwaysEntersTheMap`), see *Findings*.

**patches** follows three parts.  The hooks: 3 loads, two hooks and the packet
filter, 4 frames, any hook failing to detach; a jump of 3 bytes, instructions of
1, 2 and 5, 16 addresses, so that relative operands wrap.  Three loads, so that a
second one starts from what a first left.  `CodeIsThere` (every jump and every
frame leads to code that is there; the engine is given back as it was),
`SameDestinations`.  The module: 3 maps, 2 calls deep, both engines.
`NothingLeftOfTheLastMap`, `OnlyOnItsEngine`.  The console: 5
lines of 1, 3 and 4 characters, a buffer of 4, which one or two lines fill.
`LinesArrive`: each line reaches the one who waits for it once, and the log holds
all from the line that opened it.  **console_log** is the same with `fs_debug`
on, see *Findings*.

**restart** follows three parts.  The reload (2 clients of 2 entities, a ring of 8,
the smallest that the assumption allows).  `KeepsRunning`: the engine never
reaches its limit, a request is pending whenever one is due, and players are
dropped for the end of the time only.  The limits (2 addresses, a table of 1,
burst 2, period 3, a clock of 18 that wraps).  The table is smaller than the
number of addresses, so that it is full; the run starts 5 before the wrap.
`RateBound`: a bucket lets through no more than its rate.  `FloodHarmsNoOther`: an
address that waits its turn has it, and the table keeps the addresses of a flood
no longer than a collection.  The rates (one player; negative, zero and positive
settings, an update every second frame, any number of changes between two):
`ShownRateIsUsed`, `SettingsReachThePlayers`.  The settings are global and `Apply`
reads one client, so one player is enough.  **restart_fps** shows what the latter
leaves out (`AppliesWithinASecond`), see *Findings*.

**names** follows three parts.  The names: 3 slots, bots, a plain name "Bob" and
"* *Bob[1]", which must be cut to take a number, and which the second cleaning
turns into one that differs from a numbered "Bob" by its color only; three slots
are needed for a second number.  `NoSharedNames`, `NamesTakenAndKept`.  The
characters: names of up to 5 characters of 7 classes cut at 4; forcepowers of up
to 9 characters, lengths scaled to 6 and 7; three windows of the limit.
`SomethingToShow`, `KeptExactlyReadable`, `ChangesAtTheirRate`.  Every place of a
separator, one less and one more than each limit are within the bounds.  The
string: up to 4 pairs in a string of 12, so that a key finds no room and may be
there three times.  `ReadAsSet`.  **names_ip** shows that the address may be the
client's own (`IpOfTheConnection`), see *Findings*.

**pings** follows five parts.  Pings: rings of 2 messages and 3 round trips, 3
messages, so that one overwrites a slot; one scenario is early and long, the
others start just before the clock reads -1 and 0, or wraps.  `PingsAreDelays`.
Timenudge: windows of 2 samples, three packets, estimates of 3 values: enough for
a median of three and its start again.  `TimenudgeAsShown`, which also says of
ClientTime (intervals from 1 ms to past the longest one accepted, frames of 4 to
100 ms, two phases of 40 snapshots, of which the last 30 are measured) that the
simulated client settles where a client does.  NetRates: rings of 3, a second of 3, snapshots each 1, 2 or 4: more, as many, and fewer
than the ring holds.  `LastSecondAsItWas`.  Pages: lines of 1 to 9 in pages of 4.
`EveryCharacterOnce`.

**commands** follows five parts.  The commands: 3 slots of which 2 can be taken,
3 names of which two differ by color, and for each check a word on both sides of
it.  `ArgumentsAsMeant`: what the game reads is the client's, or what was put
there for this command, and inside its tables.  `SpectatorsAmongThemselves`.  The
bits: messages of 0, 1, 3 and 6 bytes, signed and odd widths, symbols of up to 11
bits.  `ReadsEndWithTheMessage`.  The words: 7 characters in a buffer of 4,
2 words: one more than the buffer and the words would hold.  `TokensFit`.  The
entities: 3, of 1 or 2 units of memory, as the game's and the engine's sizes differ.  `WorldIsWhatWasLinked`.  The bans (octets 0
and 1, two places, a list of 2, files of 0 or 3 lines): 0 is both a value and the
old wildcard; 3 lines do not fit a list of 2.  `BannedOnce`, `FileIsList`;
`BansAsSpelled`: a map change keeps the bans, and a ban is the one that was typed.

Deadlock is checked but in `patches` and `console_log` (the server stops when a
hook fails), `pings`, `names`, `names_ip`, `restart`, `restart_fps` and
`commands`: there a part ends, all messages sent or the text read.

### Fairness

Only `EntersTheMapOnce` needs it.  `FairSpec` (in MCClientProtocol) assumes that
both sides send (`SV_SendClientMessages` each frame, the client's packets each of
its own), that a packet that is not lost arrives, and that a map being loaded is
loaded at last.  The number of losses is bounded; nobody has to type, to give up
a download, or to change the map.

## What is proved

Every theorem below holds for all values of the constants that the named
assumptions of its module allow.  `tlapm <module>.tla` checks them.

* **ClientSlotsProofs** - types, the five invariants of the slots (`AddressWhileIn`,
  `MuteFollowsPlayer`, `WelcomeOnce`, `NoGhostPlayer` and
  `CommandsOfPlayersOnly`), both vote properties and their conjunction
  (`KicksReachTheAddress`), and
  `RosterImplemented`: every step of ClientSlots is a Roster step or a stutter.
  No invariant is inductive alone: `SlotAgrees(s)` says all that engine, proxy
  and game know of one slot; an engine call touches one slot (`OneSlotStep`), a
  map change rewrites all.  Whatever the clients write in their userinfos:
  `Written` is free.  Assumed: the sets of clients are disjoint, the slots finite.
* **RateLimitProofs** - `RateBounded` by `Account` (what was let through is paid
  by the burst, the time, and what the bucket still owes); `NeverStarvedHolds` by
  `Aged` (no time in a bucket is a turn of the clock old) and `Timely`;
  `TableRecent` by `Recent`; the last two are `FloodsHarmNoOther`.
  Assumed: one load of the proxy is shorter than a
  turn of the clock, which `Restart` is there for.
  The reload: `ServerNeverStops`, `PlayersStay`, `ARequestIsPending`, and
  the three as `ServerKeepsRunning`.  The invariant adds to `NeverStops` that a
  request was made exactly when a command waits in the queue, and that below the
  thresholds one turn of the engine cannot reach the limit (`BelowThresholds`).
  Assumed: a dedicated server, with two snapshots of 256 entities per client at
  least; no `wait` before the proxy's command; the map file still on the disk.
  The rates: `ShownRatesAreUsed` and `SettingsReachPlayers`, for settings changed
  any number of times: the snaps of a player are those that the settings promise
  for some `sv_fps`, as it is read live, and the present one when the update finds
  a setting changed.
* **AdmissionProofs** - what a client must have to connect.  Challenges:
  `WindowHolds` by `Followed` (the key in use is the one of the cvar, and the
  challenge followed was made with it), `OldestLeavesFirst` by `Queued` (the
  followed entry is there with its time, or no entry is older),
  `RetriesShareAnEntry`, `EntriesAnswered`; the three are `EntriesKept`.  Bans:
  `BansAreOnce`, `FileKeepsTheBans` and `BansAreAsSpelled`, by `BansInv` (the list
  is one of `GoodLists`, without twins and within its size).  `FilterAdded` says
  what `AddIP` makes of such a list: one ban more, or the list is full and without
  a hole.  `ListGrows` carries it over the lines of a file, `LinesRead` says that
  the lines written read back as the bans, holes or not, and `RoomForAll` that a
  list that is full has them all when they fit: its filters are as many and all
  different.  Assumed: 0 is an octet, the wildcard is none.
  The protocol of a client that was let in: `OnlyWithItsMap`, `NeverDropped` and
  `NoGamestateTwice` (the safety half of `EntersTheMapOnce`), for any number of
  maps, losses and blocks, with or without the pure check.  Neither invariant is
  inductive alone, as each depends on commands that are still on their way.  The
  proof gives the client a text T, all that it has ever said (no variable holds
  it: TLC checks the properties, and not this invariant).  A stock client
  speaks in an order (`Grammar`: the blocks one by one, `donedl` after them, the
  checksums before its play), and what it keeps, what a packet carries and what
  the server has run are places in T (`Counts`).  So the state of the server
  follows from the last command it has run (`Follows`), and that of the client
  from the last it said (`ClientGoesOn`).  Then the two are related: whose map a
  packet is of (`Maps`, `Answers`), the block awaited by one and offered by the
  other (`Downloads`, `SaidSince`), and the checksums (`Checksums`, `Moves`): a
  move is in a packet with, or after, the checksums that the server wants.
  `CommandFollows` runs one command, `AllSaid` the commands of a packet, of which
  those that were run before are skipped.
* **NamesProofs** - `UniqueNameIsFree`: the name returned is legal and free, by a
  pigeonhole on the numbers (n slots cannot use n numbers of the others) and the
  least number; then `NoSharedNames` with `EveryoneIsNamed`, and
  `NamesAreTakenAndKept`.  For the map change, `KeptInv`: the clients still to
  connect all show the names of their userinfos or none does yet, the others show
  theirs, and without bots no two userinfos have the same name (`OwnKeys`), so that
  `UniqueName` finds each one free, whatever the order.  `Cleaning` is any function
  on names; `unclean` tells the map changes that find a name it changes, during which
  the names of the userinfos may meet until everyone has connected again.
  `NamesShow` by `CleanInv`: the count that goes up and down while a name is
  copied is the number of characters that show of what is copied so far.
  `ReadablePowersAreKept` by `PowersInv`: the places of the separators read so far
  (`NoneRead`, `OneRead`, `TwoRead`, `TooManyRead`), and a value once refused
  cannot be read.  `ChangesComeAtTheirRate` by `FloodInv`: each change
  accepted is given the one that opened its window; a window takes `MaxCount`
  changes and opens no sooner than `Interval` after the last, and the code's two
  variables are the window in use (`Windows`, `InUseWindow`).
  `StringsReadAsSet` by `InfoInv`, with lemmas on what `Info_SetValueForKey`
  removes and leaves of a key that is there many times, in two spellings, and on
  the room there is: a string that was checked has one "ip" (`ValidatedOneIp`), in
  one spelling (`OneSpelling`), so that what is read after a set is what was set,
  or an address under the other spelling (`SetPairs`, `SetSpelling`, `IpRead`).
* **ClientCommandsProofs** - `ArgumentsHold` and `SpectatorsKeepTheirChat`.  The
  invariant `CommandsInv` adds to the types that nobody is in a slot that cannot
  be taken (`OnlyTakenSlots`), that what was checked of a command holds until it
  is done (`Checked`), that the arguments are those of the vote being run or of a
  kick of a slot (`Replaced`), and what the chat flag says of the command
  (`ChatOfTheCommand`): the properties alone say nothing of a flag that is on
  while no command runs.  The kick by name rests on `FoundByName`, the least slot
  of a name.  Assumed: a name is shorter than a cvar, the words of a command hold
  integers, the server has no more slots than `MAX_CLIENTS`.  Of the other parts
  of that run: `WorldIsTheGames` for entities of any two sizes, `MessagesEnd` for
  messages of any size and values of up to 32 bits (they are ints), `WordsFit` for
  every size of the buffer and number of words.
* **PatchesProofs** - the process of the server.  `CodeIsAlwaysThere` by
  `HooksInv`, which says of each hook what the code of the engine, its trampoline
  and the stack must be at once, for any order of hooks and number of loads;
  `ImplementsHooks`: the hooks with their first attachment step by step implement
  the hooks alone.  `TrampolineLeadsBack` and `CopiedBytesAreEnough` by
  `DetourInv`, over addresses that wrap; assumed: a jump is no longer than the
  longest instruction (5 and 15 bytes).  `MapsStartClean` and
  `AddressesOfTheirEngine` by `ModuleInv`; `LinesAlwaysArrive` by `ConsoleInv`,
  which follows the characters in the buffer (`used`) against the lines sent and
  those waiting, each set in its order (lemmas on sorted sequences).
* **Arithmetic** - the facts the others share: remainders and products, the least
  number of a set, and two forms of induction that the provers accept because
  they speak of sets: `Induction` (a set with 0 and the successor of each member
  holds Nat) and `Iterated` (a number of steps, each from the last, has a
  sequence of results).  Recursive functions of the models are proved about with
  these: the function is shown to be the one `Iterated` gives, then followed by
  `Induction`.

* **PingsProofs** - what is measured of a client and shown.  `PingsShownAreDelays`
  by `Inv` (`SlotsAreOfTheirMessages`).  A difference of two readings of the clock
  is the one of the times they are of, though it turned between them, when it fits
  (`Difference`).  Then a slot holds the times of its own message (`FramesInv`);
  the ping is the mean of their delays, and between the smallest and the largest
  (`TotalBetween`, by induction on the slots).  For the net ping, the round trips
  are in their ring in the order of their messages (`EstimateInv`), and in the
  first days one leaves it for newer ones only (`RingInv`): so none of the window
  is missing when it ends, if the ring has room for the messages that were
  acknowledged in it (`RingHoldsWindow`), and the next packet a second after one
  ends the window (`WindowInv`).
  `TimenudgeIsOfRecentWindows`: the history is that of the last estimates, from its
  start or around its index (`MedianInv`); and of the simulated client (`ClientInv`)
  the delta stays between 6 ms more than the interval and 5 ms behind the time of
  the server, as it goes back only after an extrapolation and forward only without
  one.  With the longest interval accepted, 94 ms, its distance to the new delta is
  100 ms at most: the bound of the code cannot be higher.
  `LastSecondIsAsItWas` by `RatesInv`.  The ring of the packets holds the last
  ones, the newest before the place of the next (`PacketsInv`); time does not go
  back, so those of the last second come first and the walk stops behind them
  (`CountsPackets`), and its sum is the one over what came (`SameSums`).  The time
  of a message follows from its number (`SnapshotsInv`); so those shown are the
  last c (`ShownAre`), they span c - 1 intervals (`SpanOfShown`), and the quotient
  is rounded as that of one interval (`RoundScaled`).  The bytes are between c
  times the smallest and the largest size (`BytesBetween`).  When only one message
  is left, the interval is more than half a second, and 1 is its rate rounded down
  (`OnlyMessage`).  Assumed: the ring of the messages holds two or more (32).
  `TextsArriveWhole` by `PagesInv`; assumed: a page and what it is put between fit
  in a command (1011 and 7, 999 and 8, of 1022).

Some components are proved about through their MC module, which holds several or
gives one without the names that another module has: MCBans, MCClientProtocol,
MCRestart, MCNames, MCPings, MCPatches and MCCommands state the properties as the
runs check them, with every constant still free.

Model-checked only:

* liveness: the half of `EntersTheMapOnce` that says that the client enters the
  map, which the provers do not reach.

Every invariant and every action property of the passing runs is a theorem.

## Findings

`protocol_nextdl` - `SV_ExecuteClientMessage` lets a message of another map pass
when the client's last command holds "nextdl" *anywhere*
(`Engine/Hooks/server/sv_client.cpp:256`).  A player who typed that word in the
chat is never sent the gamestate of the next map: it stays connected, out of the
world, until it sends another command.

`console_log` - with `fs_debug` on, opening `qconsole.log` prints, and the nested
`Com_Printf` clears `opening_qconsole` when it returns
(`Engine/Hooks/qcommon/files.cpp:104`), which the outer call set so as not to
recurse (comment at line 65).  When the file cannot be opened, the failure is
printed before `logfile` is set to 0, and opens it again, which fails, and so on.

`slots_kick` - a kick vote is to be canceled "when its target leaves before the
kick runs" (`docs/features.md:284`).  `Features/Votes.cpp:38` compares addresses,
when the game hands the `clientkick` to the engine: a human of the same address,
or a bot in the slot of a bot (both have an empty address), is kicked in the place
of the one that left, and so is whoever takes the slot while the command waits in
the engine's buffer.

`names_ip` - the key "ip" is to be "set again from the address of the connection
at every userinfo change" (`docs/features.md:311`).  The length that the string
will have is counted with the value that is read, without case
(`Engine/Hooks/server/sv_client.cpp:485`), while the set removes the key by its
exact spelling.  A client that spells it "IP", in a string too long for both,
passes the count; the set finds no room and leaves the client's own address.

`restart_fps` - a change of `sv_fps` is to apply "within a second"
(`docs/features.md:77`).  `Features/Cvars.cpp:148` compares the settings with those
of a second ago, while `Engine/Rate.cpp:34` reads `sv_fps` live at each userinfo:
changed and changed back in between, with a userinfo of a client in the middle, it
leaves that client with the snapshots of a value that is no longer set.

### Differences with the documentation

Met while modelling; the modules follow the code.

| code | what it does | what the documentation says |
|---|---|---|
| `Engine/Challenge.cpp:171` | the entry of a client that waits and retries is not refreshed | `docs/features.md:379` |
| `Features/Bans.cpp:216` | a removal also matches the old spelling, 0 as a wildcard | `docs/features.md:230` |
| `Features/Bans.cpp:322` | `g_banIPs` is emptied even if the write fails or the list is full | `docs/features.md:232` |
| `Engine/Patches.cpp:153,190` | a hook that cannot be detached leaves a jump to the unloaded proxy and the released stub | `Engine/Patches.cpp:144`, its comments |
| `src/src/sdk/server/sv_client.cpp:25,36` | spaces behind leading asterisks stay; control characters split a run of spaces | `docs/features.md:303,305` |
| `Features/Userinfo.cpp:267`, `Module/GameExports.cpp:163` | the name of a refused connection stays for a bot that takes the slot, in the console | - |
| `Engine/Hooks/server/sv_client.cpp:147` | an acknowledgement writes the slot of the ring without asking which message it holds | `docs/features.md:33,178` |
| `Engine/NetStatus.cpp:294,416` | windows start from 0, above a clock that is negative after 24.8 days | - |
| `Engine/NetStatus.cpp:247` | 64 round trips are less than 4 s above 16 acknowledgements a second | `docs/features.md` |
| `Features/Userinfo.cpp:267` | the name is cleaned again at each map change, which alters some: "* *Bob" is shown as " *Bob", then as "Bob" | `docs/features.md:303` |
| `Module/GameImports.cpp:142` | four ghoul2 calls (`G_G2_LISTBONES`, `G_G2_LISTSURFACES`, `G_G2_INITGHOUL2MODEL`, `G_G2_CLEANMODELS`) go to the engine with a null instance | `docs/features.md:348` |

For these the properties name the case they leave out: `NoDanglingJump` and its
neighbours speak of hooks that were detached, `NetPing...` of the first 24.8
days, as NetRates and Timenudge do; `MapChangeKeepsBans` of an import that fits,
`PingAmongDelays` of the slots that hold their own acknowledgement,
`NamesSurviveMapChange` of names that the second cleaning leaves,
`LogKeepsUp` of servers without `fs_debug`.

## What is not modelled

* The text of messages and prints, the columns of the table of `/netStatus`, the
  announcement of a changed setting.
* The bytes of `InlinePatches`: the same ones at each load, one write in
  GameModule.  A failed release of memory: it only leaks.  The 64-bit
  `OutOfRange`: the hooks are 32-bit.
* The floating point averages by which a window becomes a timenudge
  (`Estimates` are free).  NetRates rounds the fractions themselves, not their
  values of 24 bits.
* The addresses themselves, and what each of the system calls does; GameModule
  has their families.
* `Com_WriteConfigToFile`, the server's own console commands: input and output.
* `SV_WriteDownloadToClient`'s list of referenced files, `sv_floodProtect`, the
  ring of reliable commands.
* Bans files larger than the read buffer.
* The engine's and the game's own code; OpenJK builds, where the engine hooks are
  off.

Limits worth knowing: one client in ClientProtocol and Pings; the hash of
Challenge is perfect; acknowledgements never go back (netchan drops old packets);
bots may share a name in Names.

## Plan

Done in this order, the most important first: client slots and votes, the client
protocol, limits and challenges, bans, hooks, the reload, names, pings, rates;
then client commands and chat, the module's life and its calls, the console, the
userinfo string, parsing, entities, the timenudge and the rates of the last
second; then the proofs of all of them.  Next: `usercmd`s, `sv_floodProtect` and
the ring of reliable commands in ClientProtocol; two clients in Pings.
