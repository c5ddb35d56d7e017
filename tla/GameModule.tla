----------------------------- MODULE GameModule -----------------------------
(***************************************************************************)
(* The life of the module the engine loads for a map.  The engine opens    *)
(* the proxy (dllEntry), which opens the game's library and stands between *)
(* the two: vmMain one way, the system calls the other.  An error in the   *)
(* game leaves every function at once; the engine then shuts the module    *)
(* down, whatever it had done of its start.                                *)
(*                                                                         *)
(* Two things outlive the module, in the engine: the nodes of the          *)
(* navigation and the buffers of the maps inside a map.  The proxy frees   *)
(* those that the last map left.                                           *)
(*                                                                         *)
(* A system call is its family: which of its arguments are ghoul2          *)
(* instances, and whether they are passed by address.  The engine uses them*)
(* without a test; the proxy tests those of most families, not of all.     *)
(***************************************************************************)
EXTENDS Integers, Sequences, FiniteSets, SequencesExt

CONSTANTS
    MaxMaps,        \* bound: how often the module is loaded
    MaxDepth        \* bound: calls of vmMain inside one another

ModuleConstants == MaxMaps \in Nat /\ MaxDepth \in Nat \ {0}

VARIABLES
    jampded,        \* the engine is the one whose addresses the proxy knows
    windows,        \* PROXY_PLATFORM
    process,        \* "running", or "exited"
    module,         \* how far the module is: see Stages
    isOriginalEngine,
    tables,         \* server: the names of the engine that are set
    hooked,         \* the hooks are in the engine
    trap,           \* proxy.trap: the families it can call
    calls,          \* the calls of vmMain that the game is in, innermost last
    map,            \* how many maps were loaded
    nav,            \* the maps whose nodes the navigation holds
    diskImages,     \* the maps that left a buffer of a sub-BSP
    received,       \* the last system call as the engine received it, or NoCall
    wild            \* an address of the engine was used that was not set

vars == <<jampded, windows, process, module, isOriginalEngine, tables, hooked, trap, calls,
          map, nav, diskImages, received, wild>>
engineVars == <<map, nav, diskImages>>
hostVars == <<jampded, windows>>
proxyVars == <<isOriginalEngine, tables, hooked, trap>>

-----------------------------------------------------------------------------
(* The system calls *)

\* The functions of EngineApi.cpp, each for the calls of its lines.
Plain(of) == [of |-> of, instances |-> {}]
ConsoleCalls == Plain("console")        \* print, cvars, files, configstrings
WorldCalls == Plain("world")            \* traces, entities, user commands
ScriptCalls == Plain("script")          \* ROFF and ICARUS
NavCalls == Plain("nav")
AreaCalls == Plain("areas")             \* BOTLIB, AAS
InputCalls == Plain("input")            \* EA
CharacterCalls == Plain("character")    \* AI: characters, chats
GoalCalls == Plain("goal")              \* AI: goals, moves, weapons; PC

\* The ghoul2 calls, by the arguments that hold an instance.
OneInstance == [of |-> "ghoul2", instances |-> {0}]
CopyInstance == [of |-> "ghoul2", instances |-> {0, 1}]
CopyModel == [of |-> "ghoul2", instances |-> {0, 2}]
Collision == [of |-> "ghoul2", instances |-> {1}]
\* HasGhoul2ModelOnIndex and the two removals take the address of an instance.
ByAddress == [of |-> "ghoul2 address", instances |-> {0}]
\* G_G2_LISTBONES and G_G2_LISTSURFACES take an instance, G_G2_INITGHOUL2MODEL
\* and G_G2_CLEANMODELS the address of one: Syscall has no case for them.
ListInstance == [of |-> "ghoul2 list", instances |-> {0}]
ModelAddress == [of |-> "ghoul2 model", instances |-> {0}]

\* What Init of engine_api fills in: the first half of the table and the second.
PlainFamilies == {ConsoleCalls, WorldCalls, ScriptCalls, NavCalls, AreaCalls,
                  InputCalls, CharacterCalls, GoalCalls}
InstanceFamilies == {OneInstance, CopyInstance, CopyModel, Collision, ByAddress,
                     ListInstance, ModelAddress}
Families == PlainFamilies \cup InstanceFamilies

\* gameImport_t: each function is set or null.
Imports == SUBSET Families

\* A pointer of the game: to nothing, to a null instance, to an instance.
Pointers == {"null", "to null", "valid"}
NoCall == [family |-> Plain("none"), pointers |-> [i \in 0..2 |-> "valid"]]

\* gameImportLegacy_t: what the game can ask for.
GameCalls ==
    {call \in [family : Families, pointers : [0..2 -> Pointers]] :
        \A i \in 0..2 \ call.family.instances : call.pointers[i] = "valid"}

\* gameExportLegacy_t: what the engine asks for, other than GAME_SHUTDOWN.
Commands == {"init", "frame", "client"}

\* What Syscall lets through of an argument it tests: one passed by its address is
\* read through it.
Usable(family, pointer) ==
    IF family = ByAddress THEN pointer = "valid" ELSE pointer # "null"

\* The arguments that the proxy tests before it lets a call through: the cases of
\* Syscall, none for ListInstance and ModelAddress.
Tested(family) ==
    IF family \in {OneInstance, ByAddress} THEN {0}
    ELSE IF family = CopyInstance THEN {0, 1}
    ELSE IF family = CopyModel THEN {0, 2}
    ELSE IF family = Collision THEN {1}
    ELSE {}

-----------------------------------------------------------------------------
(* The engine's own functions and variables *)

\* Those that the module uses of Server.
EngineNames == {"Com_EndRedirect", "Z_TagFree", "svs", "sv_fps"}

\* Those that have an address: the compiler of the Windows one made no function of
\* Com_EndRedirect, and the proxy has its own.
EngineAddresses == IF windows THEN EngineNames \ {"Com_EndRedirect"} ELSE EngineNames
InitializeMemoryLayer == EngineAddresses \cup IF windows THEN {"Com_EndRedirect"} ELSE {}

\* Using some of them: wild if one is not set.
Uses(names) == wild' = (wild \/ ~(names \subseteq tables))

-----------------------------------------------------------------------------
(* Types *)

Stages ==
    {"none",         \* the engine has no module
     "entered",      \* dllEntry
     "opened",       \* the game's library is open
     "bound",        \* it has the system call of the proxy
     "patched",      \* the engine is detected, and patched if it is jampded
     "ready",        \* GAME_INIT was given to the game
     "failed"}       \* an error ended the map: GAME_SHUTDOWN is next

TypeOK ==
    /\ jampded \in BOOLEAN /\ windows \in BOOLEAN /\ process \in {"running", "exited"}
    /\ module \in Stages
    /\ isOriginalEngine \in BOOLEAN /\ tables \subseteq EngineNames /\ hooked \in BOOLEAN
    /\ trap \in Imports
    /\ calls \in Seq(Commands)
    /\ map \in 0..MaxMaps
    /\ nav \subseteq 1..MaxMaps /\ diskImages \subseteq 1..MaxMaps
    /\ wild \in BOOLEAN

Init ==
    /\ jampded \in BOOLEAN /\ windows \in BOOLEAN /\ process = "running" /\ module = "none"
    /\ isOriginalEngine = FALSE /\ tables = {} /\ hooked = FALSE
    /\ trap = {} /\ calls = <<>>
    /\ map = 0 /\ nav = {} /\ diskImages = {}
    /\ received = NoCall /\ wild = FALSE

Running == process = "running"

\* exit() in the middle of the start: the server stops.
Exit ==
    /\ process' = "exited"
    /\ UNCHANGED <<hostVars, module, proxyVars, calls, engineVars, received, wild>>

-----------------------------------------------------------------------------
(* The start *)

\* The engine opens the proxy for a map: its data is new, and dllEntry fills in
\* proxy.trap.
dllEntry ==
    /\ Running /\ module = "none" /\ map < MaxMaps
    /\ module' = "entered" /\ map' = map + 1
    /\ trap' = Families
    /\ isOriginalEngine' = FALSE /\ tables' = {}
    /\ received' = NoCall
    /\ UNCHANGED <<hostVars, process, hooked, calls, nav, diskImages, wild>>

\* GAME_INIT.  The path is too long, or nothing can be opened there.
OpenLibrary ==
    /\ Running /\ module = "entered"
    /\ \/ Exit
       \/ /\ module' = "opened"
          /\ UNCHANGED <<hostVars, process, proxyVars, calls, engineVars, received, wild>>

\* The library has no dllEntry, or no vmMain.
GetOriginalGameApi ==
    /\ Running /\ module = "opened"
    /\ \/ Exit
       \/ /\ module' = "bound"
          /\ UNCHANGED <<hostVars, process, proxyVars, calls, engineVars, received, wild>>

\* The rest of Init before the game's: a hook may fail, which stops the server.
PatchEngine ==
    /\ Running /\ module = "bound"
    /\ \/ /\ jampded
          /\ Exit
       \/ /\ module' = "patched"
          /\ isOriginalEngine' = jampded
          /\ hooked' = jampded
          /\ tables' = IF jampded THEN InitializeMemoryLayer ELSE {}
          /\ UNCHANGED <<hostVars, process, trap, calls, engineVars, received, wild>>

\* Mutant of GameInit: the navigation is not freed.
GameInitKeepsNav ==
    /\ Running /\ module = "patched"
    /\ module' = "ready"
    /\ calls' = <<"init">>
    /\ UNCHANGED <<hostVars, process, proxyVars, map, nav, diskImages, received, wild>>

\* Nav_Free, and the game's GAME_INIT.
GameInit ==
    /\ Running /\ module = "patched"
    /\ module' = "ready"
    /\ nav' = {}
    /\ calls' = <<"init">>
    /\ UNCHANGED <<hostVars, process, proxyVars, map, diskImages, received, wild>>

\* The game loads the navigation of the map: jampded adds to what there is.
NavLoad ==
    /\ Running /\ calls = <<"init">>
    /\ nav' = IF jampded THEN nav \cup {map} ELSE {map}
    /\ UNCHANGED <<hostVars, process, module, proxyVars, calls, map, diskImages,
                   received, wild>>

\* The game loads a map inside the map: jampded keeps the buffer of the file.
LoadSubBsp ==
    /\ Running /\ calls = <<"init">> /\ jampded
    /\ diskImages' = diskImages \cup {map}
    /\ UNCHANGED <<hostVars, process, module, proxyVars, calls, map, nav, received, wild>>

\* Mutant of InitDone: the test of the engine is forgotten.
InitDoneAnyEngine ==
    /\ Running /\ calls = <<"init">>
    /\ calls' = <<>>
    /\ diskImages' = {}
    /\ Uses({"Z_TagFree"})
    /\ UNCHANGED <<hostVars, process, module, proxyVars, map, nav, received>>

\* The game's GAME_INIT returns: Z_TagFree.
InitDone ==
    /\ Running /\ calls = <<"init">>
    /\ calls' = <<>>
    /\ IF isOriginalEngine THEN diskImages' = {} /\ Uses({"Z_TagFree"})
                           ELSE UNCHANGED <<diskImages, wild>>
    /\ UNCHANGED <<hostVars, process, module, proxyVars, map, nav, received>>

-----------------------------------------------------------------------------
(* Frames and calls *)

\* The commands of vmMain that are passed on.  GAME_RUN_FRAME uses the engine's
\* functions first.  The engine calls again from a system call of the game.
vmMain(command) ==
    /\ Running /\ module = "ready"
    /\ command = "frame" => calls = <<>>
    /\ Len(calls) < MaxDepth
    /\ calls' = Append(calls, command)
    /\ Uses(IF command = "frame" /\ isOriginalEngine THEN {"svs", "sv_fps"} ELSE {})
    /\ UNCHANGED <<hostVars, process, module, proxyVars, engineVars, received>>

vmMainReturns ==
    /\ Running /\ calls # <<>> /\ Last(calls) # "init"
    /\ calls' = Front(calls)
    /\ UNCHANGED <<hostVars, process, module, proxyVars, engineVars, received, wild>>

\* A system call of the game, or of the proxy itself, which calls the engine
\* directly.  A call that Syscall answers itself does not reach the engine.
Syscall(family, pointers) ==
    /\ Running /\ calls # <<>>
    /\ \A i \in Tested(family) : Usable(family, pointers[i])
    /\ received' = [family |-> family, pointers |-> pointers]
    /\ UNCHANGED <<hostVars, process, module, proxyVars, calls, engineVars, wild>>

OwnCall(family) ==
    /\ Running /\ module \notin {"none", "failed"}
    /\ family \in trap /\ family.instances = {}
    /\ received' = [family |-> family, pointers |-> NoCall.pointers]
    /\ UNCHANGED <<hostVars, process, module, proxyVars, calls, engineVars, wild>>

\* An error of the game, or of the engine in a call of the game.
Error ==
    /\ Running /\ calls # <<>>
    /\ calls' = <<>>
    /\ module' = "failed"
    /\ UNCHANGED <<hostVars, process, proxyVars, engineVars, received, wild>>

\* GAME_SHUTDOWN: Com_EndRedirect and Detach, the game's, and its library is
\* closed.  Then the engine closes the proxy.
Shutdown ==
    /\ Running /\ module \in {"ready", "failed"} /\ calls = <<>>
    /\ module' = "none"
    /\ trap' = {}
    /\ hooked' = (hooked /\ ~isOriginalEngine)
    /\ Uses(IF isOriginalEngine THEN {"Com_EndRedirect"} ELSE {})
    /\ UNCHANGED <<hostVars, process, isOriginalEngine, tables, calls, engineVars, received>>

Next ==
    \/ dllEntry \/ OpenLibrary \/ GetOriginalGameApi \/ PatchEngine \/ GameInit
    \/ NavLoad \/ LoadSubBsp \/ InitDone
    \/ \E command \in Commands \ {"init"} : vmMain(command)
    \/ vmMainReturns
    \/ \E family \in Families : OwnCall(family)
    \/ \E call \in GameCalls : Syscall(call.family, call.pointers)
    \/ Error \/ Shutdown

Spec == Init /\ [][Next]_vars

-----------------------------------------------------------------------------
(* Properties *)

\* A map runs on its own navigation and nothing of another map is left in memory:
\* also after a map whose start failed half way, as the proxy frees what that one
\* left when the next one starts (Nav_Free in Init, Z_TagFree in InitDone).
NothingLeftOfTheLastMap ==
    calls # <<>> /\ Head(calls) # "init" => nav \subseteq {map} /\ diskImages = {}

\* The addresses "Should only be used when original jampded is used": no function of
\* the engine is called by its address on another engine, or before its address
\* is set, however a map starts or ends; and no hook stays in the engine without
\* the module it jumps to (EngineState.hpp, Init and Shutdown of GameExports.cpp).
OnlyOnItsEngine ==
    /\ ~wild
    /\ hooked => jampded /\ (Running => module # "none")
=============================================================================
