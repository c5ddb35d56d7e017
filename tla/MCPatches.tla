------------------------------ MODULE MCPatches -----------------------------
(***************************************************************************)
(* Instances for TLC of what happens inside the server's process: the hooks*)
(* (Patches) and the life of the game's module (GameModule) over the loads *)
(* of the proxy, and the printing of Com_Printf (Console).  Each is        *)
(* followed by itself: part says which.                                    *)
(***************************************************************************)
EXTENDS Patches, TLC

CONSTANTS
    Printf, SV_ExecuteClientMessage,
    MaxMaps, MaxCalls,
    BufferSize, LineLengths, MaxLines, MaxFrames, FsDebug

VARIABLES
    part,
    jampded, windows, process, module, isOriginalEngine, tables, hooked, trap, calls,
    map, nav, diskImages, received, wild,
    remote, redirected, buffer, used, sent, screen, logging, logfile, file, openingLog,
    printing, lines

moduleVars == <<jampded, windows, process, module, isOriginalEngine, tables, hooked, trap,
                calls, map, nav, diskImages, received, wild>>
consoleVars == <<remote, redirected, buffer, used, sent, screen, logging, logfile, file,
                 openingLog, printing, lines>>

M == INSTANCE GameModule WITH MaxDepth <- MaxCalls
C == INSTANCE Console WITH stack <- printing

ASSUME PartsAssumption == M!ModuleConstants /\ C!ConsoleConstants

MCHookOrder == <<Printf, SV_ExecuteClientMessage>>

\* One of the first states of the parts that are not followed.
Unfollowed ==
    /\ part # "patches" =>
          /\ instructions = [n \in 1..JumpLength |-> CHOOSE i \in D!Instruction : i.kind = "bad"]
          /\ target = CHOOSE a \in Addresses : TRUE
    /\ part # "module" => ~jampded /\ ~windows
    /\ part # "console" => ~logging

MCInit ==
    /\ part \in {"patches", "module", "console"}
    /\ PatchInit /\ M!Init /\ C!Init
    /\ Unfollowed

MCNext ==
    \/ part = "patches" /\ PatchNext /\ UNCHANGED <<part, moduleVars, consoleVars>>
    \/ part = "module" /\ M!Next /\ UNCHANGED <<part, patchVars, consoleVars>>
    \/ part = "console" /\ C!Next /\ UNCHANGED <<part, patchVars, moduleVars>>

MCSpec == MCInit /\ [][MCNext]_<<part, patchVars, moduleVars, consoleVars>>

-----------------------------------------------------------------------------
\* A map runs on its own navigation, and nothing of another one is left (Init of
\* GameExports.cpp).
NothingLeftOfTheLastMap == M!NothingLeftOfTheLastMap

\* The addresses of the engine are used on it alone, once set (EngineState.hpp).
OnlyOnItsEngine == M!OnlyOnItsEngine

\* An rcon command is answered with its lines, each once, and the log holds those of
\* the console (Com_Printf, Shutdown).
LinesArrive == C!LinesArrive

\* "Avoid recursing in the qconsole.log opening (i.e. if fs_debug is on)"
\* (Com_Printf of Engine/Hooks/qcommon/files.cpp).
NoRecursion == C!NoRecursion
=============================================================================
