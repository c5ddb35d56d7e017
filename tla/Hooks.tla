------------------------------- MODULE Hooks --------------------------------
(***************************************************************************)
(* The hooks of the proxy over the life of the server process: GAME_INIT   *)
(* attaches them and GAME_SHUTDOWN detaches them (Engine/Patches.cpp,      *)
(* HookUtils.cpp), the engine then unloads the proxy, and the next map     *)
(* loads it again, with its statics as new.  The code of the engine and    *)
(* the memory that was allocated outlive each load.                        *)
(*                                                                         *)
(* The call stack is kept while the hooks are in place.  A map may be      *)
(* changed by the console (no packet on the stack) or by rcon, from inside *)
(* the packet code: the stack then lives through the change of map and the *)
(* frames on it return after it.                                           *)
(*                                                                         *)
(* What a trampoline holds byte by byte is in the module Detour.           *)
(***************************************************************************)
EXTENDS Naturals, Sequences

CONSTANTS
    HookOrder,      \* hookEntries, in their order
    Packet,         \* packetEventHookEntry: SV_PacketEvent
    DetachMayFail,  \* whether the code can fail to become writable at GAME_SHUTDOWN
    MaxLoads,       \* bound: loads of the proxy
    MaxDepth        \* bound: frames on the stack

Hooked == {HookOrder[i] : i \in DOMAIN HookOrder}

ASSUME HooksAssumption ==
    /\ HookOrder \in Seq(Hooked) /\ Packet \notin Hooked
    /\ \A i, j \in DOMAIN HookOrder : HookOrder[i] = HookOrder[j] => i = j
    /\ DetachMayFail \in BOOLEAN
    /\ MaxLoads \in Nat \ {0} /\ MaxDepth \in Nat \ {0}

Hooks == Hooked \cup {Packet}
\* Attach and Detach: the hooks of the list, then SV_PacketEvent.
Order == Append(HookOrder, Packet)

VARIABLES
    phase,      \* of the proxy: "out", "attaching", "ready", "detaching", "detached", "exited"
    load,       \* number of the last load of the proxy
    done,       \* hooks attached or detached so far in this phase
    code,       \* what each engine function starts with
    memory,     \* the blocks allocated and what they hold
    hook,       \* HookBase, statics of the proxy
    stub,       \* packetEventFilterStub
    stack,      \* the frames of the packet code, the last one on top
    stuck       \* history: the hooks that could not be detached

vars == <<phase, load, done, code, memory, hook, stub, stack, stuck>>

-----------------------------------------------------------------------------
(* Code: the engine's own instructions, or a jump *)

Engine == [in |-> "engine", load |-> 0, of |-> Packet]
InProxy(h, n) == [in |-> "proxy", load |-> n, of |-> h]
Trampoline(h, n) == [in |-> "trampoline", load |-> n, of |-> h]
Stub(n) == [in |-> "stub", load |-> n, of |-> Packet]
Nowhere == [in |-> "nowhere", load |-> 0, of |-> Packet]

Loads == 1..MaxLoads
Blocks == {Trampoline(h, n) : h \in Hooks, n \in Loads} \cup {Stub(n) : n \in Loads}
Places == {Engine} \cup Blocks \cup {InProxy(h, n) : h \in Hooks, n \in Loads}

Unattached == [trampoline |-> Nowhere, saved |-> Engine]

TypeOK ==
    /\ phase \in {"out", "attaching", "ready", "detaching", "detached", "exited"}
    /\ load \in 0..MaxLoads
    /\ done \in 0..Len(Order)
    /\ code \in [Hooks -> Places]
    /\ DOMAIN memory \subseteq Blocks
    /\ \A b \in DOMAIN memory : memory[b] \in Places
    /\ hook \in [Hooks -> [trampoline : Blocks \cup {Nowhere}, saved : Places]]
    /\ stub \in Blocks \cup {Nowhere}
    /\ stack \in Seq([function : Hooks, at : Places])
    /\ stuck \subseteq Hooks

-----------------------------------------------------------------------------
(* Operators *)

Alloc(blocks, b, held) == [x \in DOMAIN blocks \cup {b} |-> IF x = b THEN held ELSE blocks[x]]
Free(blocks, b) == [x \in DOMAIN blocks \ {b} |-> blocks[x]]

Frame(h, where) == [function |-> h, at |-> where]

\* The proxy's code and statics are there.
Loaded == phase \in {"attaching", "ready", "detaching", "detached"}

\* The frame on top is that of the engine's SV_PacketEvent: what it calls comes
\* from a packet, an rcon command among others.
InPacketCode == stack # <<>> /\ stack[Len(stack)] = Frame(Packet, Engine)

-----------------------------------------------------------------------------
(* Init: the server starts, no map yet *)

Init ==
    /\ phase = "out" /\ load = 0 /\ done = 0
    /\ code = [h \in Hooks |-> Engine]
    /\ memory = [b \in {} |-> Engine]
    /\ hook = [h \in Hooks |-> Unattached]
    /\ stub = Nowhere
    /\ stack = <<>>
    /\ stuck = {}

-----------------------------------------------------------------------------
(* GAME_INIT *)

\* The engine loads the proxy, which begins with its statics as compiled.
Load ==
    /\ phase = "out" /\ load < MaxLoads
    /\ phase' = "attaching" /\ load' = load + 1 /\ done' = 0
    /\ hook' = [h \in Hooks |-> Unattached]
    /\ stub' = Nowhere
    /\ UNCHANGED <<code, memory, stack, stuck>>

Attached == IF done + 1 = Len(Order) THEN "ready" ELSE "attaching"

\* Attach of a hook of the list: the trampoline holds what the function started
\* with, and the function starts with a jump to the proxy.
AttachHook(h) ==
    /\ phase = "attaching" /\ h = Order[done + 1] /\ h # Packet
    /\ memory' = Alloc(memory, Trampoline(h, load), code[h])
    /\ hook' = [hook EXCEPT ![h] = [trampoline |-> Trampoline(h, load), saved |-> code[h]]]
    /\ code' = [code EXCEPT ![h] = InProxy(h, load)]
    /\ done' = done + 1 /\ phase' = Attached
    /\ UNCHANGED <<load, stub, stack, stuck>>

\* Mutant of AttachPacketEventFilter: SV_PacketEvent is a hook like the others.
AttachPacketEventHook ==
    /\ phase = "attaching" /\ Packet = Order[done + 1]
    /\ memory' = Alloc(Alloc(memory, Trampoline(Packet, load), code[Packet]),
                       Stub(load), Trampoline(Packet, load))
    /\ hook' = [hook EXCEPT ![Packet] =
                    [trampoline |-> Trampoline(Packet, load), saved |-> code[Packet]]]
    /\ stub' = Stub(load)
    /\ code' = [code EXCEPT ![Packet] = InProxy(Packet, load)]
    /\ done' = done + 1 /\ phase' = Attached
    /\ UNCHANGED <<load, stack, stuck>>

\* AttachPacketEventFilter: SV_PacketEvent jumps to the stub, and the stub, once
\* its filter has returned, to the trampoline.
AttachPacketEventFilter ==
    /\ phase = "attaching" /\ Packet = Order[done + 1]
    /\ memory' = Alloc(Alloc(memory, Trampoline(Packet, load), code[Packet]),
                       Stub(load), Trampoline(Packet, load))
    /\ hook' = [hook EXCEPT ![Packet] =
                    [trampoline |-> Trampoline(Packet, load), saved |-> code[Packet]]]
    /\ stub' = Stub(load)
    /\ code' = [code EXCEPT ![Packet] = Stub(load)]
    /\ done' = done + 1 /\ phase' = Attached
    /\ UNCHANGED <<load, stack, stuck>>

\* FatalHookError: no memory, code that cannot be written or moved.  exit() ends
\* the process.
FatalHookError ==
    /\ phase = "attaching"
    /\ phase' = "exited"
    /\ UNCHANGED <<load, done, code, memory, hook, stub, stack, stuck>>

-----------------------------------------------------------------------------
(* The game runs *)

\* The engine calls one of its functions: SV_PacketEvent from its event loop
\* only, the others from anywhere.  A hooked function runs in the proxy; the
\* stub calls the filter, which has returned before SV_PacketEvent goes on.
Entered(h) == IF code[h].in = "stub" THEN memory[memory[code[h]]] ELSE code[h]

Call(h) ==
    /\ phase = "ready" /\ Len(stack) < MaxDepth
    /\ h = Packet => stack = <<>>
    /\ stack' = Append(stack, Frame(h, Entered(h)))
    /\ UNCHANGED <<phase, load, done, code, memory, hook, stub, stuck>>

\* A proxy function calls the original through the trampoline, as an ordinary
\* call.
CallOriginal ==
    /\ phase = "ready" /\ stack # <<>> /\ Len(stack) < MaxDepth
    /\ LET top == stack[Len(stack)] IN
       /\ top.at.in = "proxy"
       /\ stack' = Append(stack, Frame(top.function, memory[hook[top.function].trampoline]))
    /\ UNCHANGED <<phase, load, done, code, memory, hook, stub, stuck>>

Return ==
    /\ phase = "ready" /\ stack # <<>>
    /\ stack' = SubSeq(stack, 1, Len(stack) - 1)
    /\ UNCHANGED <<phase, load, done, code, memory, hook, stub, stuck>>

\* "map" from the console or the queue of commands, between two packets, or from
\* rcon, run by the packet code itself: GAME_SHUTDOWN.
ChangeMap ==
    /\ phase = "ready" /\ (stack = <<>> \/ InPacketCode)
    /\ phase' = "detaching" /\ done' = 0
    /\ UNCHANGED <<load, code, memory, hook, stub, stack, stuck>>

-----------------------------------------------------------------------------
(* GAME_SHUTDOWN *)

\* Mutant of Detached: the hooks of the list only.
DetachedList == IF done + 1 = Len(HookOrder) THEN "detached" ELSE "detaching"

\* "detached" after DetachPacketEventFilter, the last.
Detached == IF done + 1 = Len(Order) THEN "detached" ELSE "detaching"

\* DetachPacketEventFilter releases the stub whatever became of the hook.
ReleaseStub(h, blocks) == IF h = Packet THEN Free(blocks, stub) ELSE blocks

\* Mutant of DetachHook: the trampoline is not released.
DetachLeaks(h) ==
    /\ phase = "detaching" /\ h = Order[done + 1]
    /\ code' = [code EXCEPT ![h] = hook[h].saved]
    /\ memory' = ReleaseStub(h, memory)
    /\ hook' = [hook EXCEPT ![h].trampoline = Nowhere]
    /\ stub' = IF h = Packet THEN Nowhere ELSE stub
    /\ done' = done + 1 /\ phase' = Detached
    /\ UNCHANGED <<load, stack, stuck>>

\* The original bytes come from the copy made by AttachHook.
DetachHook(h) ==
    /\ phase = "detaching" /\ h = Order[done + 1]
    /\ code' = [code EXCEPT ![h] = hook[h].saved]
    /\ memory' = ReleaseStub(h, Free(memory, hook[h].trampoline))
    /\ hook' = [hook EXCEPT ![h].trampoline = Nowhere]
    /\ stub' = IF h = Packet THEN Nowhere ELSE stub
    /\ done' = done + 1 /\ phase' = Detached
    /\ UNCHANGED <<load, stack, stuck>>

\* CodeWriter could not make the code writable: the jump stays, a line is
\* printed, and the shutdown goes on.
DetachFails(h) ==
    /\ DetachMayFail
    /\ phase = "detaching" /\ h = Order[done + 1]
    /\ memory' = ReleaseStub(h, memory)
    /\ stub' = IF h = Packet THEN Nowhere ELSE stub
    /\ done' = done + 1 /\ phase' = Detached
    /\ stuck' = stuck \cup {h}
    /\ UNCHANGED <<load, code, hook, stack>>

\* The game shuts down, vmMain returns, and the engine unloads the proxy.
Unload ==
    /\ phase = "detached"
    /\ phase' = "out"
    /\ UNCHANGED <<load, done, code, memory, hook, stub, stack, stuck>>

-----------------------------------------------------------------------------
Next ==
    \/ Load \/ AttachPacketEventFilter \/ FatalHookError
    \/ \E h \in Hooks : AttachHook(h) \/ Call(h) \/ DetachHook(h) \/ DetachFails(h)
    \/ CallOriginal \/ Return \/ ChangeMap \/ Unload

Spec == Init /\ [][Next]_vars

-----------------------------------------------------------------------------
(* Properties *)

\* A place where the processor may go: the engine, a block still allocated, the
\* proxy while this load of it is there; the stub needs both, for it calls the
\* filter.
Live(place) ==
    /\ place.in \in {"trampoline", "stub"} => place \in DOMAIN memory
    /\ place.in \in {"proxy", "stub"} => place.load = load /\ Loaded

\* The hooks that no shutdown failed to detach.  What is said of them holds though
\* others failed: the failure of one harms none of the others, in that load or in
\* the next.
Sound == Hooks \ stuck
BlocksOf(hs) == {b \in DOMAIN memory : b.of \in hs}

\* Every jump leads somewhere, in every phase: "otherwise the jump might be done
\* to an undefined function and we can't restore the original bytes anymore"
\* (Engine/Patches.cpp).
NoDanglingJump ==
    phase # "exited" =>
        /\ \A h \in Sound : Live(code[h])
        /\ \A b \in BlocksOf(Sound) : Live(memory[b])

\* Every frame returns to code that is still there: "no proxy frame may be on
\* the stack" when an rcon "map" unloads the proxy from inside the packet code
\* (Engine/Patches.cpp, docs/trampoline-hook.md).
FramesReturn == \A i \in DOMAIN stack : stack[i].function \in Sound => Live(stack[i].at)

\* The engine is given back as it was found, and nothing stays allocated, at
\* each map and not only the first.
EngineRestored ==
    phase = "out" => BlocksOf(Sound) = {} /\ \A h \in Sound : code[h] = Engine

\* Though a function could not be given back its first instructions, they are not
\* lost: the trampoline that holds them stays.
InstructionsKept ==
    \A h \in Hooks :
        \/ code[h] = Engine
        \/ \E b \in DOMAIN memory :
            b.in = "trampoline" /\ b.of = h /\ memory[b] = Engine

\* While the hooks are in place, each leads to this load of the proxy, and its
\* trampoline to the instructions of the engine.
OriginalIsEngine ==
    phase = "ready" =>
        \A h \in Sound :
            /\ code[h] = IF h = Packet THEN Stub(load) ELSE InProxy(h, load)
            /\ hook[h].trampoline \in DOMAIN memory
            /\ memory[hook[h].trampoline] = Engine
            /\ h = Packet => memory[code[h]] = hook[h].trampoline

\* The processor only runs code that is there, and the engine outlives the proxy
\* with its own.
CodeIsThere ==
    NoDanglingJump /\ FramesReturn /\ EngineRestored /\ InstructionsKept /\ OriginalIsEngine
=============================================================================
