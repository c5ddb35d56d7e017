------------------------------ MODULE Patches -------------------------------
(***************************************************************************)
(* Hooks, where the first attachment of the first load is followed         *)
(* instruction by instruction (Detour): the engine's function is decoded   *)
(* and its trampoline built, and only then does it jump to the proxy; or   *)
(* else the server stops (Attach and FatalHookError of Engine/Patches.cpp, *)
(* over AttachHook of HookUtils.cpp).  The other attachments are done in   *)
(* one step; what the first one knew is then forgotten.                    *)
(***************************************************************************)
EXTENDS Hooks, Integers

CONSTANTS JumpLength, MaxInstruction, Span, Addresses, Lengths, Destinations

VARIABLES
    instructions, target, status, next, length, relocation, trampoline, copied, back

detourVars ==
    <<instructions, target, status, next, length, relocation, trampoline, copied, back>>

D == INSTANCE Detour

ASSUME DetourAssumption == D!DetourConstants

patchVars == <<vars, detourVars>>

\* Nothing is followed any more: the state of D is any one of its first states.
Forget ==
    /\ instructions' = [n \in 1..JumpLength |-> CHOOSE i \in D!Instruction : i.kind = "bad"]
    /\ target' = CHOOSE a \in Addresses : TRUE
    /\ status' = "decoding"
    /\ next' = 1 /\ length' = 0 /\ relocation' = D!NoRelocation
    /\ trampoline' = D!None /\ copied' = D!None /\ back' = D!None

\* The first attachment of the first load.
Following == phase = "attaching" /\ load = 1 /\ done = 0

Failures == {"DecodeError", "FunctionTooShort", "RelativeInstruction",
             "AllocationFailed", "ProtectionFailed"}

-----------------------------------------------------------------------------
PatchInit == Init /\ D!Init

\* AttachHook at work.
Detouring == Following /\ D!Next /\ UNCHANGED vars

\* Attach: the hook is in place when AttachHook says Ok.
AttachedOk == Following /\ status = "Ok" /\ AttachHook(Order[1]) /\ Forget

\* FatalHookError: AttachHook says anything else.
AttachFails == Following /\ status \in Failures /\ FatalHookError /\ Forget

\* Everything after that, in whole steps.
Abstracted == ~Following /\ Next /\ UNCHANGED detourVars

PatchNext == Detouring \/ AttachedOk \/ AttachFails \/ Abstracted

PatchSpec == PatchInit /\ [][PatchNext]_patchVars

-----------------------------------------------------------------------------
(* Properties *)

\* The trampoline leads where the function led, though addresses wrap: the call or
\* jump relocated and the last jump (AttachHook of HookUtils.cpp).
SameDestinations == D!SameDestinations
=============================================================================
