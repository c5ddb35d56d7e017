------------------------------- MODULE Detour -------------------------------
(***************************************************************************)
(* The trampoline of one hooked function (HookUtils.cpp): Analyze decodes  *)
(* the instructions at the target until they cover the five bytes of a     *)
(* jump, and AttachHook copies them to a trampoline that ends with a jump  *)
(* to the rest of the function, rewrites the offset of a copied call or    *)
(* jump, and writes over the target a jump to the replacement.             *)
(*                                                                         *)
(* An instruction is what Zydis says of it: its length, whether it is      *)
(* relative, whether it ends a function.  Addresses are those of the       *)
(* 32-bit builds the proxy hooks: they wrap, and an offset of 32 bits      *)
(* reaches them all, so OutOfRange and its clean-up belong to x64 only.    *)
(***************************************************************************)
EXTENDS Integers, Sequences

CONSTANTS
    JumpLength,     \* bytes of a jmp rel32: 5
    MaxInstruction, \* bytes of the longest instruction: 15
    Span,           \* addresses: 2^32
    Addresses,      \* the addresses tried for code and trampolines
    Lengths,        \* the lengths tried for instructions
    Destinations    \* the addresses tried for what a call or jump reaches

DetourConstants ==
    /\ JumpLength \in Nat \ {0} /\ MaxInstruction \in Nat /\ Span \in Nat \ {0}
    /\ JumpLength <= MaxInstruction
    /\ Addresses \subseteq 0..(Span - 1) /\ Destinations \subseteq 0..(Span - 1)
    /\ Lengths \subseteq 1..MaxInstruction /\ Lengths # {}

\* enum Status, the outcomes of AttachHook here; "decoding" and "building" are
\* the two loops it is still in.
Statuses == {"decoding", "building", "Ok", "DecodeError", "FunctionTooShort",
             "RelativeInstruction", "AllocationFailed", "ProtectionFailed"}

\* "rel32": a call or a jump of JumpLength bytes that reaches "to".
\* "relative": jcc, short jmp, loop.  "bad": not an instruction.
Instruction ==
    [kind : {"plain", "ret", "relative", "bad"}, length : Lengths, to : {0}]
    \cup [kind : {"rel32"}, length : {JumpLength}, to : Destinations]

VARIABLES
    instructions,       \* the instructions at the target, in order
    target,             \* hook.originalFunctionAddr
    status,
    next,               \* the number of the next instruction to decode
    length,             \* bytes of the instructions decoded
    relocation,         \* hasRelocation, relocationOffset: the call or jump to
                        \* relocate and what it reaches, or NoRelocation
    trampoline,         \* the address of the trampoline, or None
    copied,             \* where the call or jump copied to the trampoline goes
    back                \* where the last jump of the trampoline goes

vars == <<instructions, target, status, next, length, relocation, trampoline, copied, back>>

None == -1
NoRelocation == [offset |-> None, to |-> None]
Relocations == [offset : Nat, to : 0..(Span - 1)] \cup {NoRelocation}

-----------------------------------------------------------------------------
(* Operators *)

Wrap(a) == a % Span

\* Rel32: the offset that leads from the instruction at nextInstruction to
\* destination, as an unsigned number of 32 bits.
Rel32(nextInstruction, destination) == Wrap(destination - nextInstruction)

\* Where the processor goes from a call or jump that ends at nextInstruction.
Reached(nextInstruction, offset) == Wrap(nextInstruction + offset)

TypeOK ==
    /\ instructions \in Seq(Instruction) /\ instructions # <<>>
    /\ target \in Addresses
    /\ status \in Statuses
    /\ next \in Nat \ {0}
    /\ length \in Nat
    /\ relocation \in Relocations
    /\ trampoline \in Addresses \cup {None}
    /\ copied \in (0..(Span - 1)) \cup {None}
    /\ back \in (0..(Span - 1)) \cup {None}

-----------------------------------------------------------------------------
(* Init: JumpLength instructions cover JumpLength bytes, Analyze reads no more *)

Init ==
    /\ instructions \in [1..JumpLength -> Instruction]
    /\ target \in Addresses
    /\ status = "decoding"
    /\ next = 1 /\ length = 0 /\ relocation = NoRelocation
    /\ trampoline = None /\ copied = None /\ back = None

-----------------------------------------------------------------------------
(* Analyze: one turn of its loop *)

Refuse(reason) ==
    /\ status' = reason
    /\ UNCHANGED <<instructions, target, next, length, relocation, trampoline, copied, back>>

Take(instruction) ==
    /\ length' = length + instruction.length
    /\ next' = next + 1
    /\ UNCHANGED <<instructions, target, status, trampoline, copied, back>>

\* A call or jump whose offset is rewritten.
TakeRel32(instruction) ==
    /\ instruction.kind = "rel32"
    /\ relocation' = [offset |-> length, to |-> instruction.to]
    /\ Take(instruction)

\* "else if (nextLength < JumpLength && ... RET)": a function may end with the
\* last byte that is copied, not before.
EndsTooSoon(instruction) ==
    instruction.kind = "ret" /\ length + instruction.length < JumpLength

TakePlain(instruction) ==
    /\ instruction.kind \in {"plain", "ret"} /\ ~EndsTooSoon(instruction)
    /\ UNCHANGED relocation
    /\ Take(instruction)

Decode ==
    /\ status = "decoding" /\ length < JumpLength
    /\ LET instruction == instructions[next] IN
       \/ instruction.kind = "bad" /\ Refuse("DecodeError")
       \/ instruction.kind = "relative" /\ Refuse("RelativeInstruction")
       \/ EndsTooSoon(instruction) /\ Refuse("FunctionTooShort")
       \/ TakeRel32(instruction)
       \/ TakePlain(instruction)

-----------------------------------------------------------------------------
(* AttachHook, after Analyze *)

NoMemory ==
    /\ status = "decoding" /\ length >= JumpLength
    /\ Refuse("AllocationFailed")

\* Mutant of Operand: the offset is read as if the jump were the first.
OperandOfTheFirst == Rel32(target + JumpLength, relocation.to)

\* The operand of the copied call or jump, the same bytes as at the target.
Operand == Rel32(target + relocation.offset + JumpLength, relocation.to)

\* The trampoline is built whole before the target is touched.
Build ==
    /\ status = "decoding" /\ length >= JumpLength
    /\ \E t \in Addresses \ {target} :
        /\ trampoline' = t
        /\ back' = Reached(t + length + JumpLength,
                           Rel32(t + length + JumpLength, target + length))
        /\ copied' =
            IF relocation = NoRelocation THEN None
            ELSE LET r == relocation.offset
                     destination == target + r + JumpLength + Operand
                 IN Reached(t + r + JumpLength,
                            Rel32(t + r + JumpLength, destination))
    /\ status' = "building"
    /\ UNCHANGED <<instructions, target, next, length, relocation>>

\* CodeWriter could not make the target writable.
NotWritable ==
    /\ status = "building"
    /\ status' = "ProtectionFailed"
    /\ trampoline' = None /\ copied' = None /\ back' = None
    /\ UNCHANGED <<instructions, target, next, length, relocation>>

Write ==
    /\ status = "building"
    /\ status' = "Ok"
    /\ UNCHANGED <<instructions, target, next, length, relocation, trampoline, copied, back>>

Next == Decode \/ NoMemory \/ Build \/ NotWritable \/ Write

Spec == Init /\ [][Next]_vars

-----------------------------------------------------------------------------
(* Properties *)

\* The bytes copied fit in savedOpcodes, whatever the instructions: "at most
\* JumpLength - 1 bytes, then one instruction of 15 bytes" (MaxSavedLength in
\* HookUtils.hpp); and they are no more than the jump needs.
CoversTheJump ==
    status \in {"building", "Ok"} =>
        /\ length \in JumpLength..(JumpLength - 1 + MaxInstruction)
        /\ length - instructions[next - 1].length < JumpLength

\* What is copied runs as well from the trampoline: no relative instruction but
\* one call or jump, the last, whose offset is rewritten ("there is only one"),
\* and nothing that belongs to the function after this one.
RunsElsewhere ==
    status \in {"building", "Ok"} =>
        /\ \A n \in 1..(next - 2) : instructions[n].kind = "plain"
        /\ instructions[next - 1].kind \in {"plain", "ret", "rel32"}
        /\ relocation =
            IF instructions[next - 1].kind = "rel32"
            THEN [offset |-> length - JumpLength, to |-> instructions[next - 1].to]
            ELSE NoRelocation

\* The trampoline leads where the function did, at whatever address the memory
\* was found and though addresses wrap: the relocated call or jump to its own
\* destination, the last jump to the instruction after those copied.
SameDestinations ==
    trampoline # None =>
        /\ back = Wrap(target + length)
        /\ relocation # NoRelocation => copied = relocation.to

=============================================================================
