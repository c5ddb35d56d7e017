---------------------------- MODULE MessageBits -----------------------------
(***************************************************************************)
(* The bits of a message (MSG_ReadBits, Engine/Hooks/qcommon/msg.cpp): the *)
(* proxy tests the end of the message before and after the engine reads.   *)
(* The code of a client reads on for as long as what it has read says.     *)
(*                                                                         *)
(* The engine reads out of band bytes as they are.  Else the bits over a   *)
(* multiple of eight are read as they are, and each byte is a symbol of    *)
(* Huffman, of a length that only its reading tells.                       *)
(***************************************************************************)
EXTENDS Integers

CONSTANTS
    Sizes,          \* bound: cursize, in bytes
    Widths,         \* bound: bits of a value in band, an int; negative: signed
    OobWidths,      \* 8, 16 and 32
    MaxSymbol       \* bits of the longest symbol

MessageConstants ==
    /\ Sizes \subseteq Nat /\ Widths \subseteq ((-32)..32) \ {0}
    /\ OobWidths \subseteq {8, 16, 32} /\ MaxSymbol \in Nat \ {0}

VARIABLES
    message,        \* oob and cursize
    bit, readcount, \* how far it was read
    value           \* the last: "none", "zero" or "read", of the bits up to a place

messageVars == <<message, bit, readcount, value>>

End == 8 * message.cursize

Init ==
    /\ message \in [oob : BOOLEAN, cursize : Sizes]
    /\ bit = 0 /\ readcount = 0
    /\ value = [is |-> "none", upTo |-> 0]

Abs(x) == IF x < 0 THEN -x ELSE x

\* What the engine reads: the place it comes to.
EngineReads(bits, symbols) ==
    IF message.oob THEN bit + bits ELSE bit + (Abs(bits) % 8) + symbols

\* The first tests.
Over(bits) ==
    IF message.oob THEN readcount + Abs(bits) \div 8 > message.cursize
                   ELSE bit + (Abs(bits) % 8) > End

GivesZero ==
    /\ value' = [is |-> "zero", upTo |-> bit]
    /\ readcount' = message.cursize + 1

\* Mutant of Read: the symbols are not thought of.
ReadUntested(bits, symbols) ==
    LET place == EngineReads(bits, symbols) IN
    /\ bit' = place
    /\ readcount' = IF message.oob THEN readcount + bits \div 8 ELSE place \div 8 + 1
    /\ value' = [is |-> "read", upTo |-> place]

\* The read itself, and the last test.
Read(bits, symbols) ==
    LET place == EngineReads(bits, symbols) IN
    /\ bit' = place
    /\ IF ~message.oob /\ place > End
       THEN /\ value' = [is |-> "zero", upTo |-> bit]
            /\ readcount' = message.cursize + 1
       ELSE /\ value' = [is |-> "read", upTo |-> place]
            /\ readcount' = IF message.oob THEN readcount + bits \div 8
                            ELSE place \div 8 + 1

\* Mutant of ReadBits: the end that was passed is not remembered.
ReadBitsAgain(bits, symbols) ==
    IF Over(bits)
    THEN value' = [is |-> "zero", upTo |-> bit] /\ UNCHANGED <<bit, readcount>>
    ELSE Read(bits, symbols)

ReadBits(bits, symbols) ==
    IF readcount > message.cursize
    THEN value' = [is |-> "zero", upTo |-> bit] /\ UNCHANGED <<bit, readcount>>
    ELSE IF Over(bits) THEN GivesZero /\ UNCHANGED bit
    ELSE Read(bits, symbols)

Next ==
    /\ \E bits \in IF message.oob THEN OobWidths ELSE Widths :
       \E symbols \in (Abs(bits) \div 8)..(MaxSymbol * (Abs(bits) \div 8)) :
            ReadBits(bits, symbols)
    /\ UNCHANGED message

-----------------------------------------------------------------------------
(* Properties *)

\* Whatever a message makes the server read, a value is of its bits or zero, and the
\* engine was let past the end by no more than the symbols of one value ("one read
\* can go a few bytes past the end before the last test, ... and the value is
\* dropped").
NothingPastTheEnd ==
    /\ value.is = "read" => value.upTo <= End
    /\ bit <= End + 4 * MaxSymbol

\* "Once the end is passed, a read gives 0 and readcount stays above cursize, which the
\* callers test", however the message is read after that.  (A read of exactly the last
\* bits may leave readcount above cursize too: what is refused is never missed, and
\* what is whole may be taken for refused.)
EndIsFinal ==
    [][value.is = "zero" =>
        value'.is = "zero" /\ readcount' > message.cursize]_messageVars

\* The end of a message ends what is read of it.
ReadsEndWithTheMessage == []NothingPastTheEnd /\ EndIsFinal
=============================================================================
