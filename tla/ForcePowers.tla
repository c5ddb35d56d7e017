---------------------------- MODULE ForcePowers ----------------------------
(***************************************************************************)
(* The check of the "forcepowers" value of a userinfo (Sanitize in         *)
(* Features/Userinfo.cpp), one step per character.  The game reads the     *)
(* value as rank-side-powers and uses its digits as indices without a test *)
(* of its own: a value that passes this check must be one it reads whole.  *)
(*                                                                         *)
(* A character is "low" (a digit up to 3), "high" (a digit above 3), "-",  *)
(* or "other".  The lengths are constants: the source has 22 to 24         *)
(* characters, separators among the places 1 to 5, and 18 powers.          *)
(***************************************************************************)
EXTENDS Integers, FiniteSets, Sequences

CONSTANTS
    MinLength, MaxLength,   \* lengths accepted: 22 and 24
    LastSeparator,          \* last place of a separator, from 0: 5
    Powers,                 \* NUM_FORCE_POWERS: 18
    Buffer,                 \* characters kept of what the client sent: 29
    MaxSent                 \* bound: longest value sent

LengthsConstants ==
    /\ MinLength \in Nat \ {0} /\ MaxLength \in Nat /\ LastSeparator \in Nat
    /\ Powers \in Nat /\ Buffer \in Nat /\ MaxSent \in Nat
    /\ MinLength <= MaxLength /\ MaxLength < Buffer

VARIABLES
    sent,           \* the value that the client sent
    i,              \* the place of the next character, from 0
    seps,           \* separators read
    powersStart,    \* the place after the last separator
    badForce,       \* the value is refused
    checking        \* "length", "loop", "end" or "done"

vars == <<sent, i, seps, powersStart, badForce, checking>>

Classes == {"low", "high", "-", "other"}

\* The first characters, as many as the buffer holds.
forcePowers == SubSeq(sent, 1, IF Len(sent) > Buffer THEN Buffer ELSE Len(sent))
len == Len(forcePowers)
At(n) == forcePowers[n + 1]

TypeOK ==
    /\ sent \in Seq(Classes)
    /\ i \in 0..MaxLength
    /\ seps \in 0..LastSeparator
    /\ powersStart \in 0..(LastSeparator + 1)
    /\ badForce \in BOOLEAN
    /\ checking \in {"length", "loop", "end", "done"}

Init ==
    /\ \E n \in 0..MaxSent : sent \in [1..n -> Classes]
    /\ i = 0
    /\ seps = 0
    /\ powersStart = 0
    /\ badForce = FALSE
    /\ checking = "length"

-----------------------------------------------------------------------------
CheckLength ==
    /\ checking = "length"
    /\ IF len \in MinLength..MaxLength
       THEN checking' = "loop" /\ UNCHANGED badForce
       ELSE checking' = "done" /\ badForce' = TRUE
    /\ UNCHANGED <<sent, i, seps, powersStart>>

\* Mutant of SeparatorFits: two separators may touch.
PlaceFits == i \in 1..LastSeparator

SeparatorFits == i \in 1..LastSeparator /\ At(i - 1) # "-"

\* A character that the game can read, at its place: a power is at most 3.
Legal ==
    /\ At(i) # "other"
    /\ At(i) = "-" => SeparatorFits
    /\ At(i) = "high" => seps # 2

Break ==
    /\ checking = "loop" /\ i < len
    /\ ~Legal
    /\ badForce' = TRUE
    /\ checking' = "end"
    /\ UNCHANGED <<sent, i, seps, powersStart>>

Read ==
    /\ checking = "loop" /\ i < len
    /\ Legal
    /\ IF At(i) = "-"
       THEN seps' = seps + 1 /\ powersStart' = i + 1
       ELSE UNCHANGED <<seps, powersStart>>
    /\ i' = i + 1
    /\ UNCHANGED <<sent, badForce, checking>>

EndLoop ==
    /\ checking = "loop" /\ i = len
    /\ checking' = "end"
    /\ UNCHANGED <<sent, i, seps, powersStart, badForce>>

\* Two separators, and enough powers after the second.
CheckPowers ==
    /\ checking = "end"
    /\ badForce' = (badForce \/ seps # 2 \/ len - powersStart < Powers)
    /\ checking' = "done"
    /\ UNCHANGED <<sent, i, seps, powersStart>>

Next == CheckLength \/ Break \/ Read \/ EndLoop \/ CheckPowers

Spec == Init /\ [][Next]_vars

-----------------------------------------------------------------------------
(* Properties *)

\* What the game reads, and docs/features.md says: rank, side and at least
\* Powers levels from 0 to 3, separated by "-".
Digits == {"low", "high"}
Readable(value) ==
    \E a, b \in 1..Len(value) :
        /\ 1 < a /\ a + 1 < b /\ b <= LastSeparator + 1
        /\ value[a] = "-" /\ value[b] = "-"
        /\ \A j \in (1..(b - 1)) \ {a} : value[j] \in Digits
        /\ \A j \in (b + 1)..Len(value) : value[j] = "low"
        /\ Len(value) - b >= Powers

\* The value is kept exactly when the game can read it whole: no index made of
\* another character, none above 3, and none that is not written.
KeptExactlyReadable ==
    checking = "done" =>
        (badForce <=> ~(Len(sent) \in MinLength..MaxLength /\ Readable(sent)))
=============================================================================
