----------------------------- MODULE CleanName -----------------------------
(***************************************************************************)
(* The cleaning of a player's name (Proxy_ClientCleanName, called by       *)
(* Sanitize in Features/Userinfo.cpp): one pass over the characters that   *)
(* the client typed, one step per character.                               *)
(*                                                                         *)
(* A character stands for its class.  The control characters, and the      *)
(* seven of the extended set that the code skips, are one class; so are    *)
(* the letters, and the digits that make a color after the escape.         *)
(***************************************************************************)
EXTENDS Integers, Sequences, SequencesExt

CONSTANTS
    Chars,      \* bound: the classes of characters typed
    MaxTyped,   \* bound: longest name typed
    MaxName     \* longest name kept, MAX_NETNAME - 1: 35

Classes == {"space", "star", "at", "letter", "digit", "escape", "control"}

NameConstants ==
    /\ Chars \subseteq Classes
    /\ MaxTyped \in Nat
    /\ MaxName \in Nat \ {0}

VARIABLES
    typed,          \* the name that the client typed
    in,             \* its characters that are still to be read
    out,            \* the characters kept
    colorlessLen,   \* the count of those that are not part of a color
    cleaning        \* "leading", "copying" or "done"

vars == <<typed, in, out, colorlessLen, cleaning>>

Padawan == <<"letter">>

TypeOK ==
    /\ typed \in Seq(Chars)
    /\ in \in Seq(Chars)
    /\ out \in Seq(Classes) /\ Len(out) <= MaxName
    /\ colorlessLen \in Nat
    /\ cleaning \in {"leading", "copying", "done"}

Init ==
    /\ \E n \in 0..MaxTyped : typed \in [1..n -> Chars]
    /\ in = typed
    /\ out = <<>>
    /\ colorlessLen = 0
    /\ cleaning = "leading"

-----------------------------------------------------------------------------
\* The name without the characters c in front of it.
Without(c, name) ==
    LET others == {n \in DOMAIN name : name[n] # c}
    IN  IF others = {} THEN <<>> ELSE SubSeq(name, Min(others), Len(name))

\* The leading spaces first, then the leading asterisks.
DiscardLeading ==
    /\ cleaning = "leading"
    /\ in' = Without("star", Without("space", in))
    /\ cleaning' = "copying"
    /\ UNCHANGED <<typed, out, colorlessLen>>

\* The first three characters are the same c: the first is left out.
ThreeOf(c) == Len(in) >= 3 /\ \A i \in 1..3 : in[i] = c

Skipped == ThreeOf("space") \/ ThreeOf("at") \/ Head(in) = "control"

\* A digit after an escape makes a color, and takes back the escape's count.
MakesColor == out # <<>> /\ Last(out) = "escape" /\ Head(in) = "digit"

\* Mutant of Counted: the escape of a color stays counted.
CountedEscape == IF MakesColor THEN colorlessLen ELSE colorlessLen + 1

Counted == IF MakesColor THEN colorlessLen - 1 ELSE colorlessLen + 1

More == cleaning = "copying" /\ in # <<>> /\ Len(out) < MaxName

Skip ==
    /\ More
    /\ Skipped
    /\ in' = Tail(in)
    /\ UNCHANGED <<typed, out, colorlessLen, cleaning>>

Keep ==
    /\ More
    /\ ~Skipped
    /\ in' = Tail(in)
    /\ out' = Append(out, Head(in))
    /\ colorlessLen' = Counted
    /\ UNCHANGED <<typed, cleaning>>

\* An empty name, or one of colors only, becomes Padawan.
Finish ==
    /\ cleaning = "copying" /\ ~More
    /\ out' = IF out = <<>> \/ colorlessLen = 0 THEN Padawan ELSE out
    /\ cleaning' = "done"
    /\ UNCHANGED <<typed, in, colorlessLen>>

Next == DiscardLeading \/ Skip \/ Keep \/ Finish

Spec == Init /\ [][Next]_vars

-----------------------------------------------------------------------------
(* Properties *)

\* The places of a name that are left when its colors are removed.  No place is in
\* two colors: an escape is not a digit.
IsColor(name, n) == name[n] = "escape" /\ n + 1 \in DOMAIN name /\ name[n + 1] = "digit"
Colorless(name) ==
    {n \in DOMAIN name : ~IsColor(name, n) /\ ~(n > 1 /\ IsColor(name, n - 1))}

\* The count that goes up and down while the name is copied agrees with the
\* colors of the whole name: no player is named by colors alone, whatever the
\* length at which the name was cut.
SomethingToShow == cleaning = "done" => Colorless(out) # {}
=============================================================================
