------------------------------- MODULE Tokens -------------------------------
(***************************************************************************)
(* Cmd_TokenizeString2 (Engine/Hooks/qcommon/cmd.cpp): a command line into *)
(* its words, which are written one after the other to a buffer.  It reads *)
(* a copy of the text, which is cut.  Then Cmd_ArgsFrom, which makes one   *)
(* string of the words again.                                              *)
(*                                                                         *)
(* A character is of the class that the code tells it by.                  *)
(***************************************************************************)
EXTENDS Integers, Sequences, SequencesExt

CONSTANTS
    InfoSize,       \* BIG_INFO_STRING
    MaxTokens,      \* MAX_STRING_TOKENS
    MaxText         \* bound: characters of a text

TokensConstants == {InfoSize, MaxTokens, MaxText} \subseteq Nat \ {0}

Chars == {"space", "quote", "slash", "star", "letter"}

VARIABLES
    text_in,        \* what is tokenized
    ignoreQuotes,
    state,          \* "typed", "between", "quoted", "word", "comment" or "done"
    text,           \* what is still to read of the copy
    argv,           \* the words, the last of which may go on
    written         \* textOut: characters and zeros written to the buffer

tokensVars == <<text_in, ignoreQuotes, state, text, argv, written>>

Init ==
    /\ text_in = <<>> /\ ignoreQuotes \in BOOLEAN
    /\ state = "typed" /\ text = <<>>
    /\ argv = <<>> /\ written = 0

\* The text comes from a client, a configuration or the console.
Type(c) ==
    /\ state = "typed" /\ Len(text_in) < MaxText
    /\ text_in' = Append(text_in, c)
    /\ UNCHANGED <<ignoreQuotes, state, text, argv, written>>

\* Mutant of Copied: the text itself is read.
CopiedWhole(t) == t

\* Q_strncpyz to cmd_cmd.
Copied(t) == IF Len(t) < InfoSize THEN t ELSE SubSeq(t, 1, InfoSize - 1)

Start ==
    /\ state = "typed"
    /\ text' = Copied(text_in)
    /\ state' = "between"
    /\ UNCHANGED <<text_in, ignoreQuotes, argv, written>>

Ahead(cs) == IsPrefix(cs, text)
LineComment == Ahead(<<"slash", "slash">>)
Comment == Ahead(<<"slash", "star">>)
OpensQuote == ~ignoreQuotes /\ Ahead(<<"quote">>)

Moves(to, n) ==
    /\ state' = to
    /\ text' = SubSeq(text, n + 1, Len(text))
    /\ UNCHANGED <<text_in, ignoreQuotes>>

Full == Len(argv) = MaxTokens

\* Between two words.  Whether the table is full is asked once before each word.
Between ==
    /\ state = "between"
    /\ UNCHANGED <<argv, written>>
    /\ IF Full \/ text = <<>> \/ LineComment THEN Moves("done", 0)
       ELSE IF Ahead(<<"space">>) THEN Moves("between", 1)
       ELSE Comment /\ Moves("comment", 0)

\* /* ... */: its end may begin with the star of its start.
InComment ==
    /\ state = "comment"
    /\ UNCHANGED <<argv, written>>
    /\ IF text = <<>> THEN Moves("done", 0)
       ELSE IF Ahead(<<"star", "slash">>) THEN Moves("between", 2)
       ELSE Moves("comment", 1)

Begin ==
    /\ state = "between" /\ ~Full /\ text # <<>>
    /\ ~LineComment /\ ~Comment /\ ~Ahead(<<"space">>)
    /\ argv' = Append(argv, <<>>)
    /\ IF OpensQuote THEN Moves("quoted", 1) ELSE Moves("word", 0)
    /\ UNCHANGED written

\* The next character of a word, or its end and the zero after it.
Add ==
    /\ argv' = [argv EXCEPT ![Len(argv)] = Append(@, Head(text))]
    /\ written' = written + 1

InQuotes ==
    /\ state = "quoted"
    /\ IF text = <<>> THEN Moves("done", 0) /\ written' = written + 1 /\ UNCHANGED argv
       ELSE IF Ahead(<<"quote">>)
       THEN Moves("between", 1) /\ written' = written + 1 /\ UNCHANGED argv
       ELSE Moves("quoted", 1) /\ Add

InWord ==
    /\ state = "word"
    /\ IF text = <<>> THEN Moves("done", 0) /\ written' = written + 1 /\ UNCHANGED argv
       ELSE IF Ahead(<<"space">>) \/ OpensQuote \/ LineComment \/ Comment
       THEN Moves("between", 0) /\ written' = written + 1 /\ UNCHANGED argv
       ELSE Moves("word", 1) /\ Add

\* Another text is tokenized.
Again ==
    /\ state = "done"
    /\ text_in' = <<>> /\ state' = "typed" /\ text' = <<>>
    /\ argv' = <<>> /\ written' = 0
    /\ UNCHANGED ignoreQuotes

Next ==
    \/ (\E c \in Chars : Type(c)) \/ Start
    \/ Between \/ InComment \/ Begin \/ InQuotes \/ InWord
    \/ Again

-----------------------------------------------------------------------------
(* Cmd_ArgsFrom *)

\* The strings are shorter than the buffer: they come from the copy.
Cmd_ArgsFrom(arg) ==
    FlattenSeq([i \in 1..(Len(argv) - arg) |->
                    argv[arg + i] \o (IF arg + i < Len(argv) THEN <<"space">> ELSE <<>>)])

-----------------------------------------------------------------------------
(* Properties *)

\* Whatever the text, its quotes and its comments, the words fit in the buffer of
\* BIG_INFO_STRING + MAX_STRING_TOKENS bytes and the pointers in argv, "so a
\* text_in longer than BIG_INFO_STRING - 1 characters is cut instead of
\* overflowing it" (Cmd_TokenizeString2).
TokensFit ==
    /\ written <= InfoSize + MaxTokens
    /\ Len(argv) <= MaxTokens
    /\ state = "done" => Len(Cmd_ArgsFrom(0)) < InfoSize
=============================================================================
