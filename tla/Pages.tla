------------------------------- MODULE Pages --------------------------------
(***************************************************************************)
(* A long text to a client, a print command at a time: the table of        *)
(* /netStatus (Engine/NetStatusCommands.cpp), cut where the buffer is full,*)
(* and /proxyconfig (Features/Cvars.cpp), by whole lines.  The two are     *)
(* written to a buffer first, where a line that does not fit is left out.  *)
(*                                                                         *)
(* A text is the lengths of its lines, their ends included; a page is the  *)
(* characters it takes of it.                                              *)
(***************************************************************************)
EXTENDS Integers, Sequences, FiniteSetsExt, SequencesExt

CONSTANTS
    Chunk,          \* the characters of a page: 1011, or 999
    TextSize,       \* the buffer of the text: 8192, or 4096
    Command,        \* the longest server command: 1022
    Quotes,         \* what a page is put between
    LineLengths,    \* bound
    MaxLines        \* bound

PagesConstants ==
    /\ {Chunk, TextSize, Command, MaxLines} \subseteq Nat \ {0}
    /\ Quotes \in Nat /\ LineLengths \subseteq Nat \ {0}
    /\ Chunk + Quotes <= Command

VARIABLES
    kind,           \* "status" or "config"
    wanted,         \* the lines that were to be written
    text,           \* those that are in the buffer
    at,             \* characters of it that are behind: currentProgress, or text
    pages           \* the commands: from, to, and whether a newline was added

pagesVars == <<kind, wanted, text, at, pages>>

Init ==
    /\ kind \in {"status", "config"}
    /\ wanted = <<>> /\ text = <<>>
    /\ at = 0 /\ pages = <<>>

\* Where the lines end.
Ends ==
    LET end[n \in 0..Len(text)] == IF n = 0 THEN 0 ELSE end[n - 1] + text[n]
    IN  end

Length == Ends[Len(text)]

-----------------------------------------------------------------------------
(* The text *)

\* Q_strcat of a row.
WriteLine(length) ==
    /\ pages = <<>> /\ Len(wanted) < MaxLines
    /\ wanted' = Append(wanted, length)
    /\ text' = IF Length + length < TextSize THEN Append(text, length) ELSE text
    /\ UNCHANGED <<kind, at, pages>>

-----------------------------------------------------------------------------
(* The pages *)

Least(a, b) == IF a < b THEN a ELSE b

\* Mutant of StatusPage: the position moves by the size of the buffer.
StatusPageBySize ==
    LET to == Least(at + Chunk, Length)
    IN  [from |-> at, to |-> to, newline |-> to - at < Chunk, next |-> at + Chunk + 1]

\* Of /netStatus: as much as fits, and a newline if there is room for it.  What is
\* added counts as text that is behind.
StatusPage ==
    LET to == Least(at + Chunk, Length)
        newline == to - at < Chunk
    IN  [from |-> at, to |-> to, newline |-> newline,
         next |-> IF newline THEN to + 1 ELSE to]

\* Mutant of ConfigPage: a line longer than a page is left out.
ConfigPageSkipsLong ==
    LET ends == {Ends[n] : n \in 1..Len(text)}
        whole == {e \in ends : e > at /\ e - at <= Chunk}
        to == IF whole # {} THEN Max(whole) ELSE Min({e \in ends : e > at})
    IN  [from |-> at, to |-> to, newline |-> FALSE, next |-> to]

\* Of /proxyconfig: the whole lines that fit, or else a piece of one.
ConfigPage ==
    LET ends == {Ends[n] : n \in 1..Len(text)}
        whole == {e \in ends : e > at /\ e - at <= Chunk}
        to == IF whole # {} THEN Max(whole) ELSE at + Chunk
    IN  [from |-> at, to |-> to, newline |-> FALSE, next |-> to]

Page ==
    /\ at < Length
    /\ LET page == IF kind = "status" THEN StatusPage ELSE ConfigPage
       IN  /\ pages' = Append(pages, page)
           /\ at' = page.next
    /\ UNCHANGED <<kind, wanted, text>>

Next == (\E length \in LineLengths : WriteLine(length)) \/ Page

-----------------------------------------------------------------------------
(* Properties *)

\* "A server command holds at most MAX_STRING_CHARS characters: whole lines, a few
\* per print": the client receives every character of the text once, in order, in
\* commands that the proxy does not refuse for their length, and a line of
\* /proxyconfig that fits in a page is never cut (NetStatus, PrintToClient).
EveryCharacterOnce ==
    /\ \A n \in DOMAIN pages :
          /\ pages[n].from = (IF n = 1 THEN 0 ELSE pages[n - 1].to)
          /\ pages[n].to > pages[n].from
          /\ pages[n].to - pages[n].from + (IF pages[n].newline THEN 1 ELSE 0) + Quotes
                <= Command
    /\ pages # <<>> /\ at >= Length => Last(pages).to = Length
    /\ kind = "config" => \A n \in DOMAIN pages : \A l \in DOMAIN text :
          text[l] <= Chunk /\ pages[n].to > Ends[l - 1] => pages[n].to >= Ends[l]
=============================================================================
