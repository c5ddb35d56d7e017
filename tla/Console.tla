------------------------------ MODULE Console -------------------------------
(***************************************************************************)
(* Where a line of the server goes.  Com_Printf, rewritten by the proxy,   *)
(* appends it to the answer of an rcon command while one runs, and sends   *)
(* what it holds when the next line would not fit; else it prints it and   *)
(* writes it to qconsole.log, which the first line opens.  Opening it      *)
(* prints lines too, so Com_Printf calls itself: the stack is kept.        *)
(*                                                                         *)
(* An rcon command that changes the map unloads the proxy and loads the    *)
(* map before it returns: GAME_SHUTDOWN ends the redirection, and the      *)
(* engine ends it once more when the command returns.                      *)
(*                                                                         *)
(* A line is its length; lines are told apart by their number.             *)
(***************************************************************************)
EXTENDS Integers, Sequences, SequencesExt

CONSTANTS
    BufferSize,     \* rd_buffersize: 1008, set by the proxy
    LineLengths,    \* lengths of the lines printed
    MaxLines,       \* bound: lines printed
    MaxFrames,      \* bound: calls of Com_Printf that open the log
    FsDebug         \* fs_debug: the file system prints what it opens

ConsoleConstants ==
    /\ BufferSize \in Nat \ {0, 1} /\ LineLengths \subseteq Nat \ {0}
    /\ MaxLines \in Nat /\ MaxFrames \in Nat /\ FsDebug \in BOOLEAN

VARIABLES
    remote,         \* "none", "rcon" or, once it has changed the map, "loading"
    redirected,     \* rd_buffer is set
    buffer,         \* *rd_buffer: the lines it holds
    used,           \* its strlen
    sent,           \* the lines sent to the address of the rcon command
    screen,         \* the lines given to Sys_Print
    logging,        \* com_logfile
    logfile,        \* qconsole.log is open
    file,           \* what was written to it
    openingLog,     \* opening_qconsole
    stack,          \* the calls of Com_Printf that wait for a file to open
    lines           \* history: each line, with its length and the command it came in

vars == <<remote, redirected, buffer, used, sent, screen, logging, logfile, file,
          openingLog, stack, lines>>

Frame == [line : 1..MaxLines, at : {"open", "opened", "close"}]

TypeOK ==
    /\ remote \in {"none", "rcon", "loading"} /\ redirected \in BOOLEAN /\ used \in 0..(BufferSize - 1)
    /\ \A s \in {buffer, sent, screen, file} : \A i \in DOMAIN s : s[i] \in DOMAIN lines
    /\ logging \in BOOLEAN /\ logfile \in BOOLEAN /\ openingLog \in BOOLEAN
    /\ stack \in Seq(Frame)

Init ==
    /\ remote = "none" /\ redirected = FALSE
    /\ buffer = <<>> /\ used = 0 /\ sent = <<>> /\ screen = <<>> /\ file = <<>>
    /\ logging \in BOOLEAN /\ logfile = FALSE /\ openingLog = FALSE
    /\ stack = <<>> /\ lines = <<>>

-----------------------------------------------------------------------------
(* Com_Printf *)

Printed(length) == lines' = Append(lines, [length |-> length, command |-> remote])

\* Q_strcat to what the buffer holds: a line that fits, or nothing.
Q_strcat(held, size, n, length) ==
    /\ buffer' = IF length + 1 > BufferSize - size THEN held ELSE Append(held, n)
    /\ used' = IF length + 1 > BufferSize - size THEN size ELSE size + length

\* Mutant of ToBuffer: room for the line, and none for the zero after it.
ToBufferWithoutZero(length) ==
    LET n == Len(lines) + 1
        full == used + length > BufferSize
    IN  /\ sent' = IF full THEN sent \o buffer ELSE sent
        /\ Q_strcat(IF full THEN <<>> ELSE buffer, IF full THEN 0 ELSE used, n, length)
        /\ UNCHANGED <<screen, openingLog, file>>

\* Com_Printf while redirected: the buffer is sent first if the line would not fit.
ToBuffer(length) ==
    LET n == Len(lines) + 1
        full == used + length > BufferSize - 1
    IN  /\ sent' = IF full THEN sent \o buffer ELSE sent
        /\ Q_strcat(IF full THEN <<>> ELSE buffer, IF full THEN 0 ELSE used, n, length)
        /\ UNCHANGED <<screen, openingLog, file>>

\* Whether the line opens the log first.
Opens == logging /\ ~logfile /\ ~openingLog

\* Com_Printf up to the opening of the log, or to its end: the flag is reset even
\* by a line that did not open it.
ToScreen ==
    LET n == Len(lines) + 1 IN
    /\ screen' = Append(screen, n)
    /\ openingLog' = IF Opens THEN TRUE ELSE IF logging THEN FALSE ELSE openingLog
    /\ file' = IF logging /\ logfile THEN Append(file, n) ELSE file
    /\ UNCHANGED <<sent, buffer, used>>

Com_Printf(length) ==
    /\ Len(lines) < MaxLines
    /\ Printed(length)
    /\ stack = <<>>
    /\ IF redirected THEN ToBuffer(length) /\ UNCHANGED stack
       ELSE /\ ToScreen
            /\ stack' = IF Opens THEN <<[line |-> Len(lines) + 1, at |-> "open"]>> ELSE <<>>
    /\ UNCHANGED <<remote, redirected, logging, logfile>>

\* A line printed while a call waits: the call goes on from there.
Nested(at) ==
    /\ Len(lines) < MaxLines
    /\ Printed(1)
    /\ ToScreen
    /\ stack' = LET waiting == [stack EXCEPT ![Len(stack)].at = at]
                IN  IF Opens THEN Append(waiting, [line |-> Len(lines) + 1, at |-> "open"])
                    ELSE waiting

Waits(at) == stack # <<>> /\ Last(stack).at = at

\* FS_FOpenFileWrite, which first says so with fs_debug.
OpenLog ==
    /\ Waits("open") /\ Len(stack) < MaxFrames
    /\ IF FsDebug THEN Nested("opened")
       ELSE /\ stack' = [stack EXCEPT ![Len(stack)].at = "opened"]
            /\ UNCHANGED <<lines, screen, openingLog, file, sent, buffer, used>>
    /\ UNCHANGED <<remote, redirected, logging, logfile>>

\* The file is open: "logfile opened on".
LogOpened ==
    /\ Waits("opened") /\ Len(lines) < MaxLines
    /\ logfile' = TRUE
    /\ Printed(1)
    /\ screen' = Append(screen, Len(lines) + 1)
    /\ openingLog' = FALSE
    /\ file' = Append(file, Len(lines) + 1)
    /\ stack' = [stack EXCEPT ![Len(stack)].at = "close"]
    /\ UNCHANGED <<remote, redirected, logging, sent, buffer, used>>

\* It is not: "Opening qconsole.log failed!", and only then no more log.
LogFailed ==
    /\ Waits("opened")
    /\ Nested("close")
    /\ UNCHANGED <<remote, redirected, logging, logfile>>

\* Mutant of LogDone: the line that opened the log is not written to it.
LogDoneWithoutLine ==
    /\ Waits("close")
    /\ logging' = logfile
    /\ openingLog' = FALSE
    /\ stack' = Front(stack)
    /\ UNCHANGED <<remote, redirected, logfile, file, lines, screen, sent, buffer, used>>

\* The end of the call that opened the log: Cvar_SetValue, and the line itself.
LogDone ==
    /\ Waits("close")
    /\ logging' = logfile
    /\ openingLog' = FALSE
    /\ file' = IF logfile THEN Append(file, Last(stack).line) ELSE file
    /\ stack' = Front(stack)
    /\ UNCHANGED <<remote, redirected, logfile, lines, screen, sent, buffer, used>>

-----------------------------------------------------------------------------
(* Commands *)

\* Com_EndRedirect: nothing when the redirection has ended already.
Com_EndRedirect ==
    /\ sent' = IF redirected THEN sent \o buffer ELSE sent
    /\ buffer' = <<>> /\ used' = 0
    /\ redirected' = FALSE

\* SVC_RemoteCommand, with Com_BeginRedirect; when the command returns.
RemoteCommand ==
    /\ remote = "none" /\ stack = <<>>
    /\ remote' = "rcon" /\ redirected' = TRUE /\ buffer' = <<>> /\ used' = 0
    /\ UNCHANGED <<sent, screen, logging, logfile, file, openingLog, stack, lines>>

RemoteCommandDone ==
    /\ remote # "none" /\ stack = <<>>
    /\ remote' = "none"
    /\ Com_EndRedirect
    /\ UNCHANGED <<screen, logging, logfile, file, openingLog, stack, lines>>

\* Mutant of Shutdown: the redirection goes on while the map loads.
ShutdownRedirected ==
    /\ stack = <<>> /\ remote # "loading"
    /\ remote' = IF remote = "rcon" THEN "loading" ELSE remote
    /\ openingLog' = FALSE
    /\ UNCHANGED <<redirected, buffer, used, sent, screen, logging, logfile, file, stack, lines>>

\* GAME_SHUTDOWN: by the console or by a command.  The proxy is unloaded: its
\* statics are new.
Shutdown ==
    /\ stack = <<>> /\ remote # "loading"
    /\ remote' = IF remote = "rcon" THEN "loading" ELSE remote
    /\ openingLog' = FALSE
    /\ Com_EndRedirect
    /\ UNCHANGED <<screen, logging, logfile, file, stack, lines>>

\* An error in the command stops the server: GAME_SHUTDOWN, and it never returns.
Error ==
    /\ remote = "rcon"
    /\ remote' = "none" /\ openingLog' = FALSE
    /\ Com_EndRedirect
    /\ UNCHANGED <<screen, logging, logfile, file, stack, lines>>

Next ==
    \/ \E length \in LineLengths : Com_Printf(length)
    \/ OpenLog \/ LogOpened \/ LogFailed \/ LogDone
    \/ RemoteCommand \/ RemoteCommandDone \/ Shutdown \/ Error

Spec == Init /\ [][Next]_vars

-----------------------------------------------------------------------------
(* Properties *)

\* The lines of a set, each once, in the order in which they were printed.
InOrder(ls, numbers) ==
    /\ \A i, j \in DOMAIN ls : i < j => ls[i] < ls[j]
    /\ ToSet(ls) = numbers

\* Nobody waits for a line in vain: what an rcon command printed is sent in its
\* order, each line once, but for lines longer than the buffer; what is printed
\* after it changed the map, or by nobody, is on the console (Com_Printf,
\* Shutdown of Module/GameExports.cpp).
EveryLineOnce ==
    /\ InOrder(sent \o buffer,
               {n \in DOMAIN lines : lines[n].command = "rcon" /\ lines[n].length < BufferSize})
    /\ InOrder(screen, {n \in DOMAIN lines : lines[n].command # "rcon"})
    /\ remote # "rcon" => buffer = <<>>

\* Once it is open and nobody waits, the log holds the lines of the console from
\* the one that opened it on, which comes just before "logfile opened on", each
\* once, though opening it prints lines too (Com_Printf).
LogKeepsUp ==
    ~FsDebug /\ logfile /\ logging /\ stack = <<>> =>
        /\ IsInjective(file)
        /\ \A n \in ToSet(screen) : n >= Head(file) - 1 => n \in ToSet(file)

\* What the comment of Com_Printf says: "avoid recursing in the qconsole.log opening
\* (i.e. if fs_debug is on)".
NoRecursion == Len(stack) <= 1

\* A line reaches the one who waits for it, and the log.
LinesArrive == EveryLineOnce /\ LogKeepsUp
=============================================================================
