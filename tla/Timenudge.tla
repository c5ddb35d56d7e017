----------------------------- MODULE Timenudge ------------------------------
(***************************************************************************)
(* The timenudge of one client: PacketReceived of Engine/NetStatus.cpp     *)
(* collects the delays and the frames of a window of one second, and at    *)
(* its end estimates the timenudge, if the window tells enough.  What      *)
(* /netStatus shows is the median of the last three.  A client whose       *)
(* snapshots come too seldom has no estimate, and starts again.            *)
(*                                                                         *)
(* The estimate of a window is any value of Estimates.  The round trips    *)
(* are those of Pings; here, whether one is known.                         *)
(***************************************************************************)
EXTENDS Integers, Sequences

CONSTANTS
    WindowSamples,  \* 128
    Enough,         \* 10 delays
    Second,         \* the length of a window
    Estimates,      \* bound: what a window may give
    MaxNow,         \* bound: milliseconds
    MaxPackets      \* bound: packets in one millisecond

TimenudgeConstants ==
    /\ {WindowSamples, Enough, Second, MaxNow, MaxPackets} \subseteq Nat \ {0}
    /\ Estimates \subseteq Int

VARIABLES
    now,            \* the milliseconds, while they are positive
    packets,        \* those that came in this one
    clockValid,     \* continuousClock.valid
    interval,       \* of the snapshots: "short", or "long": 95 ms or more
    window,         \* the samples of the window, and when it started
    median,         \* history, historyIndex, historyFilled
    shown,          \* timenudge and timenudgeKnown
    estimated       \* history: the estimates since the client began, or began again

timenudgeVars == <<now, packets, clockValid, interval, window, median, shown, estimated>>

NewMedian == [history |-> [i \in 0..2 |-> 0], index |-> 0, filled |-> FALSE]

Init ==
    /\ now = 1 /\ packets = 0 /\ clockValid = FALSE /\ interval = "short"
    /\ window = [delays |-> 0, lags |-> 0, start |-> 0]
    /\ median = NewMedian
    /\ shown = [timenudge |-> 0, known |-> FALSE]
    /\ estimated = <<>>

-----------------------------------------------------------------------------
(* The window *)

\* The delay of a usercmd that is new, and the frame since the one before it.
Sampled(fresh, follows) ==
    IF clockValid /\ fresh /\ window.delays < WindowSamples
    THEN [window EXCEPT !.delays = @ + 1, !.lags = IF follows THEN @ + 1 ELSE @]
    ELSE window

Ended == now - window.start >= Second

\* Mutant of WindowAfter: the frames are kept.
WindowKeepsLags(w) == IF Ended THEN [w EXCEPT !.delays = 0, !.start = now] ELSE w

WindowAfter(w) == IF Ended THEN [delays |-> 0, lags |-> 0, start |-> now] ELSE w

\* Whether the window tells enough.
Tells(w, rttKnown) == Ended /\ w.delays >= Enough /\ rttKnown /\ w.lags > 0

-----------------------------------------------------------------------------
(* The median of three windows *)

Max2(a, b) == IF a > b THEN a ELSE b
Min2(a, b) == IF a < b THEN a ELSE b
Median3(a, b, c) == Max2(Min2(a, b), Min2(Max2(a, b), c))

Kept(nudge) ==
    LET next == (median.index + 1) % 3
    IN  [history |-> [median.history EXCEPT ![median.index] = nudge],
         index |-> next, filled |-> median.filled \/ next = 0]

\* Mutant of Restarted: the place in the history is kept.
RestartedInPlace == [median EXCEPT !.filled = FALSE]

Restarted == [median EXCEPT !.index = 0, !.filled = FALSE]

Estimate(nudge) ==
    LET kept == Kept(nudge) IN
    /\ median' = kept
    /\ shown' = [timenudge |-> IF kept.filled
                               THEN Median3(kept.history[0], kept.history[1], kept.history[2])
                               ELSE nudge,
                 known |-> TRUE]
    /\ estimated' = Append(estimated, nudge)

TooLong ==
    /\ median' = Restarted
    /\ shown' = [shown EXCEPT !.known = FALSE]
    /\ estimated' = <<>>

-----------------------------------------------------------------------------
(* Actions *)

Tick ==
    /\ now < MaxNow
    /\ now' = now + 1 /\ packets' = 0
    /\ UNCHANGED <<clockValid, interval, window, median, shown, estimated>>

FrameClock ==
    /\ clockValid' = TRUE
    /\ UNCHANGED <<now, packets, interval, window, median, shown, estimated>>

\* SnapshotSent, of which the mean interval matters.
SnapshotSent(mean) ==
    /\ interval' = mean
    /\ UNCHANGED <<now, packets, clockValid, window, median, shown, estimated>>

\* fresh: the newest usercmd was not received before.  follows: the time of the one
\* before it is known, and is up to 100 ms earlier.
PacketReceived(fresh, follows, rttKnown) ==
    /\ packets < MaxPackets
    /\ packets' = packets + 1
    /\ LET w == Sampled(fresh, follows) IN
       /\ window' = WindowAfter(w)
       /\ IF ~Tells(w, rttKnown) THEN UNCHANGED <<median, shown, estimated>>
          ELSE IF interval = "long" THEN TooLong
          ELSE \E nudge \in Estimates : Estimate(nudge)
    /\ UNCHANGED <<now, clockValid, interval>>

Next ==
    \/ Tick \/ FrameClock
    \/ \E mean \in {"short", "long"} : SnapshotSent(mean)
    \/ \E fresh, follows, rttKnown \in BOOLEAN : PacketReceived(fresh, follows, rttKnown)

-----------------------------------------------------------------------------
(* Properties *)

\* However many packets a client sends in a window, and however many windows end
\* without an estimate, the frames fit in frameLag, and there is a frame for no
\* more usercmds than there are delays (PacketReceived, Engine/NetStatus.cpp).
WindowFits == window.lags <= window.delays /\ window.delays <= WindowSamples

\* "The median of the last three windows hides a single bad one": once three windows
\* were estimated, what is shown is one of the last three, and no two of them are
\* below it or above it; none of before the snapshots came too seldom counts.
TimenudgeOfRecentWindows ==
    shown.known =>
        LET n == Len(estimated)
            last == IF n < 3 THEN {n} ELSE {n - 2, n - 1, n}
        IN  /\ n > 0
            /\ \E i \in last : shown.timenudge = estimated[i]
            /\ \A i, j \in last : i # j =>
                  /\ ~(estimated[i] < shown.timenudge /\ estimated[j] < shown.timenudge)
                  /\ ~(estimated[i] > shown.timenudge /\ estimated[j] > shown.timenudge)

\* The windows and the median of the last three.
TimenudgeAsShown == WindowFits /\ TimenudgeOfRecentWindows
=============================================================================
