----------------------------- MODULE InfoFlood ------------------------------
(***************************************************************************)
(* The limit on the userinfo commands of one client, SV_UpdateUserinfo_f   *)
(* (Engine/Hooks/server/sv_client.cpp) in a release build (FINAL_BUILD):   *)
(* a change opens a window of Interval, and a window takes MaxCount        *)
(* changes.  svs.time goes on through the map changes; a new connection    *)
(* starts with a cleared client_t.                                         *)
(***************************************************************************)
EXTENDS Integers, Sequences

CONSTANTS
    Interval,   \* INFO_CHANGE_MIN_INTERVAL: 6000 ms
    MaxCount,   \* INFO_CHANGE_MAX_COUNT: 3
    MaxTime     \* bound: last time

FloodConstants ==
    Interval \in Nat \ {0} /\ MaxCount \in Nat \ {0} /\ MaxTime \in Nat

VARIABLES
    time,               \* svs.time
    lastUserInfoChange, \* the end of the window
    lastUserInfoCount,  \* changes asked for in it, but for the first
    accepted            \* history: the times of the changes accepted

vars == <<time, lastUserInfoChange, lastUserInfoCount, accepted>>

TypeOK ==
    /\ time \in Nat
    /\ lastUserInfoChange \in 0..(time + Interval)
    /\ lastUserInfoCount \in Nat
    /\ accepted \in Seq(0..time)

Init ==
    /\ time = 0
    /\ lastUserInfoChange = 0
    /\ lastUserInfoCount = 0
    /\ accepted = <<>>

InWindow == lastUserInfoChange > time

Accept == accepted' = Append(accepted, time)

\* Mutant of OpenWindow: the count goes on from the last window.
OpenWindowKeepsCount ==
    /\ ~InWindow
    /\ lastUserInfoChange' = time + Interval
    /\ Accept
    /\ UNCHANGED <<time, lastUserInfoCount>>

\* A change outside of a window opens one.
OpenWindow ==
    /\ ~InWindow
    /\ lastUserInfoCount' = 0
    /\ lastUserInfoChange' = time + Interval
    /\ Accept
    /\ UNCHANGED time

\* Mutant of TooMany: one change too many.
TooManyButOne == lastUserInfoCount + 1 > MaxCount

TooMany == lastUserInfoCount + 1 >= MaxCount

Change ==
    /\ InWindow
    /\ ~TooMany
    /\ lastUserInfoCount' = lastUserInfoCount + 1
    /\ Accept
    /\ UNCHANGED <<time, lastUserInfoChange>>

\* The change is counted all the same, but the window does not move.
Refuse ==
    /\ InWindow
    /\ TooMany
    /\ lastUserInfoCount < 2 * MaxCount     \* bound
    /\ lastUserInfoCount' = lastUserInfoCount + 1
    /\ UNCHANGED <<time, lastUserInfoChange, accepted>>

Tick ==
    /\ time < MaxTime
    /\ time' = time + 1
    /\ UNCHANGED <<lastUserInfoChange, lastUserInfoCount, accepted>>

Connect ==
    /\ lastUserInfoChange' = 0
    /\ lastUserInfoCount' = 0
    /\ accepted' = <<>>
    /\ UNCHANGED time

Next == OpenWindow \/ Change \/ Refuse \/ Tick \/ Connect

Spec == Init /\ [][Next]_vars

-----------------------------------------------------------------------------
(* Properties *)

\* However the changes fall on the windows, fewer than two windows' worth are
\* accepted in any interval of that length: the game, and every player it tells
\* of a new name, sees at most 5 changes of a client in 6 seconds.
Bounded ==
    \A i \in 1..Len(accepted) :
        i + 2 * MaxCount - 1 <= Len(accepted)
            => accepted[i + 2 * MaxCount - 1] - accepted[i] >= Interval

\* The client made MaxCount changes within the last Interval: only then may one be
\* refused.  One that waits is always heard, and one that goes on sending while
\* it is refused does not make its window longer.
AtItsRate ==
    /\ Len(accepted) >= MaxCount
    /\ accepted[Len(accepted) - MaxCount + 1] > time - Interval
=============================================================================
