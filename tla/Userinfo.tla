------------------------------ MODULE Userinfo ------------------------------
(***************************************************************************)
(* The userinfo of a client, from its connection: Sanitize cleans its name *)
(* (CleanName), then its forcepowers (ForcePowers), each as the client     *)
(* sent it; then the client changes its userinfo as often as it wants, and *)
(* SV_UpdateUserinfo_f lets some of the changes through (InfoFlood).  Each *)
(* change accepted is cleaned in the same way, and is not followed again.  *)
(***************************************************************************)
EXTENDS Integers, Sequences

CONSTANTS
    Chars, MaxTyped, MaxName,
    MinLength, MaxLength, LastSeparator, Powers, Buffer, MaxSent,
    Interval, MaxCount, MaxTime

VARIABLES
    stage,          \* "name", "model", "forcepowers" or "connected"
    typed, in, out, colorlessLen, cleaning,
    sent, i, seps, powersStart, badForce, checking,
    time, lastUserInfoChange, lastUserInfoCount, accepted

nameVars == <<typed, in, out, colorlessLen, cleaning>>
powerVars == <<sent, i, seps, powersStart, badForce, checking>>
floodVars == <<time, lastUserInfoChange, lastUserInfoCount, accepted>>
vars == <<stage, nameVars, powerVars, floodVars>>

N == INSTANCE CleanName
F == INSTANCE ForcePowers
L == INSTANCE InfoFlood

UserinfoConstants ==
    N!NameConstants /\ F!LengthsConstants /\ L!FloodConstants

TypeOK ==
    /\ stage \in {"name", "model", "forcepowers", "connected"}
    /\ N!TypeOK /\ F!TypeOK /\ L!TypeOK

Init ==
    /\ stage = "name"
    /\ N!Init /\ L!Init
    /\ sent = <<>> /\ i = 0 /\ seps = 0 /\ powersStart = 0
    /\ badForce = FALSE /\ checking = "length"

-----------------------------------------------------------------------------
\* Sanitize: the name first.
CleanTheName ==
    /\ stage = "name"
    /\ N!Next
    /\ UNCHANGED <<stage, powerVars, floodVars>>

\* The name is not followed any more.
NameCleaned ==
    /\ stage = "name" /\ cleaning = "done"
    /\ stage' = "model"
    /\ typed' = <<>> /\ in' = <<>> /\ out' = <<>>
    /\ colorlessLen' = 0 /\ cleaning' = "leading"
    /\ UNCHANGED <<powerVars, floodVars>>

\* The model and the colors are replaced or not, which nothing here depends on;
\* then come the forcepowers.
ModelReplaced ==
    /\ stage = "model"
    /\ stage' = "forcepowers"
    /\ \E n \in 0..MaxSent : sent' \in [1..n -> F!Classes]
    /\ UNCHANGED <<nameVars, i, seps, powersStart, badForce, checking, floodVars>>

CheckTheForcePowers ==
    /\ stage = "forcepowers"
    /\ F!Next
    /\ UNCHANGED <<stage, nameVars, floodVars>>

\* The client is connected.
ForcePowersChecked ==
    /\ stage = "forcepowers" /\ checking = "done"
    /\ stage' = "connected"
    /\ sent' = <<>> /\ i' = 0 /\ seps' = 0 /\ powersStart' = 0
    /\ badForce' = FALSE /\ checking' = "length"
    /\ UNCHANGED <<nameVars, floodVars>>

\* Its userinfo commands, and other connections to the slot.
SendUserinfos ==
    /\ stage = "connected"
    /\ L!Next
    /\ UNCHANGED <<stage, nameVars, powerVars>>

Next ==
    \/ CleanTheName \/ NameCleaned \/ ModelReplaced
    \/ CheckTheForcePowers \/ ForcePowersChecked
    \/ SendUserinfos

Spec == Init /\ [][Next]_vars

-----------------------------------------------------------------------------
(* Properties *)

\* No player is named by colors alone, at whatever length the name was cut
\* (Proxy_ClientCleanName).
SomethingToShow == N!SomethingToShow

\* forcepowers are kept exactly when the game can read them whole (Sanitize).
KeptExactlyReadable == F!KeptExactlyReadable

\* Fewer than two windows' worth of changes are accepted in any interval of the
\* length of a window (SV_UpdateUserinfo_f).
Bounded == L!Bounded

\* A change is refused only to a client that made as many as a window takes
\* within the last Interval (SV_UpdateUserinfo_f).
RefusedForARate ==
    [][stage = "connected" /\ L!Refuse => L!AtItsRate]_vars

\* A client changes its userinfo as often as it may, no less and no more.
ChangesAtTheirRate == []Bounded /\ RefusedForARate
=============================================================================
