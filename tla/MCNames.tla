------------------------------ MODULE MCNames ------------------------------
(***************************************************************************)
(* Instances for TLC of what becomes of the userinfo of a client: the name *)
(* that is shown to the others (Names), the characters of the fields and   *)
(* how often they change (Userinfo), and the string that holds them        *)
(* (InfoString).  Each is followed by itself: part says which.             *)
(***************************************************************************)
EXTENDS Names, TLC

CONSTANTS
    b, star,
    Chars, MaxTyped, NameSize, MinLength, MaxLength, LastSeparator, Powers, Buffer, MaxSent,
    Interval, MaxCount, MaxTime,
    MaxInfo, MaxPairs

VARIABLES
    part,
    stage, typed, in, out, colorlessLen, cleaning,
    sent, i, seps, powersStart, badForce, checking,
    time, lastUserInfoChange, lastUserInfoCount, accepted,
    info, client

userinfoVars == <<stage, typed, in, out, colorlessLen, cleaning,
                  sent, i, seps, powersStart, badForce, checking,
                  time, lastUserInfoChange, lastUserInfoCount, accepted>>
infoVars == <<info, client>>

U == INSTANCE Userinfo WITH MaxName <- NameSize
I == INSTANCE InfoString

ASSUME PartsAssumption == U!UserinfoConstants /\ I!InfoConstants

\* "Bob", and "* *Bob[1]", which is cut to take a number of its own; the second
\* cleaning makes it "Bob[1]", which shows as a numbered "Bob" but for its color.
Bob == [text |-> <<b>>, style |-> "plain"]
Stars == [text |-> <<star, b, 1>>, style |-> "stars"]

FewTyped == {Bob, Stars}

TwoCleanings ==
    (Stars :> [Stars EXCEPT !.style = "spaces"]) @@
    [n \in {[text |-> <<star, b, k>>, style |-> "spaces"] : k \in Numbers}
        |-> [text |-> <<b, n.text[3]>>, style |-> "red"]]

MCInit ==
    /\ part \in {"names", "userinfo", "info"}
    /\ Init /\ U!Init /\ I!Init
    /\ part # "userinfo" => typed = <<>>

MCNext ==
    \/ part = "names" /\ Next /\ UNCHANGED <<part, userinfoVars, infoVars>>
    \/ part = "userinfo" /\ U!Next /\ UNCHANGED <<part, vars, infoVars>>
    \/ part = "info" /\ I!Next /\ UNCHANGED <<part, vars, userinfoVars>>

MCSpec == MCInit /\ [][MCNext]_<<part, vars, userinfoVars, infoVars>>

-----------------------------------------------------------------------------
\* No player is named by colors alone (Proxy_ClientCleanName).
SomethingToShow == U!SomethingToShow

\* forcepowers are kept exactly when the game can read them whole (Sanitize).
KeptExactlyReadable == U!KeptExactlyReadable

\* A client changes its userinfo as often as a window lets it (SV_UpdateUserinfo_f).
ChangesAtTheirRate == U!ChangesAtTheirRate

\* The game reads the keys that the proxy has checked, and an "ip" to be banned by
\* (Sanitize, SV_UserinfoChanged).
ReadAsSet == I!ReadAsSet

\* What docs/features.md says of the "ip".
IpOfTheConnection == I!IpOfTheConnection
=============================================================================
