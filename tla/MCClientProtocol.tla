-------------------------- MODULE MCClientProtocol --------------------------
(***************************************************************************)
(* Instances for TLC of how a client comes in: the challenge that it       *)
(* brings back (Challenge), and the messages of its connection             *)
(* (ClientProtocol).  Each is followed by itself: part says which.  The    *)
(* values are in the .cfg files.                                           *)
(***************************************************************************)
EXTENDS Challenge

CONSTANTS Pure, Chats, MaxId, MaxLosses, MaxTyped, Blocks

VARIABLES part, sv, cl, client, up, down, lost, typed

C == INSTANCE ClientProtocol

ASSUME ProtocolAssumption == C!ProtocolConstants

ProtocolSpec == C!Spec

protocolVars == <<sv, cl, client, up, down, lost, typed>>

MCInit ==
    /\ part \in {"challenge", "protocol"}
    /\ Init /\ C!Init

MCNext ==
    \/ part = "challenge" /\ Next /\ UNCHANGED <<part, protocolVars>>
    \/ part = "protocol" /\ C!Next /\ UNCHANGED <<part, vars>>

\* Both sides send in their frames, what is not lost arrives, and a map that the
\* client loads is loaded at last.  Nobody has to type, or to change the map.
MCFairSpec ==
    /\ MCInit /\ [][MCNext]_<<part, vars, protocolVars>>
    /\ WF_protocolVars(part = "protocol" /\ C!ReceiveClientMessage)
    /\ WF_protocolVars(part = "protocol" /\ C!SendClientMessage)
    /\ WF_protocolVars(part = "protocol" /\ C!ReceiveServerMessage)
    /\ WF_protocolVars(part = "protocol" /\ C!SendToServer)
    /\ WF_protocolVars(part = "protocol" /\ C!Loaded)

-----------------------------------------------------------------------------
\* A client is in the world of a map only when it has the gamestate of that map
\* (SV_UserMove, SV_MapRestart_f).
InTheWorldWithItsMap == C!InTheWorldWithItsMap

\* A stock client is never dropped by the protocol (SV_ClientCommand,
\* SV_NextDownload_f, SV_UserMove).
OnlyLeavesByItself == C!OnlyLeavesByItself

\* It enters the world of the last map, without a gamestate more than it needs
\* (SV_ExecuteClientMessage).
EntersTheMapOnce == (part = "protocol" => C!EntersTheMap) /\ C!GamestateNotRepeated

\* What docs/features.md says of it.
AlwaysEntersTheMap == part = "protocol" => C!AlwaysEntersTheMap
=============================================================================
