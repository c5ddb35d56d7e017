------------------------- MODULE ClientSlotsProofs -------------------------
(***************************************************************************)
(* Proofs about ClientSlots, for any set of slots, of humans and of bots,  *)
(* any addresses and any limit.                                            *)
(*                                                                         *)
(* Type correctness comes first.  The five safety invariants of the slots  *)
(* are then proved together: none of them is inductive alone, because what *)
(* the proxy keeps of a slot only makes sense with what the engine and the *)
(* game keep of it.  SlotAgrees(s) says all of it for one slot; an engine  *)
(* call touches one slot, and a map change rewrites all of them.           *)
(***************************************************************************)
EXTENDS ClientSlots, FiniteSetTheorems, TLAPS

-----------------------------------------------------------------------------
(* Type correctness *)

\* What the engine makes of a dropped client is a slot.
LEMMA DroppedType ==
    ASSUME NEW s \in Slots, slot[s] \in SlotType
    PROVE  Dropped(s) \in SlotType
  BY DEF Dropped, HumanIn, FreeSlot, SlotType, States, Address, Clients

\* The initial values of the proxy's data have their types.
LEMMA NoDataType == NoData \in DataType /\ FreeSlot \in SlotType
  BY DEF NoData, FreeSlot, SlotType, DataType, States, Address, Clients

\* A step that gives the slots, the proxy's data and the configstrings their
\* types and leaves the rest alone keeps every type.
LEMMA RestTyped ==
    ASSUME TypeOK,
           slot' \in [Slots -> SlotType], data' \in [Slots -> DataType],
           shown' \subseteq Slots,
           UNCHANGED <<vote, voteAddr, kick, banned, limit>>
    PROVE  TypeOK'
  BY DEF TypeOK

\* Dropping the client of a slot gives well-typed values.
LEMMA DropClientType ==
    ASSUME TypeOK, NEW s \in Slots, DropClient(s)
    PROVE  /\ slot' \in [Slots -> SlotType]
           /\ data' \in [Slots -> DataType]
           /\ shown' \subseteq Slots
<1>1. Dropped(s) \in SlotType
  BY DroppedType DEF TypeOK
<1>2. QED
  BY <1>1, NoDataType DEF DropClient, TypeOK

\* What a human may be known by is an address, and not the empty one.
LEMMA AddressesOfType ==
    \A h \in Humans : AddressesOf(h) \subseteq Address /\ NoAddr \notin AddressesOf(h)
  BY ClientsAssumption DEF Address, Addrs, AddressesOf

LEMMA ConnectType ==
    ASSUME TypeOK, NEW s \in Slots, NEW h \in Humans, NEW ip \in Address,
           NEW valid \in BOOLEAN, NEW accepted \in BOOLEAN,
           Connect(s, h, ip, valid, accepted)
    PROVE  TypeOK'
<1> DEFINE checked == ~Refused(s, ip, TRUE) /\ valid
           old == IF slot[s].state = "free" THEN data[s] ELSE NoData
<1>2. UNCHANGED <<vote, voteAddr, kick, banned, limit>>
  BY DEF Connect
<1>3. CASE checked /\ accepted
  <2>1. slot' = [slot EXCEPT ![s] = [state |-> "loading", who |-> h, ip |-> ip]]
    BY <1>3 DEF Connect
  <2>2. data' = [data EXCEPT ![s] = [NoData EXCEPT !.address = ip, !.welcome = TRUE]]
    BY <1>3 DEF Connect
  <2>3. shown' \subseteq Slots
    BY <1>3 DEF Connect, TypeOK
  <2>4. [state |-> "loading", who |-> h, ip |-> ip] \in SlotType
    BY DEF SlotType, States, Clients
  <2>5. [NoData EXCEPT !.address = ip, !.welcome = TRUE] \in DataType
    BY DEF NoData, DataType
  <2>6. slot' \in [Slots -> SlotType] /\ data' \in [Slots -> DataType]
    BY <2>1, <2>2, <2>4, <2>5 DEF TypeOK
  <2>7. QED
    BY <1>2, <2>3, <2>6, RestTyped
<1>4. CASE ~(checked /\ accepted)
  <2>1. slot' = [slot EXCEPT ![s] = FreeSlot]
    BY <1>4 DEF Connect
  <2>2. data' = [data EXCEPT ![s] = [old EXCEPT !.welcome = checked \/ old.welcome]]
    BY <1>4 DEF Connect
  <2>3. shown' \subseteq Slots
    BY <1>4 DEF Connect, TypeOK
  <2>4. old \in DataType
    BY NoDataType DEF TypeOK
  <2> HIDE DEF checked, old
  <2>5. [old EXCEPT !.welcome = checked \/ old.welcome] \in DataType
    BY <2>4 DEF DataType
  <2>6. slot' \in [Slots -> SlotType] /\ data' \in [Slots -> DataType]
    BY <2>1, <2>2, <2>5, NoDataType DEF TypeOK
  <2>7. QED
    BY <1>2, <2>3, <2>6, RestTyped
<1>5. QED
  BY <1>3, <1>4

LEMMA UpdateUserinfoType ==
    ASSUME TypeOK, NEW s \in Slots, NEW ip \in Address, NEW valid \in BOOLEAN,
           UpdateUserinfo(s, ip, valid)
    PROVE  TypeOK'
<1> DEFINE afterEngine == IF ip # NoAddr THEN [slot[s] EXCEPT !.ip = ip]
                                         ELSE Dropped(s)
<1>1. afterEngine \in SlotType
  <2>1. slot[s] \in SlotType
    BY DEF TypeOK
  <2>2. Dropped(s) \in SlotType
    BY <2>1, DroppedType
  <2>3. QED
    BY <2>1, <2>2 DEF SlotType
<1>2. \/ DropClient(s)
      \/ slot' = [slot EXCEPT ![s] = afterEngine] /\ shown' = shown \cup {s} /\ data' = data
  BY DEF UpdateUserinfo
<1>3. UNCHANGED <<vote, voteAddr, kick, banned, limit>>
  BY DEF UpdateUserinfo
<1> HIDE DEF afterEngine
<1>4. /\ slot' \in [Slots -> SlotType]
      /\ data' \in [Slots -> DataType]
      /\ shown' \subseteq Slots
  BY <1>1, <1>2, DropClientType DEF TypeOK
<1>5. QED
  BY <1>3, <1>4, RestTyped

LEMMA MapChangeType ==
    ASSUME TypeOK, NEW restart \in BOOLEAN, NEW refused \in SUBSET Slots,
           MapChange(restart, refused)
    PROVE  TypeOK'
<1>1. slot' \in [Slots -> SlotType]
  <2>1. \A s \in Slots : /\ [slot[s] EXCEPT !.state = "active"] \in SlotType
                         /\ [slot[s] EXCEPT !.state = "loading"] \in SlotType
                         /\ Dropped(s) \in SlotType
                         /\ slot[s] \in SlotType
    BY DroppedType DEF TypeOK, SlotType, States
  <2>2. \A s \in Slots : Reconnected(s, restart, refused) \in SlotType
    BY <2>1, Zenon DEF Reconnected
  <2>3. QED
    BY <2>2 DEF MapChange
<1>2. data' \in [Slots -> DataType]
  <2>1. \A s \in Slots : slot[s].ip \in Address
    BY DEF TypeOK, SlotType
  <2>2. \A a \in Address, c \in BOOLEAN :
           [NoData EXCEPT !.address = a, !.isConnected = c] \in DataType
    BY DEF NoData, DataType
  <2>3. NoAddr \in Address
    BY DEF Address
  <2> DEFINE ip(s) == IF s \in Kept(refused) THEN slot[s].ip ELSE NoAddr
             in(s) == s \in Entered(restart, refused)
             after(s) == [NoData EXCEPT !.address = ip(s), !.isConnected = in(s)]
  <2>4. \A s \in Slots : ip(s) \in Address /\ in(s) \in BOOLEAN
    BY <2>1, <2>3
  <2>5. data' = [s \in Slots |-> after(s)]
    BY DEF MapChange
  <2> HIDE DEF ip, in
  <2>6. \A s \in Slots : after(s) \in DataType
    BY <2>2, <2>4
  <2> HIDE DEF after
  <2>7. QED
    BY <2>5, <2>6
<1>3. shown' \subseteq Slots
  BY DEF MapChange, Kept
<1>4. vote' = NoVote /\ voteAddr' \in [Slots -> Address] /\ UNCHANGED <<kick, banned, limit>>
  BY DEF MapChange, Address
<1>5. QED
  BY <1>1, <1>2, <1>3, <1>4 DEF TypeOK

\* The steps of a kick vote leave the slots alone and keep the types.
LEMMA QueueKickType ==
    ASSUME TypeOK, vote.stage = "passed", QueueKick
    PROVE  kick' \in {NoKick} \cup KickType
  BY DEF TypeOK, QueueKick, KickType, NoVote, VoteType

LEMMA CallVoteType ==
    ASSUME TypeOK, NEW s \in Slots, NEW target \in Slots, CallVote(s, target),
           slot[target].who \in Clients
    PROVE  TypeOK'
<1>1. kick' \in {NoKick} \cup KickType
  BY QueueKickType DEF CallVote, TypeOK
<1>2. vote' \in VoteType
  BY DEF CallVote, VoteType, TypeOK, DataType
<1>3. voteAddr' \in [Slots -> Address]
  BY DEF CallVote, TypeOK, DataType
<1>4. UNCHANGED <<slot, data, shown, banned, limit>>
  BY DEF CallVote
<1>5. QED
  BY <1>1, <1>2, <1>3, <1>4 DEF TypeOK

-----------------------------------------------------------------------------
(* The three programs agree on every slot *)

\* What holds of one slot between two engine calls.
SlotAgrees(s) ==
    /\ s \in shown <=> InUse(s)
    /\ slot[s].who = Nobody <=> slot[s].state = "free"
    /\ slot[s].state \in {"zombie", "loading"} => HumanIn(s)
    /\ data[s].address \in KnownBy(s) /\ slot[s].ip \in KnownBy(s)
    /\ data[s].isConnected => slot[s].state = "active"
    /\ HumanIn(s) /\ slot[s].state = "active" => data[s].isConnected
    /\ data[s].muted # Nobody => data[s].muted = slot[s].who /\ InUse(s)
    /\ data[s].welcome /\ HumanIn(s) => slot[s].state = "loading"

\* The inductive invariant.
SlotsAgree == TypeOK /\ \A s \in Slots : SlotAgrees(s)

\* A slot that a step does not touch still agrees.
LEMMA OtherSlotAgrees ==
    ASSUME NEW t \in Slots, SlotAgrees(t),
           slot'[t] = slot[t], data'[t] = data[t], t \in shown' <=> t \in shown
    PROVE  SlotAgrees(t)'
  BY DEF SlotAgrees, KnownBy, InUse, HumanIn

\* A step that touches one slot, and leaves that one in agreement, is enough.
LEMMA OneSlotStep ==
    ASSUME SlotsAgree, NEW s \in Slots,
           NEW x, NEW y,
           slot' = [slot EXCEPT ![s] = x], data' = [data EXCEPT ![s] = y],
           shown' = shown \cup {s} \/ shown' = shown \ {s} \/ shown' = shown,
           SlotAgrees(s)'
    PROVE  \A t \in Slots : SlotAgrees(t)'
<1> SUFFICES ASSUME NEW t \in Slots, t # s PROVE SlotAgrees(t)'
  OBVIOUS
<1>1. slot'[t] = slot[t] /\ data'[t] = data[t] /\ (t \in shown' <=> t \in shown)
  BY DEF SlotsAgree, TypeOK
<1>2. QED
  BY <1>1, OtherSlotAgrees DEF SlotsAgree

\* A step that leaves the slots alone keeps the agreement.
LEMMA NoSlotStep ==
    ASSUME SlotsAgree, UNCHANGED <<slot, data, shown>>
    PROVE  \A t \in Slots : SlotAgrees(t)'
  BY OtherSlotAgrees DEF SlotsAgree

\* The slot of a dropped client agrees: it is empty for the three programs.
LEMMA DropClientAgrees ==
    ASSUME SlotsAgree, NEW s \in Slots, DropClient(s)
    PROVE  \A t \in Slots : SlotAgrees(t)'
<1>1. slot'[s] = Dropped(s) /\ data'[s] = NoData /\ s \notin shown'
  BY DEF DropClient, SlotsAgree, TypeOK
<1>2. SlotAgrees(s)'
  BY <1>1, ClientsAssumption
     DEF SlotAgrees, KnownBy, Dropped, FreeSlot, NoData, InUse, HumanIn, Clients
<1>3. QED
  BY <1>2, OneSlotStep DEF DropClient

LEMMA ConnectAgrees ==
    ASSUME SlotsAgree, NEW s \in Slots, NEW h \in Humans, NEW ip \in Address,
           NEW valid \in BOOLEAN, NEW accepted \in BOOLEAN,
           Connect(s, h, ip, valid, accepted)
    PROVE  \A t \in Slots : SlotAgrees(t)'
<1> DEFINE checked == ~Refused(s, ip, TRUE) /\ valid
           old == IF slot[s].state = "free" THEN data[s] ELSE NoData
<1>1. CASE checked /\ accepted
  <2> DEFINE newSlot == [state |-> "loading", who |-> h, ip |-> ip]
             newData == [NoData EXCEPT !.address = ip, !.welcome = TRUE]
  <2>1. /\ slot' = [slot EXCEPT ![s] = newSlot]
        /\ data' = [data EXCEPT ![s] = newData]
        /\ shown' = shown \cup {s}
    BY <1>1 DEF Connect
  <2>2. ip \in AddressesOf(h)
    BY <1>1 DEF Connect, Refused
  <2>3. slot'[s] = newSlot /\ data'[s] = newData /\ s \in shown'
    BY <2>1 DEF SlotsAgree, TypeOK
  <2>4. SlotAgrees(s)'
    BY <2>2, <2>3, ClientsAssumption DEF SlotAgrees, KnownBy, NoData, InUse, HumanIn, Clients
  <2> HIDE DEF newSlot, newData
  <2>5. QED
    BY <2>1, <2>4, OneSlotStep
<1>2. CASE ~(checked /\ accepted)
  <2> DEFINE newData == [old EXCEPT !.welcome = checked \/ old.welcome]
  <2>1. /\ slot' = [slot EXCEPT ![s] = FreeSlot]
        /\ data' = [data EXCEPT ![s] = newData]
        /\ shown' = shown \ {s}
    BY <1>2 DEF Connect
  <2>2. /\ old \in DataType
        /\ old.address = NoAddr /\ ~old.isConnected /\ old.muted = Nobody
    BY ClientsAssumption, NoDataType
       DEF SlotsAgree, SlotAgrees, KnownBy, TypeOK, NoData, InUse, HumanIn, Clients
  <2> HIDE DEF old, checked
  <2>3. newData.address = NoAddr /\ ~newData.isConnected /\ newData.muted = Nobody
    BY <2>2 DEF DataType
  <2>4. slot'[s] = FreeSlot /\ data'[s] = newData /\ s \notin shown'
    BY <2>1 DEF SlotsAgree, TypeOK
  <2> HIDE DEF newData
  <2>5. SlotAgrees(s)'
    BY <2>3, <2>4, ClientsAssumption DEF SlotAgrees, KnownBy, FreeSlot, InUse, HumanIn, Clients
  <2>6. QED
    BY <2>1, <2>5, OneSlotStep
<1>3. QED
  BY <1>1, <1>2

LEMMA BeginAgrees ==
    ASSUME SlotsAgree, NEW s \in Slots, Begin(s)
    PROVE  \A t \in Slots : SlotAgrees(t)'
<1> DEFINE newSlot == [slot[s] EXCEPT !.state = "active"]
           newData == [data[s] EXCEPT !.isConnected = TRUE, !.welcome = FALSE]
<1>1. /\ slot' = [slot EXCEPT ![s] = newSlot]
      /\ data' = [data EXCEPT ![s] = newData]
      /\ shown' = shown
  BY DEF Begin, SlotsAgree, TypeOK, DataType
<1>2. slot'[s] = newSlot /\ data'[s] = newData
  BY <1>1 DEF SlotsAgree, TypeOK
<1>3. /\ newSlot.state = "active" /\ newSlot.who = slot[s].who /\ newSlot.ip = slot[s].ip
      /\ newData.isConnected /\ ~newData.welcome
      /\ newData.address = data[s].address /\ newData.muted = data[s].muted
  BY DEF SlotsAgree, TypeOK, SlotType, DataType
<1> HIDE DEF newSlot, newData
<1>4. SlotAgrees(s)'
  BY <1>1, <1>2, <1>3 DEF Begin, SlotsAgree, SlotAgrees, KnownBy, InUse, HumanIn
<1>5. QED
  BY <1>1, <1>4, OneSlotStep

LEMMA ZombieTimeoutAgrees ==
    ASSUME SlotsAgree, NEW s \in Slots, ZombieTimeout(s)
    PROVE  \A t \in Slots : SlotAgrees(t)'
<1>1. slot'[s] = FreeSlot /\ data' = data /\ data' = [data EXCEPT ![s] = data[s]]
  BY DEF ZombieTimeout, SlotsAgree, TypeOK
<1>2. SlotAgrees(s)'
  BY <1>1, ClientsAssumption
     DEF ZombieTimeout, SlotsAgree, SlotAgrees, KnownBy, FreeSlot, InUse, HumanIn, Clients
<1>3. QED
  BY <1>1, <1>2, OneSlotStep DEF ZombieTimeout

LEMMA AddBotAgrees ==
    ASSUME SlotsAgree, NEW s \in Slots, NEW b \in Bots, AddBot(s, b)
    PROVE  \A t \in Slots : SlotAgrees(t)'
<1> DEFINE newSlot == [state |-> "active", who |-> b, ip |-> NoAddr]
           newData == [data[s] EXCEPT !.isConnected = TRUE, !.welcome = FALSE]
<1>1. slot' = [slot EXCEPT ![s] = newSlot] /\ shown' = shown \cup {s}
  BY DEF AddBot
<1>2. PICK y : /\ data' = [data EXCEPT ![s] = y]
               /\ y.address = data[s].address /\ y.muted = data[s].muted
  <2>1. CASE data' = data
    BY <2>1 DEF SlotsAgree, TypeOK
  <2>2. CASE data' = [data EXCEPT ![s] = newData]
    <3>1. newData.address = data[s].address /\ newData.muted = data[s].muted
      BY DEF SlotsAgree, TypeOK, DataType
    <3> HIDE DEF newData
    <3>2. QED
      BY <2>2, <3>1
  <2>3. data' = data \/ data' = [data EXCEPT ![s] = newData]
    BY DEF AddBot, SlotsAgree, TypeOK, DataType
  <2>4. QED
    BY <2>1, <2>2, <2>3
<1>3. slot'[s] = newSlot /\ data'[s] = y /\ s \in shown'
  BY <1>1, <1>2 DEF SlotsAgree, TypeOK
<1>4. SlotAgrees(s)'
  BY <1>2, <1>3, ClientsAssumption
     DEF AddBot, SlotsAgree, SlotAgrees, KnownBy, InUse, HumanIn, Clients
<1>5. QED
  BY <1>1, <1>2, <1>4, OneSlotStep

LEMMA UpdateUserinfoAgrees ==
    ASSUME SlotsAgree, NEW s \in Slots, NEW ip \in Address, NEW valid \in BOOLEAN,
           UpdateUserinfo(s, ip, valid)
    PROVE  \A t \in Slots : SlotAgrees(t)'
<1>1. CASE DropClient(s)
  BY <1>1, DropClientAgrees
<1>2. CASE ~DropClient(s)
  <2> DEFINE newSlot == [slot[s] EXCEPT !.ip = ip]
  <2>1. HumanIn(s) /\ InUse(s) /\ s \in shown /\ Dropped(s).ip = NoAddr
    BY DEF UpdateUserinfo, Dropped, SlotsAgree, SlotAgrees
  <2>2. /\ ip \in AddressesOf(slot[s].who)
        /\ slot' = [slot EXCEPT ![s] = newSlot] /\ shown' = shown \cup {s}
        /\ data' = data /\ data' = [data EXCEPT ![s] = data[s]]
    BY <1>2, <2>1 DEF UpdateUserinfo, SlotsAgree, TypeOK
  <2>3. /\ newSlot.ip = ip /\ newSlot.who = slot[s].who
        /\ newSlot.state = slot[s].state
    BY DEF SlotsAgree, TypeOK, SlotType
  <2>4. slot'[s] = newSlot
    BY <2>2 DEF SlotsAgree, TypeOK
  <2> HIDE DEF newSlot
  <2>5. SlotAgrees(s)'
    BY <2>1, <2>2, <2>3, <2>4 DEF SlotsAgree, SlotAgrees, KnownBy, InUse, HumanIn
  <2>6. QED
    BY <2>2, <2>5, OneSlotStep
<1>3. QED
  BY <1>1, <1>2

LEMMA MuteAgrees ==
    ASSUME SlotsAgree, NEW s \in Slots, Mute(s) \/ Unmute(s)
    PROVE  \A t \in Slots : SlotAgrees(t)'
<1>1. PICK who \in {slot[s].who, Nobody} : data' = [data EXCEPT ![s].muted = who]
  BY DEF Mute, Unmute
<1> DEFINE newData == [data[s] EXCEPT !.muted = who]
<1>2. data' = [data EXCEPT ![s] = newData] /\ data'[s] = newData
  BY <1>1 DEF SlotsAgree, TypeOK, DataType
<1>3. /\ newData.address = data[s].address /\ newData.isConnected = data[s].isConnected
      /\ newData.welcome = data[s].welcome /\ newData.muted = who
  BY DEF SlotsAgree, TypeOK, DataType
<1>4. data[s].isConnected /\ UNCHANGED <<slot, shown>> /\ slot' = [slot EXCEPT ![s] = slot[s]]
  BY DEF Mute, Unmute, SlotsAgree, TypeOK
<1> HIDE DEF newData
<1>5. SlotAgrees(s)'
  BY <1>2, <1>3, <1>4 DEF SlotsAgree, SlotAgrees, KnownBy, InUse, HumanIn
<1>6. QED
  BY <1>2, <1>4, <1>5, OneSlotStep

LEMMA MapChangeAgrees ==
    ASSUME SlotsAgree, NEW restart \in BOOLEAN, NEW refused \in SUBSET Slots,
           MapChange(restart, refused)
    PROVE  \A t \in Slots : SlotAgrees(t)'
<1> SUFFICES ASSUME NEW s \in Slots PROVE SlotAgrees(s)'
  OBVIOUS
<1> DEFINE ip == IF s \in Kept(refused) THEN slot[s].ip ELSE NoAddr
           in == s \in Entered(restart, refused)
           newData == [NoData EXCEPT !.address = ip, !.isConnected = in]
<1>1. /\ slot'[s] = Reconnected(s, restart, refused)
      /\ data'[s] = newData
      /\ s \in shown' <=> s \in Kept(refused)
  BY DEF MapChange
<1>2. /\ newData.address = ip /\ newData.isConnected = in
      /\ ~newData.welcome /\ newData.muted = Nobody
  BY DEF NoData
<1> HIDE DEF newData
<1>3. CASE s \in Entered(restart, refused)
  <2>1. slot'[s] = [slot[s] EXCEPT !.state = "active"]
    BY <1>1, <1>3 DEF Reconnected
  <2>2. slot'[s].state = "active" /\ slot'[s].who = slot[s].who /\ slot'[s].ip = slot[s].ip
    BY <2>1 DEF SlotsAgree, TypeOK, SlotType
  <2>3. QED
    BY <1>1, <1>2, <1>3, <2>2
       DEF SlotsAgree, SlotAgrees, KnownBy, InUse, HumanIn, Entered, Kept
<1>4. CASE s \in Kept(refused) \ Entered(restart, refused)
  <2>1. slot'[s] = [slot[s] EXCEPT !.state = "loading"]
    BY <1>1, <1>4 DEF Reconnected
  <2>2. slot'[s].state = "loading" /\ slot'[s].who = slot[s].who /\ slot'[s].ip = slot[s].ip
    BY <2>1 DEF SlotsAgree, TypeOK, SlotType
  <2>3. QED
    BY ZenonT(60), <1>1, <1>2, <1>4, <2>2
       DEF SlotsAgree, SlotAgrees, KnownBy, InUse, HumanIn, Entered, Kept
<1>5. CASE s \notin Kept(refused)
  <2>1. slot'[s] = (IF InUse(s) THEN Dropped(s) ELSE slot[s])
    BY <1>1, <1>5 DEF Reconnected, Entered
  <2>2. /\ slot'[s].state \in {"free", "zombie"}
        /\ slot'[s].who = Nobody <=> slot'[s].state = "free"
        /\ slot'[s].state = "zombie" => slot'[s].who \in Humans
        /\ slot'[s].ip = NoAddr
    <3>1. CASE InUse(s)
      BY <2>1, <3>1, ClientsAssumption DEF Dropped, FreeSlot, HumanIn, Clients
    <3>2. CASE ~InUse(s)
      BY <2>1, <3>2 DEF SlotsAgree, SlotAgrees, KnownBy, TypeOK, SlotType, States, InUse, HumanIn
    <3>3. QED
      BY <3>1, <3>2
  <2>3. ip = NoAddr /\ ~in
    BY <1>5 DEF Entered
  <2> HIDE DEF ip, in
  <2>4. QED
    BY <1>1, <1>2, <1>5, <2>2, <2>3 DEF SlotAgrees, KnownBy, InUse, HumanIn
<1>6. QED
  BY <1>3, <1>4, <1>5

\* The whole server: every step keeps the types and the agreement of the slots.
LEMMA StepAgrees == SlotsAgree /\ [Next]_vars => SlotsAgree'
<1> SUFFICES ASSUME SlotsAgree, [Next]_vars
             PROVE  TypeOK' /\ \A t \in Slots : SlotAgrees(t)'
  BY DEF SlotsAgree
<1> USE DEF SlotsAgree
<1>1. ASSUME NEW s \in Slots, NEW h \in Humans, NEW ip \in Address,
             NEW valid \in BOOLEAN, NEW accepted \in BOOLEAN,
             Connect(s, h, ip, valid, accepted)
      PROVE  TypeOK' /\ \A t \in Slots : SlotAgrees(t)'
  BY <1>1, ConnectType, ConnectAgrees
<1>2. ASSUME NEW s \in Slots, Begin(s)
      PROVE  TypeOK' /\ \A t \in Slots : SlotAgrees(t)'
  <2>1. TypeOK'
    BY ZenonT(60), <1>2, RestTyped DEF Begin, TypeOK, SlotType, DataType, States
  <2>2. QED
    BY <1>2, <2>1, BeginAgrees
<1>3. ASSUME NEW s \in Slots, Leave(s)
      PROVE  TypeOK' /\ \A t \in Slots : SlotAgrees(t)'
  BY <1>3, DropClientType, DropClientAgrees, RestTyped DEF Leave
<1>4. ASSUME NEW s \in Slots, ZombieTimeout(s)
      PROVE  TypeOK' /\ \A t \in Slots : SlotAgrees(t)'
  <2>1. TypeOK'
    BY <1>4, NoDataType, RestTyped DEF ZombieTimeout, TypeOK
  <2>2. QED
    BY <1>4, <2>1, ZombieTimeoutAgrees
<1>5. ASSUME NEW s \in Slots, NEW b \in Bots, AddBot(s, b)
      PROVE  TypeOK' /\ \A t \in Slots : SlotAgrees(t)'
  <2>1. [state |-> "active", who |-> b, ip |-> NoAddr] \in SlotType
    BY DEF SlotType, States, Clients, Address
  <2>2. slot' \in [Slots -> SlotType] /\ shown' \subseteq Slots
    BY <1>5, <2>1 DEF AddBot, TypeOK
  <2>3. data' \in [Slots -> DataType]
    <3>1. \/ data' = data
          \/ data' = [data EXCEPT ![s] = [data[s] EXCEPT !.isConnected = TRUE,
                                                       !.welcome = FALSE]]
      BY <1>5 DEF AddBot, TypeOK, DataType
    <3>2. [data[s] EXCEPT !.isConnected = TRUE, !.welcome = FALSE] \in DataType
      BY DEF TypeOK, DataType
    <3>3. QED
      BY <3>1, <3>2 DEF TypeOK
  <2>4. TypeOK'
    BY <1>5, <2>2, <2>3, RestTyped DEF AddBot
  <2>5. QED
    BY <1>5, <2>4, AddBotAgrees
<1>6. ASSUME NEW s \in Slots, NEW ip \in Address, NEW valid \in BOOLEAN,
             UpdateUserinfo(s, ip, valid)
      PROVE  TypeOK' /\ \A t \in Slots : SlotAgrees(t)'
  BY <1>6, UpdateUserinfoType, UpdateUserinfoAgrees
<1>7. ASSUME NEW restart \in BOOLEAN, NEW refused \in SUBSET Slots,
             MapChange(restart, refused)
      PROVE  TypeOK' /\ \A t \in Slots : SlotAgrees(t)'
  BY <1>7, MapChangeType, MapChangeAgrees
<1>8. ASSUME NEW s \in Slots, NEW target \in Slots, CallVote(s, target)
      PROVE  TypeOK' /\ \A t \in Slots : SlotAgrees(t)'
  <2>1. slot[target].who \in Clients
    <3>1. SlotAgrees(target) /\ target \in shown /\ slot[target] \in SlotType
      BY <1>8 DEF CallVote, TypeOK
    <3>2. slot[target].state # "free"
      BY <3>1 DEF SlotAgrees, InUse
    <3>3. slot[target].who # Nobody
      BY <3>1, <3>2 DEF SlotAgrees
    <3>4. QED
      BY <3>1, <3>3 DEF SlotType
  <2>2. QED
    BY <1>8, <2>1, CallVoteType, NoSlotStep DEF CallVote
<1>9. ASSUME NEW passed \in BOOLEAN, CloseVote(passed)
      PROVE  TypeOK' /\ \A t \in Slots : SlotAgrees(t)'
  <2>1. vote' \in {NoVote} \cup VoteType
    BY <1>9 DEF CloseVote, TypeOK, VoteType, NoVote
  <2>2. QED
    BY <1>9, <2>1, NoSlotStep DEF CloseVote, TypeOK
<1>10. ASSUME RunVote
       PROVE  TypeOK' /\ \A t \in Slots : SlotAgrees(t)'
  BY <1>10, QueueKickType, NoSlotStep DEF RunVote, TypeOK
<1>11. ASSUME RunKick
       PROVE  TypeOK' /\ \A t \in Slots : SlotAgrees(t)'
  <2>1. kick.slot \in Slots
    BY <1>11 DEF RunKick, TypeOK, KickType
  <2>2. CASE DropClient(kick.slot)
    BY <1>11, <2>1, <2>2, DropClientType, DropClientAgrees DEF RunKick, TypeOK
  <2>3. CASE UNCHANGED <<slot, data, shown>>
    BY <1>11, <2>3, NoSlotStep DEF RunKick, TypeOK
  <2>4. QED
    BY <1>11, <2>2, <2>3 DEF RunKick
<1>12. ASSUME NEW s \in Slots, Mute(s) \/ Unmute(s)
       PROVE  TypeOK' /\ \A t \in Slots : SlotAgrees(t)'
  <2>1. data' \in [Slots -> DataType]
    <3>1. PICK who \in {slot[s].who, Nobody} : data' = [data EXCEPT ![s].muted = who]
      BY <1>12 DEF Mute, Unmute
    <3>2. who \in Clients \cup {Nobody}
      BY DEF TypeOK, SlotType
    <3>3. QED
      BY <3>1, <3>2 DEF TypeOK, DataType
  <2>2. TypeOK'
    BY <1>12, <2>1 DEF Mute, Unmute, TypeOK
  <2>3. QED
    BY <1>12, <2>2, MuteAgrees
<1>13. ASSUME NEW a \in Addrs, EditBans(a)
       PROVE  TypeOK' /\ \A t \in Slots : SlotAgrees(t)'
  <2>1. TypeOK'
    BY <1>13 DEF EditBans, TypeOK
  <2>2. QED
    BY <1>13, <2>1, NoSlotStep DEF EditBans
<1>14. ASSUME NEW n \in 0..MaxLimit, SetLimit(n)
       PROVE  TypeOK' /\ \A t \in Slots : SlotAgrees(t)'
  <2>1. TypeOK'
    BY <1>14 DEF SetLimit, TypeOK
  <2>2. QED
    BY <1>14, <2>1, NoSlotStep DEF SetLimit
<1>15. CASE UNCHANGED vars
  BY <1>15, NoSlotStep DEF vars, TypeOK
<1>16. QED
  BY <1>1, <1>2, <1>3, <1>4, <1>5, <1>6, <1>7, <1>8, <1>9, <1>10, <1>11, <1>12,
     <1>13, <1>14, <1>15 DEF Next

\* The empty server agrees.
LEMMA InitAgrees == Init => SlotsAgree
<1> SUFFICES ASSUME Init PROVE TypeOK /\ \A s \in Slots : SlotAgrees(s)
  BY DEF SlotsAgree
<1>1. TypeOK
  BY NoDataType DEF Init, TypeOK, Address
<1>2. \A s \in Slots : SlotAgrees(s)
  BY ClientsAssumption
     DEF Init, SlotAgrees, KnownBy, FreeSlot, NoData, InUse, HumanIn, Clients
<1>3. QED
  BY <1>1, <1>2

LEMMA AlwaysAgrees == Spec => []SlotsAgree
  BY InitAgrees, StepAgrees, PTL DEF Spec

\* Type correctness: the slots, the proxy's data, the vote and the kick keep
\* their types over every sequence of engine calls.
THEOREM TypeCorrect == Spec => []TypeOK
<1>1. SlotsAgree => TypeOK
  BY DEF SlotsAgree
<1>2. QED
  BY <1>1, AlwaysAgrees, PTL

\* The game never shows a player that left, nor hides one that is in: whatever
\* ClientUserinfoChanged, ClientDisconnect and a map change do in any order.
THEOREM NoGhosts == Spec => []NoGhostPlayer
<1>1. SlotsAgree => NoGhostPlayer
  BY DEF SlotsAgree, SlotAgrees, NoGhostPlayer, TypeOK
<1>2. QED
  BY <1>1, AlwaysAgrees, PTL

\* ClientData::address is an address of the human in the slot, its own or one it
\* wrote, and never an address of an earlier client of the slot.
THEOREM AddressesFollow == Spec => []AddressWhileIn
<1>1. SlotsAgree => AddressWhileIn
  BY DEF SlotsAgree, SlotAgrees, AddressWhileIn
<1>2. QED
  BY <1>1, AlwaysAgrees, PTL

\* The client commands that the proxy hands to the game are those of the
\* clients in the game, over every map change and map_restart.
THEOREM CommandsGuarded == Spec => []CommandsOfPlayersOnly
<1>1. SlotsAgree => CommandsOfPlayersOnly
  BY DEF SlotsAgree, SlotAgrees, CommandsOfPlayersOnly
<1>2. QED
  BY <1>1, AlwaysAgrees, PTL

\* A mute never outlives the player it was given to, nor passes to another.
THEOREM MutesFollow == Spec => []MuteFollowsPlayer
<1>1. SlotsAgree => MuteFollowsPlayer
  BY DEF SlotsAgree, SlotAgrees, MuteFollowsPlayer
<1>2. QED
  BY <1>1, AlwaysAgrees, PTL

\* No human in the game waits for a second welcome message.
THEOREM WelcomedOnce == Spec => []WelcomeOnce
<1>1. SlotsAgree => WelcomeOnce
  BY DEF SlotsAgree, SlotAgrees, WelcomeOnce
<1>2. QED
  BY <1>1, AlwaysAgrees, PTL

-----------------------------------------------------------------------------
(* Kick votes *)

\* While a vote waits, the proxy holds the address its target had when the vote
\* started, whoever has the slot now.
VoteAgrees ==
    vote.stage # "none" => voteAddr[vote.slot] = vote.address

LEMMA StepVoteAgrees == SlotsAgree /\ VoteAgrees /\ [Next]_vars => VoteAgrees'
<1> SUFFICES ASSUME SlotsAgree, VoteAgrees, [Next]_vars PROVE VoteAgrees'
  OBVIOUS
<1>1. ASSUME NEW s \in Slots, NEW target \in Slots, CallVote(s, target)
      PROVE  VoteAgrees'
  <2>1. voteAddr'[target] = data[target].address
    BY <1>1 DEF CallVote
  <2>2. vote'.slot = target /\ vote'.address = data[target].address
    BY <1>1 DEF CallVote
  <2>3. QED
    BY <2>1, <2>2 DEF VoteAgrees
<1>2. ASSUME NEW passed \in BOOLEAN, CloseVote(passed) PROVE VoteAgrees'
  <2>1. CASE vote' = NoVote
    BY <2>1 DEF NoVote, VoteAgrees
  <2>2. CASE vote' = [vote EXCEPT !.stage = "passed"]
    <3>1. vote \in VoteType
      BY <1>2 DEF CloseVote, SlotsAgree, TypeOK, NoVote
    <3>2. vote'.slot = vote.slot /\ vote'.address = vote.address
      BY <2>2, <3>1 DEF VoteType
    <3>3. QED
      BY <1>2, <3>2 DEF CloseVote, VoteAgrees
  <2>3. QED
    BY <1>2, <2>1, <2>2 DEF CloseVote
<1>3. CASE vote' = NoVote
  BY <1>3 DEF NoVote, VoteAgrees
<1>4. CASE UNCHANGED <<vote, voteAddr>>
  BY <1>4 DEF VoteAgrees
<1>5. QED
  BY ZenonT(60), <1>1, <1>2, <1>3, <1>4
     DEF Next, vars, Connect, Begin, Leave, ZombieTimeout, AddBot, UpdateUserinfo,
         MapChange, RunVote, RunKick, Mute, Unmute, EditBans, SetLimit

LEMMA AlwaysVoteAgrees == Spec => []VoteAgrees
<1>1. Init => VoteAgrees
  BY DEF Init, NoVote, VoteAgrees
<1>2. QED
  BY <1>1, StepVoteAgrees, AlwaysAgrees, PTL DEF Spec

\* The steps that append a kick are those that run a vote.
LEMMA KickSteps ==
    ASSUME [Next]_vars, SlotsAgree, kick = NoKick, kick' # NoKick
    PROVE  vote.stage = "passed" /\ QueueKick
<1>1. CASE kick' = kick
  BY <1>1
<1>2. ASSUME NEW s \in Slots, NEW target \in Slots, CallVote(s, target), kick' # kick
      PROVE  vote.stage = "passed" /\ QueueKick
  BY <1>2 DEF CallVote
<1>3. ASSUME RunVote PROVE vote.stage = "passed" /\ QueueKick
  BY <1>3 DEF RunVote
<1>4. CASE kick' = NoKick
  BY <1>4
<1>5. QED
  BY ZenonT(60), <1>1, <1>2, <1>3, <1>4
     DEF Next, vars, Connect, Begin, Leave, ZombieTimeout, AddBot, UpdateUserinfo,
         MapChange, CloseVote, RunKick, Mute, Unmute, EditBans, SetLimit

\* A kick vote that passed is forwarded to the engine only while the slot has the
\* address of the client it was called against, whatever happened to the slot in
\* the meantime.
THEOREM KicksKeepAddress == Spec => KickKeepsAddress
<1>1. SlotsAgree /\ VoteAgrees /\ [Next]_vars =>
        [kick = NoKick /\ kick' # NoKick =>
           data[vote.slot].address = vote.address]_vars
  <2> SUFFICES ASSUME SlotsAgree, VoteAgrees, [Next]_vars,
                      kick = NoKick, kick' # NoKick
               PROVE  data[vote.slot].address = vote.address
    OBVIOUS
  <2>1. vote.stage = "passed" /\ QueueKick
    BY KickSteps
  <2>2. data[vote.slot].address = voteAddr[vote.slot]
    BY <2>1 DEF QueueKick, SameAddress
  <2>3. QED
    BY <2>1, <2>2 DEF VoteAgrees
<1>2. QED
  BY <1>1, AlwaysAgrees, AlwaysVoteAgrees, PTL DEF Spec, KickKeepsAddress

\* A kick vote that passed is never lost while its target is in the slot with the
\* address it had.
THEOREM KicksNotLost == Spec => KickNotLost
<1>1. SlotsAgree /\ VoteAgrees /\ [Next]_vars =>
        [/\ vote.stage = "passed"
         /\ RunVote \/ \E s, target \in Slots : CallVote(s, target)
         /\ Holder(vote.slot) = vote.who
         /\ data[vote.slot].address = vote.address
         => kick' # NoKick]_vars
  <2> SUFFICES ASSUME SlotsAgree, VoteAgrees, vote.stage = "passed",
                      RunVote \/ \E s, target \in Slots : CallVote(s, target),
                      data[vote.slot].address = vote.address
               PROVE  kick' # NoKick
    OBVIOUS
  <2>1. QueueKick
    BY DEF RunVote, CallVote
  <2>2. vote.slot \in Slots /\ vote.who \in Clients
    BY DEF SlotsAgree, TypeOK, NoVote, VoteType
  <2>3. data[vote.slot].address = voteAddr[vote.slot]
    BY DEF VoteAgrees
  <2>4. QED
    BY <2>1, <2>2, <2>3, ClientsAssumption DEF QueueKick, SameAddress, NoKick
<1>2. QED
  BY <1>1, AlwaysAgrees, AlwaysVoteAgrees, PTL DEF Spec, KickNotLost

\* Both: the vote reaches the address it was called against, and no other,
\* whoever came and left while it ran.
THEOREM KicksReachTheAddress == Spec => KicksTheAddress
  BY KicksKeepAddress, KicksNotLost DEF KicksTheAddress

-----------------------------------------------------------------------------
(* The configstrings of the game implement the abstract roster *)

LEMMA InitRoster == Init => Roster!RosterInit
  BY ClientsAssumption
     DEF Init, Roster!RosterInit, ShownRoster, KnownAddresses, NoData

\* The instance of Roster counts as this module does.
LEMMA SameCardinality == \A S : Roster!Cardinality(S) = Cardinality(S)
  BY DEF Roster!Cardinality, Cardinality

\* What a step does to the roster, when it touches one slot.
LEMMA RosterAfterOneSlot ==
    ASSUME SlotsAgree, NEW s \in Slots, NEW x, NEW who,
           slot' = [slot EXCEPT ![s] = x],
           \/ shown' = shown \cup {s} /\ x.who = who
           \/ shown' = shown \ {s} /\ who = Nobody
    PROVE  ShownRoster' = [ShownRoster EXCEPT ![s] = who]
<1>1. slot'[s] = x /\ \A t \in Slots \ {s} : slot'[t] = slot[t]
  BY DEF SlotsAgree, TypeOK
<1>2. \A t \in Slots \ {s} : t \in shown' <=> t \in shown
  OBVIOUS
<1>3. \A t \in Slots : (IF t \in shown' THEN slot'[t].who ELSE Nobody)
                       = (IF t = s THEN who
                                   ELSE IF t \in shown THEN slot[t].who ELSE Nobody)
  BY <1>1, <1>2
<1>4. QED
  BY <1>3 DEF ShownRoster

\* What it does to the addresses.
LEMMA AddressesAfterOneSlot ==
    ASSUME SlotsAgree, NEW s \in Slots, NEW y, data' = [data EXCEPT ![s] = y]
    PROVE  KnownAddresses' = [KnownAddresses EXCEPT ![s] = y.address]
<1>1. \A t \in Slots : data'[t].address = IF t = s THEN y.address ELSE data[t].address
  BY DEF SlotsAgree, TypeOK
<1>2. QED
  BY <1>1 DEF KnownAddresses

\* The client of a slot leaves the roster when its slot is dropped.
LEMMA DropClientRoster ==
    ASSUME SlotsAgree, NEW s \in Slots, DropClient(s)
    PROVE  /\ ShownRoster' = [ShownRoster EXCEPT ![s] = Nobody]
           /\ KnownAddresses' = [KnownAddresses EXCEPT ![s] = NoAddr]
<1>1. ShownRoster' = [ShownRoster EXCEPT ![s] = Nobody]
  BY RosterAfterOneSlot DEF DropClient
<1>2. KnownAddresses' = [KnownAddresses EXCEPT ![s] = NoAddr]
  <2>1. NoData.address = NoAddr
    BY DEF NoData
  <2>2. QED
    BY <2>1, AddressesAfterOneSlot DEF DropClient
<1>3. QED
  BY <1>1, <1>2

LEMMA ConnectRoster ==
    ASSUME SlotsAgree, NEW s \in Slots, NEW h \in Humans, NEW ip \in Address,
           NEW valid \in BOOLEAN, NEW accepted \in BOOLEAN,
           Connect(s, h, ip, valid, accepted)
    PROVE  Roster!RosterNext
<1> DEFINE checked == ~Refused(s, ip, TRUE) /\ valid
           old == IF slot[s].state = "free" THEN data[s] ELSE NoData
<1>0. UNCHANGED <<banned, limit>>
  BY DEF Connect
<1>1. CASE checked /\ accepted
  <2>1. ip \in Roster!AddressesOf(h) /\ ip \notin banned /\ ~TooManyFrom(s, ip)
    BY <1>1 DEF Connect, Refused, AddressesOf, Roster!AddressesOf
  <2>2. ShownRoster[s] \in {Nobody, h}
    BY DEF Connect, SlotFor, ShownRoster, SlotsAgree, SlotAgrees
  <2>3. limit > 0 => Cardinality(Roster!OthersFrom(s, ip)) < limit
    <3> DEFINE others == {t \in Slots \ {s} : data[t].address = ip}
    <3>1. others = Roster!OthersFrom(s, ip)
      BY DEF Roster!OthersFrom, KnownAddresses
    <3>2. IsFiniteSet(others) /\ Cardinality(others) \in Nat
      BY ClientsAssumption, FS_Subset, FS_CardinalityType
    <3>3. limit > 0 => ~(Cardinality(others) >= limit)
      BY <2>1 DEF TooManyFrom
    <3> HIDE DEF others
    <3>4. limit > 0 => Cardinality(others) < limit
      BY <3>2, <3>3, ClientsAssumption DEF SlotsAgree, TypeOK
    <3>5. QED
      BY <3>1, <3>4
  <2>4. ShownRoster' = [ShownRoster EXCEPT ![s] = h]
    <3> DEFINE newSlot == [state |-> "loading", who |-> h, ip |-> ip]
    <3>1. slot' = [slot EXCEPT ![s] = newSlot] /\ shown' = shown \cup {s}
      BY <1>1 DEF Connect
    <3>2. newSlot.who = h
      OBVIOUS
    <3> HIDE DEF newSlot
    <3>3. QED
      BY <3>1, <3>2, RosterAfterOneSlot
  <2>5. KnownAddresses' = [KnownAddresses EXCEPT ![s] = ip]
    <3> DEFINE newData == [NoData EXCEPT !.address = ip, !.welcome = TRUE]
    <3>1. data' = [data EXCEPT ![s] = newData]
      BY <1>1 DEF Connect
    <3>2. newData.address = ip
      BY DEF NoData
    <3> HIDE DEF newData
    <3>3. QED
      BY <3>1, <3>2, AddressesAfterOneSlot
  <2>6. Roster!Join(s, h, ip)
    BY <1>0, <2>1, <2>2, <2>3, <2>4, <2>5, SameCardinality DEF Roster!Join
  <2>7. QED
    BY <2>1, <2>6 DEF Roster!RosterNext
<1>2. CASE ~(checked /\ accepted)
  <2> DEFINE newData == [old EXCEPT !.welcome = checked \/ old.welcome]
  <2>1. /\ slot' = [slot EXCEPT ![s] = FreeSlot] /\ shown' = shown \ {s}
        /\ data' = [data EXCEPT ![s] = newData]
    BY <1>2 DEF Connect
  <2>2. ShownRoster' = [ShownRoster EXCEPT ![s] = Nobody]
    BY <2>1, RosterAfterOneSlot
  <2>3. old \in DataType /\ old.address = NoAddr
    BY ClientsAssumption, NoDataType
       DEF SlotsAgree, SlotAgrees, KnownBy, TypeOK, NoData, InUse
  <2> HIDE DEF old, checked
  <2>4. newData.address = NoAddr
    BY <2>3 DEF DataType
  <2> HIDE DEF newData
  <2>5. KnownAddresses' = [KnownAddresses EXCEPT ![s] = NoAddr]
    BY <2>1, <2>4, AddressesAfterOneSlot
  <2>6. Roster!Leave(s)
    BY <1>0, <2>2, <2>5 DEF Roster!Leave
  <2>7. QED
    BY <2>6 DEF Roster!RosterNext
<1>3. QED
  BY <1>1, <1>2

LEMMA MapChangeRoster ==
    ASSUME SlotsAgree, NEW restart \in BOOLEAN, NEW refused \in SUBSET Slots,
           MapChange(restart, refused)
    PROVE  Roster!RosterNext
<1>1. \A s \in Kept(refused) :
         /\ s \in Slots /\ InUse(s) /\ ShownRoster[s] = slot[s].who
         /\ HumanIn(s) => slot[s].ip \in AddressesOf(slot[s].who) \ banned
         /\ ~HumanIn(s) => slot[s].ip = NoAddr
         /\ slot'[s].who = slot[s].who
  <2> TAKE s \in Kept(refused)
  <2>1. s \in Slots /\ InUse(s) /\ SlotAgrees(s) /\ slot[s] \in SlotType
    BY DEF Kept, SlotsAgree, TypeOK
  <2>2. ShownRoster[s] = slot[s].who
    BY <2>1 DEF ShownRoster, SlotAgrees
  <2>3. HumanIn(s) => slot[s].ip \in AddressesOf(slot[s].who) \ banned
    BY <2>1 DEF Kept, Refused, SlotAgrees, KnownBy
  <2>4. ~HumanIn(s) => slot[s].ip = NoAddr
    BY <2>1 DEF SlotAgrees, KnownBy
  <2>5. slot'[s] = Reconnected(s, restart, refused)
    BY <2>1 DEF MapChange
  <2>6. slot'[s].who = slot[s].who
    BY <2>1, <2>5 DEF Reconnected, SlotType
  <2>7. QED
    BY <2>1, <2>2, <2>3, <2>4, <2>6
<1>2. ShownRoster' =
        [s \in Slots |-> IF s \in Kept(refused) THEN ShownRoster[s] ELSE Nobody]
  <2>1. shown' = Kept(refused)
    BY DEF MapChange
  <2>2. QED
    BY <1>1, <2>1 DEF ShownRoster
<1>3. Kept(refused) \in SUBSET Slots
  BY <1>1
<1>4. KnownAddresses' =
        [s \in Slots |-> IF s \in Kept(refused) THEN slot[s].ip ELSE NoAddr]
  <2>1. \A s \in Slots : data'[s].address =
                           IF s \in Kept(refused) THEN slot[s].ip ELSE NoAddr
    BY DEF MapChange, NoData
  <2>2. QED
    BY <2>1 DEF KnownAddresses
<1>5. KnownAddresses' \in [Slots -> Roster!Addrs \cup {NoAddr}]
  <2>1. \A s \in Slots : slot[s].ip \in Address
    BY DEF SlotsAgree, TypeOK, SlotType
  <2>2. Roster!Addrs = Addrs
    BY DEF Roster!Addrs, Addrs
  <2>3. QED
    BY <1>4, <2>1, <2>2 DEF Address
<1>6. \A s \in Slots :
         IF ShownRoster'[s] \in Humans
         THEN KnownAddresses'[s] \in Roster!AddressesOf(ShownRoster'[s]) \ banned
         ELSE KnownAddresses'[s] = NoAddr
  BY <1>1, <1>2, <1>4, ClientsAssumption
     DEF HumanIn, Clients, AddressesOf, Roster!AddressesOf
<1>7. Roster!ChangeMap
  BY <1>2, <1>3, <1>5, <1>6 DEF Roster!ChangeMap, MapChange
<1>8. QED
  BY <1>7 DEF Roster!RosterNext

\* Every step of the server is a step of the roster or leaves it alone.
LEMMA StepRoster ==
    SlotsAgree /\ [Next]_vars => [Roster!RosterNext]_(Roster!rosterVars)
<1> SUFFICES ASSUME SlotsAgree, [Next]_vars
             PROVE  [Roster!RosterNext]_(Roster!rosterVars)
  OBVIOUS
<1>1. ASSUME NEW s \in Slots, NEW h \in Humans, NEW ip \in Address,
             NEW valid \in BOOLEAN, NEW accepted \in BOOLEAN,
             Connect(s, h, ip, valid, accepted)
      PROVE  Roster!RosterNext
  BY <1>1, ConnectRoster
<1>2. ASSUME NEW s \in Slots, Begin(s) PROVE UNCHANGED Roster!rosterVars
  <2>1. \A t \in Slots : slot'[t].who = slot[t].who
    BY <1>2 DEF Begin, SlotsAgree, TypeOK, SlotType
  <2>2. KnownAddresses' = KnownAddresses
    BY <1>2 DEF Begin, KnownAddresses, SlotsAgree, TypeOK, DataType
  <2>3. QED
    BY <1>2, <2>1, <2>2 DEF Begin, ShownRoster, Roster!rosterVars
<1>3. ASSUME NEW s \in Slots, DropClient(s), UNCHANGED <<banned, limit>>
      PROVE  Roster!RosterNext
  BY <1>3, DropClientRoster DEF Roster!Leave, Roster!RosterNext
<1>4. ASSUME NEW s \in Slots, ZombieTimeout(s) PROVE UNCHANGED Roster!rosterVars
  <2>1. s \notin shown /\ \A t \in Slots \ {s} : slot'[t] = slot[t]
    BY <1>4 DEF ZombieTimeout, SlotsAgree, SlotAgrees, InUse, TypeOK
  <2>2. QED
    BY <1>4, <2>1 DEF ZombieTimeout, ShownRoster, KnownAddresses, Roster!rosterVars
<1>5. ASSUME NEW s \in Slots, NEW b \in Bots, AddBot(s, b) PROVE Roster!RosterNext
  <2> DEFINE newSlot == [state |-> "active", who |-> b, ip |-> NoAddr]
  <2>1. slot' = [slot EXCEPT ![s] = newSlot] /\ shown' = shown \cup {s} /\ newSlot.who = b
    BY <1>5 DEF AddBot
  <2>2. ShownRoster[s] = Nobody
    BY <1>5 DEF AddBot, ShownRoster, SlotsAgree, SlotAgrees, InUse
  <2> HIDE DEF newSlot
  <2>3. ShownRoster' = [ShownRoster EXCEPT ![s] = b]
    BY <2>1, RosterAfterOneSlot
  <2>4. KnownAddresses' = KnownAddresses
    BY <1>5 DEF AddBot, KnownAddresses, SlotsAgree, TypeOK, DataType
  <2>5. Roster!JoinBot(s, b)
    BY <1>5, <2>2, <2>3, <2>4 DEF AddBot, Roster!JoinBot
  <2>6. QED
    BY <2>5 DEF Roster!RosterNext
<1>6. ASSUME NEW s \in Slots, NEW ip \in Address, NEW valid \in BOOLEAN,
             UpdateUserinfo(s, ip, valid), ~DropClient(s)
      PROVE  UNCHANGED Roster!rosterVars
  <2> DEFINE newSlot == [slot[s] EXCEPT !.ip = ip]
  <2>1. Dropped(s).ip = NoAddr
    BY <1>6 DEF UpdateUserinfo, Dropped
  <2>2. slot' = [slot EXCEPT ![s] = newSlot] /\ shown' = shown \cup {s}
    BY <1>6, <2>1 DEF UpdateUserinfo
  <2>3. newSlot.who = slot[s].who
    BY DEF SlotsAgree, TypeOK, SlotType
  <2>4. s \in shown /\ ShownRoster[s] = slot[s].who
    BY <1>6 DEF UpdateUserinfo, SlotsAgree, SlotAgrees, ShownRoster
  <2> HIDE DEF newSlot
  <2>5. ShownRoster' = [ShownRoster EXCEPT ![s] = slot[s].who]
    BY <2>2, <2>3, RosterAfterOneSlot
  <2>6. ShownRoster' = ShownRoster
    BY <2>4, <2>5 DEF ShownRoster
  <2>7. QED
    BY <1>6, <2>6 DEF UpdateUserinfo, KnownAddresses, Roster!rosterVars
<1>7. ASSUME NEW restart \in BOOLEAN, NEW refused \in SUBSET Slots,
             MapChange(restart, refused)
      PROVE  Roster!RosterNext
  BY <1>7, MapChangeRoster
<1>8. ASSUME UNCHANGED <<slot, data, shown, banned, limit>>
      PROVE  UNCHANGED Roster!rosterVars
  BY <1>8 DEF ShownRoster, KnownAddresses, Roster!rosterVars
<1>9. ASSUME RunKick PROVE Roster!RosterNext \/ UNCHANGED Roster!rosterVars
  <2>1. kick.slot \in Slots
    BY <1>9 DEF RunKick, SlotsAgree, TypeOK, KickType
  <2>2. QED
    BY <1>3, <1>8, <1>9, <2>1 DEF RunKick
<1>10. ASSUME UNCHANGED <<slot, data, shown>>, banned' \subseteq Addrs, limit' \in Nat
       PROVE  Roster!RosterNext
  BY <1>10 DEF ShownRoster, KnownAddresses, Roster!Administer, Roster!RosterNext, Roster!Addrs, Addrs
<1>11. ASSUME NEW a \in Addrs, EditBans(a) PROVE Roster!RosterNext
  BY <1>10, <1>11, ClientsAssumption DEF EditBans, SlotsAgree, TypeOK
<1>12. ASSUME NEW n \in 0..MaxLimit, SetLimit(n) PROVE Roster!RosterNext
  BY <1>10, <1>12, ClientsAssumption DEF SetLimit, SlotsAgree, TypeOK
<1>13. ASSUME NEW s \in Slots, Mute(s) \/ Unmute(s)
       PROVE  UNCHANGED Roster!rosterVars
  <2>1. KnownAddresses' = KnownAddresses
    BY <1>13 DEF Mute, Unmute, KnownAddresses, SlotsAgree, TypeOK, DataType
  <2>2. QED
    BY <1>13, <2>1 DEF Mute, Unmute, ShownRoster, Roster!rosterVars
<1>14. QED
  BY <1>1, <1>2, <1>3, <1>4, <1>5, <1>6, <1>7, <1>8, <1>9, <1>11, <1>12, <1>13
     DEF Next, vars, Leave, CallVote, CloseVote, RunVote, UpdateUserinfo

\* The three programs together implement the roster: whatever the clients, the
\* votes, the administrator and the map changes do, nobody appears on it who is
\* banned or over the limit when he joins, by the address read in his userinfo,
\* and nobody else moves.
THEOREM RosterImplemented == Spec => ImplementsRoster
<1>1. QED
  BY InitRoster, StepRoster, AlwaysAgrees, PTL
     DEF Spec, ImplementsRoster, Roster!RosterSpec
=============================================================================
