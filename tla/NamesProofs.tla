---------------------------- MODULE NamesProofs ----------------------------
(***************************************************************************)
(* What becomes of the userinfo of a client, for every number of slots,    *)
(* every length and every limit.  No two players share a name, because     *)
(* UniqueName always finds a free number, and keep their names through     *)
(* map changes; a name is never of colors alone; forcepowers are kept      *)
(* exactly when the game reads them whole; changes of the userinfo are let *)
(* through at their rate; and the keys that the server sets in the string  *)
(* are read as it set them.                                                *)
(***************************************************************************)
EXTENDS MCNames, Arithmetic, FiniteSetTheorems, SequenceTheorems,
        WellFoundedInduction, TLAPS

-----------------------------------------------------------------------------
(* Names *)

\* The constants, and the names.
LEMMA Constants ==
    /\ MaxClients \in Nat /\ MaxClients > 0 /\ MaxName \in Nat /\ MaxName > 0
    /\ NoName \notin Names
    /\ Typed \subseteq Names
    /\ SameValues \subseteq BOOLEAN
    /\ \A n \in Names : Clean(n) \in Names
BY NamesAssumption DEF NamesAssumption, Clean

\* A number fits behind every name, and two numbers make two keys.
LEMMA NumberedNames ==
    ASSUME NEW n \in Names, NEW k \in Numbers
    PROVE  /\ Numbered(n, k) \in Names
           /\ \A m \in Numbers : NameKey(Numbered(n, k)) = NameKey(Numbered(n, m))
                                   => k = m
<1> DEFINE Cut == SubSeq(n.text, 1, MaxName - 1)
           text == Base(n).text
<1>1. n = [text |-> n.text, style |-> n.style] /\ n.text \in Texts /\ n.style \in Styles
      /\ Len(n.text) <= MaxName
    BY DEF Names
<1>2. Len(n.text) \in Nat /\ MaxName \in Nat /\ MaxName > 0
    BY <1>1, Constants DEF Texts
<1>3. Len(n.text) >= MaxName => Cut \in Texts /\ Len(Cut) = MaxName - 1
    <2>1. ASSUME Len(n.text) >= MaxName
          PROVE  Cut \in Texts /\ Len(Cut) = MaxName - 1
        BY <2>1, <1>1, <1>2, SubSeqProperties DEF Texts
    <2> QED BY <2>1
<1>4. /\ Base(n) = [text |-> text, style |-> n.style]
      /\ text \in Texts /\ Len(text) < MaxName
    <2>1. CASE Len(n.text) < MaxName
        BY <2>1, <1>1 DEF Base
    <2>2. CASE ~(Len(n.text) < MaxName)
        <3>2. Base(n) = [text |-> Cut, style |-> n.style]
            BY <2>2 DEF Base
        <3>3. Len(Cut) = MaxName - 1 /\ MaxName - 1 < MaxName
            BY <2>2, <1>2, <1>3
        <3> HIDE DEF Cut
        <3>4. Base(n).text = Cut
            BY <3>2
        <3> QED BY <3>2, <3>3, <3>4, <1>2, <1>3, <2>2
    <2> QED BY <2>1, <2>2
<1> HIDE DEF text, Cut
<1>5. \A m \in Numbers : Numbered(n, m) = [text |-> Append(text, m), style |-> n.style]
    BY <1>4 DEF Numbered
<1>6. \A m \in Numbers : Append(text, m) \in Texts /\ Len(Append(text, m)) <= MaxName
                         /\ Append(text, m)[Len(text) + 1] = m
    BY <1>4, <1>2 DEF Texts
<1>7. Numbered(n, k) \in Names
    <2> DEFINE longer == Append(text, k)
    <2>1. longer \in Texts /\ Len(longer) <= MaxName /\ n.style \in Styles
        BY <1>6, <1>1
    <2>2. Numbered(n, k) = [text |-> longer, style |-> n.style]
        BY <1>5
    <2> HIDE DEF longer
    <2>3. Numbered(n, k) \in [text : Texts, style : Styles]
        BY <2>1, <2>2
    <2>4. Numbered(n, k).text = longer
        BY <2>2
    <2> QED BY <2>1, <2>3, <2>4 DEF Names
<1>8. ASSUME NEW m \in Numbers, NameKey(Numbered(n, k)) = NameKey(Numbered(n, m))
      PROVE  k = m
    <2>1. Append(text, k) = Append(text, m)
        BY <1>5, <1>8 DEF NameKey
    <2> QED BY <2>1, <1>6
<1> QED BY <1>7, <1>8

\* There are fewer other slots than numbers: one number is free.
LEMMA ANumberIsFree ==
    ASSUME NEW s \in Slots, NEW n \in Names
    PROVE  Free(s, n) # {}
<1> SUFFICES ASSUME \A k \in Numbers : InUse(s, Numbered(n, k))
             PROVE  FALSE
    BY DEF Free
<1> DEFINE Others == Slots \ {s}
           Uses(t, k) == NameKey(players[t]) = NameKey(Numbered(n, k))
           f == [k \in Numbers |-> CHOOSE t \in Others : Uses(t, k)]
<1>1. /\ IsFiniteSet(Numbers) /\ Cardinality(Numbers) = MaxClients
      /\ IsFiniteSet(Slots) /\ Cardinality(Slots) = MaxClients
    BY FS_Interval, Constants DEF Numbers, Slots
<1>2. IsFiniteSet(Others) /\ Cardinality(Others) < Cardinality(Numbers)
    <2>1. IsFiniteSet(Others) /\ Cardinality(Others) = Cardinality(Slots) - 1
        BY <1>1, FS_RemoveElement, Zenon
    <2> QED BY <2>1, <1>1, Constants
<1>3. \A k \in Numbers : f[k] \in Others /\ Uses(f[k], k)
    BY DEF InUse
<1>4. f \in [Numbers -> Others]
    BY <1>3
<1> HIDE DEF f, Others
<1>5. PICK k, m \in Numbers : k # m /\ f[k] = f[m]
    BY <1>1, <1>2, <1>4, FS_PigeonHole, Zenon
<1>6. NameKey(Numbered(n, k)) = NameKey(Numbered(n, m))
    BY <1>3, <1>5
<1> QED BY <1>5, <1>6, NumberedNames

\* UniqueName returns a name that no other slot shows: the pigeonhole leaves one
\* number free, and the lowest of a set of numbers exists (UniqueName,
\* Features/Userinfo.cpp).
THEOREM UniqueNameIsFree ==
    ASSUME NEW s \in Slots, NEW n \in Names
    PROVE  UniqueName(s, n) \in Names /\ ~InUse(s, UniqueName(s, n))
<1>1. CASE ~InUse(s, n)
    BY <1>1 DEF UniqueName
<1>2. CASE InUse(s, n)
    <2> DEFINE lowest == CHOOSE k \in Free(s, n) : \A m \in Free(s, n) : k <= m
    <2>1. Free(s, n) # {} /\ Free(s, n) \in SUBSET Nat /\ Free(s, n) \subseteq Numbers
        BY ANumberIsFree, Constants DEF Free, Numbers
    <2>2. lowest \in Free(s, n)
        BY <2>1, LowestNumber
    <2>3. UniqueName(s, n) = Numbered(n, lowest)
        BY <1>2, <2>1 DEF UniqueName, Lowest
    <2> HIDE DEF lowest
    <2>4. lowest \in Numbers /\ ~InUse(s, Numbered(n, lowest))
        BY <2>2 DEF Free
    <2> QED BY <2>3, <2>4, NumberedNames
<1> QED BY <1>1, <1>2
-----------------------------------------------------------------------------
\* A client in has a name in its userinfo, and one in CS_PLAYERS but for the
\* clients to connect again, which are in.
EveryoneIsNamed ==
    /\ \A s \in Slots : slot[s] # "free" => userinfo[s] # NoName
    /\ \A s \in Slots \ toConnect : slot[s] # "free" => players[s] # NoName
    /\ \A s \in toConnect : slot[s] # "free"

NamesInv ==
    /\ TypeOK
    /\ same \in SameValues
    /\ EveryoneIsNamed
    /\ NoSharedNames

LEMMA SanitizedName ==
    ASSUME NEW s \in Slots, NEW n \in Names
    PROVE  Sanitized(s, n) \in Names /\ (~same => ~InUse(s, Sanitized(s, n)))
<1>1. Clean(n) \in Names
    BY Constants
<1>2. /\ UniqueName(s, Clean(n)) \in Names
      /\ ~InUse(s, UniqueName(s, Clean(n)))
    BY <1>1, UniqueNameIsFree
<1> QED BY <1>1, <1>2 DEF Sanitized

\* One slot gets another name, or the same client keeps its own: the names stay
\* apart when nobody else shows the new one.
LEMMA NamesStayApart ==
    ASSUME NoSharedNames,
           NEW s \in Slots, NEW name, TypeOK,
           players' = [players EXCEPT ![s] = name],
           \A t \in Slots \ {s} : slot'[t] = slot[t],
           TRUE \notin SameValues =>
               \/ slot'[s] # "human"
               \/ name = NoName
               \/ name = players[s] /\ slot'[s] = slot[s]
               \/ ~InUse(s, name)
    PROVE  NoSharedNames'
<1> SUFFICES ASSUME TRUE \notin SameValues, NEW t \in Slots, NEW u \in Slots, t # u,
                    slot'[t] = "human", slot'[u] = "human",
                    players'[t] # NoName, players'[u] # NoName
             PROVE  NameKey(players'[t]) # NameKey(players'[u])
    BY DEF NoSharedNames, Human, Shows
<1>1. /\ players'[s] = name
      /\ \A v \in Slots \ {s} : players'[v] = players[v]
    BY DEF TypeOK
<1>2. ASSUME NEW v \in Slots, NEW w \in Slots, v # w,
             slot[v] = "human", slot[w] = "human", players[v] # NoName, players[w] # NoName
      PROVE  NameKey(players[v]) # NameKey(players[w])
    BY <1>2 DEF NoSharedNames, Human, Shows
<1>3. CASE t # s /\ u # s
    BY <1>1, <1>2, <1>3
<1>4. CASE name = players[s] /\ slot'[s] = slot[s]
    BY <1>1, <1>2, <1>4
<1>5. CASE ~InUse(s, name) /\ (t = s \/ u = s)
    BY <1>1, <1>5 DEF InUse
<1> QED BY <1>1, <1>3, <1>4, <1>5

\* NamesInv at the start.
LEMMA NamesInit == Init => NamesInv
<1> SUFFICES ASSUME Init PROVE NamesInv
    OBVIOUS
<1>1. same \in BOOLEAN /\ same \in SameValues
    BY Constants DEF Init
<1>2. TypeOK
    BY <1>1 DEF Init, TypeOK, Blank
<1>3. EveryoneIsNamed
    BY DEF Init, EveryoneIsNamed
<1>4. NoSharedNames
    BY DEF Init, NoSharedNames, Human
<1> QED BY <1>1, <1>2, <1>3, <1>4 DEF NamesInv

\* A slot that is dropped shows nothing.
LEMMA DropKeeps ==
    ASSUME NamesInv, NEW s \in Slots, Drop(s), same' = same, unclean' = unclean,
           toConnect' \subseteq toConnect, s \notin toConnect',
           \A t \in toConnect \ {s} : t \in toConnect'
    PROVE  NamesInv'
<1> USE DEF NamesInv
<1>1. TypeOK'
    BY DEF TypeOK, Drop
<1>2. EveryoneIsNamed'
    BY DEF TypeOK, Drop, EveryoneIsNamed
<1>3. NoSharedNames'
    BY NamesStayApart DEF TypeOK, Drop
<1> QED BY <1>1, <1>2, <1>3

\* A slot that is given a name, by Connect, AddBot, UpdateUserinfo or ConnectAgain.
LEMMA ShowKeeps ==
    ASSUME NamesInv, NEW s \in Slots, NEW name \in Names, Show(s, name), same' = same,
           unclean' = unclean,
           NEW kind \in {"human", "bot"},
           slot' = [slot EXCEPT ![s] = kind],
           cleanName' \in [Slots -> Names \cup {NoName}],
           toConnect' = toConnect \ {s},
           kind = "human" =>
               \/ same
               \/ name = players[s] /\ slot[s] = "human"
               \/ ~InUse(s, name)
    PROVE  NamesInv'
<1> USE DEF NamesInv
<1>1. TypeOK'
    BY DEF TypeOK, Show
<1>2. EveryoneIsNamed'
    BY Constants DEF TypeOK, Show, EveryoneIsNamed
<1>3. NoSharedNames'
    <2>1. TRUE \notin SameValues => ~same
        BY DEF TypeOK
    <2>2. slot'[s] = kind /\ \A t \in Slots \ {s} : slot'[t] = slot[t]
        BY DEF TypeOK
    <2>3. players' = [players EXCEPT ![s] = name]
        BY DEF Show
    <2> QED BY <2>1, <2>2, <2>3, NamesStayApart
<1> QED BY <1>1, <1>2, <1>3

\* Every step keeps NamesInv.
LEMMA NamesNext == NamesInv /\ [Next]_vars => NamesInv'
<1> SUFFICES ASSUME NamesInv, [Next]_vars PROVE NamesInv'
    OBVIOUS
<1>0. TypeOK /\ same \in SameValues /\ EveryoneIsNamed /\ NoSharedNames
    BY DEF NamesInv
<1>1. ASSUME NEW s \in Slots, NEW n \in Typed, NEW ok \in BOOLEAN,
             Connect(s, n, ok)
      PROVE  NamesInv'
    <2>1. Sanitized(s, n) \in Names /\ (~same => ~InUse(s, Sanitized(s, n)))
        BY SanitizedName, Constants
    <2>2. cleanName' \in [Slots -> Names \cup {NoName}] /\ same' = same
          /\ toConnect' = toConnect \ {s} /\ toConnect' = toConnect /\ unclean' = unclean
        BY <1>0, <1>1, <2>1 DEF Connect, TypeOK
    <2>3. CASE ok
        BY <1>0, <1>1, <2>1, <2>2, <2>3, ShowKeeps DEF Connect
    <2>4. CASE ~ok
        BY <1>0, <1>1, <2>2, <2>4
           DEF Connect, NamesInv, TypeOK, EveryoneIsNamed, NoSharedNames, Human, Shows
    <2> QED BY <2>3, <2>4
<1>2. ASSUME NEW s \in Slots, NEW n \in Typed, AddBot(s, n) PROVE NamesInv'
    <2>1. n \in Names
        BY Constants
    <2>2. cleanName' \in [Slots -> Names \cup {NoName}] /\ toConnect' = toConnect \ {s}
        BY <1>0, <1>2 DEF AddBot, TypeOK
    <2> QED BY <1>2, <2>1, <2>2, ShowKeeps DEF AddBot
<1>3. ASSUME NEW s \in Slots, NEW n \in Typed, NEW valid \in BOOLEAN,
             NEW tooSoon \in BOOLEAN, UpdateUserinfo(s, n, valid, tooSoon)
      PROVE  NamesInv'
    <2>1. Sanitized(s, n) \in Names /\ (~same => ~InUse(s, Sanitized(s, n)))
        BY SanitizedName, Constants
    <2>2. CASE valid
        <3> DEFINE name == IF tooSoon THEN players[s] ELSE Sanitized(s, n)
        <3>1. slot[s] = "human" /\ s \notin toConnect /\ players[s] \in Names
            BY <1>0, <1>3 DEF UpdateUserinfo, EveryoneIsNamed, TypeOK
        <3>2. name \in Names /\ (name = players[s] \/ name = Sanitized(s, n))
            BY <2>1, <3>1
        <3>3. /\ cleanName' \in [Slots -> Names \cup {NoName}]
              /\ toConnect' = toConnect \ {s} /\ same' = same /\ unclean' = unclean
              /\ slot' = [slot EXCEPT ![s] = "human"]
            BY <1>0, <1>3, <2>1, <2>2, <3>1 DEF UpdateUserinfo, TypeOK
        <3>4. Show(s, name)
            BY <1>3, <2>2 DEF UpdateUserinfo
        <3> HIDE DEF name
        <3> QED BY <2>1, <3>1, <3>2, <3>3, <3>4, ShowKeeps
    <2>3. CASE ~valid
        BY <1>3, <2>3, DropKeeps DEF UpdateUserinfo
    <2> QED BY <2>2, <2>3
<1>4. ASSUME NEW s \in Slots, Leave(s) PROVE NamesInv'
    BY <1>4, DropKeeps DEF Leave
<1>5. ASSUME NEW restart \in BOOLEAN, MapChange(restart) PROVE NamesInv'
    <2>1. TypeOK'
        BY <1>0, <1>5 DEF MapChange, TypeOK, Blank
    <2>2. EveryoneIsNamed'
        BY <1>0, <1>5 DEF MapChange, EveryoneIsNamed
    <2>3. NoSharedNames'
        BY <1>0, <1>5 DEF MapChange, NoSharedNames, Human, Shows, Blank
    <2> QED BY <1>0, <1>5, <2>1, <2>2, <2>3 DEF NamesInv, MapChange
<1>6. ASSUME NEW s \in Slots, NEW ok \in BOOLEAN, ConnectAgain(s, ok)
      PROVE  NamesInv'
    <2>1. s \in toConnect /\ slot[s] \in {"human", "bot"} /\ userinfo[s] \in Names
        BY <1>0, <1>6 DEF ConnectAgain, First, EveryoneIsNamed, TypeOK
    <2>2. CASE ~ok
        BY <1>6, <2>2, DropKeeps DEF ConnectAgain
    <2>3. CASE ok
        <3> DEFINE n == userinfo[s]
                   name == IF slot[s] = "bot" THEN n ELSE Sanitized(s, n)
        <3>1. Sanitized(s, n) \in Names /\ (~same => ~InUse(s, Sanitized(s, n)))
            BY <2>1, SanitizedName
        <3>2. name \in Names /\ (slot[s] = "human" /\ ~same => ~InUse(s, name))
            BY <2>1, <3>1
        <3>3. Show(s, name)
            BY <1>6, <2>3 DEF ConnectAgain
        <3>4. /\ cleanName' \in [Slots -> Names \cup {NoName}]
              /\ toConnect' = toConnect \ {s} /\ same' = same /\ unclean' = unclean
              /\ slot' = [slot EXCEPT ![s] = slot[s]]
            BY <1>0, <1>6, <2>3, <3>2 DEF ConnectAgain, TypeOK
        <3> HIDE DEF name
        <3> QED BY <2>1, <3>2, <3>3, <3>4, ShowKeeps
    <2> QED BY <2>2, <2>3
<1>7. ASSUME NEW value \in SameValues, SetSame(value) PROVE NamesInv'
    BY <1>0, <1>7, Constants
       DEF SetSame, NamesInv, TypeOK, EveryoneIsNamed, NoSharedNames, Human, Shows
<1>8. CASE UNCHANGED vars
    BY <1>0, <1>8
       DEF vars, NamesInv, TypeOK, EveryoneIsNamed, NoSharedNames, Human, Shows
<1> QED BY <1>1, <1>2, <1>3, <1>4, <1>5, <1>6, <1>7, <1>8 DEF Next

\* The types of Names, for every number of slots and names.
THEOREM NamesTypeOK == Spec => []TypeOK
<1>1. NamesInv => TypeOK
    BY DEF NamesInv
<1> QED BY <1>1, NamesInit, NamesNext, PTL DEF Spec

\* No two players show the same name while the setting is never on
\* (UniqueName and Sanitize, Features/Userinfo.cpp).
THEOREM PlayersHaveTheirOwnNames == Spec => []NoSharedNames
<1>1. NamesInv => NoSharedNames
    BY DEF NamesInv
<1> QED BY <1>1, NamesInit, NamesNext, PTL DEF Spec
-----------------------------------------------------------------------------
TakesAFreeNameStep ==
    \A s \in Slots :
        ~same /\ slot'[s] = "human" /\ players'[s] \notin {players[s], NoName}
            => ~InUse(s, players'[s])

\* What the steps that show a name do to the property.
LEMMA ShowsAFreeName ==
    ASSUME TypeOK, NEW s \in Slots, NEW name,
           players' = [players EXCEPT ![s] = name],
           ~same /\ slot'[s] = "human" /\ name \notin {players[s], NoName}
              => ~InUse(s, name)
    PROVE  TakesAFreeNameStep
<1>1. players'[s] = name /\ \A t \in Slots \ {s} : players'[t] = players[t]
    BY DEF TypeOK
<1> QED BY <1>1 DEF TakesAFreeNameStep

\* A player takes no name that another client shows, bots included, while the
\* setting is off.
THEOREM PlayersTakeFreeNames == Spec => TakesAFreeName
<1>1. NamesInv /\ [Next]_vars => [TakesAFreeNameStep]_vars
    <2> SUFFICES ASSUME NamesInv, Next PROVE TakesAFreeNameStep
        OBVIOUS
    <2>0. TypeOK /\ EveryoneIsNamed
        BY DEF NamesInv
    <2>1. ASSUME NEW s \in Slots, NEW n \in Typed, NEW ok \in BOOLEAN,
                 Connect(s, n, ok)
          PROVE  TakesAFreeNameStep
        <3>1. ~same => ~InUse(s, Sanitized(s, n))
            BY SanitizedName, Constants
        <3>2. CASE ok
            BY <2>0, <2>1, <3>1, <3>2, ShowsAFreeName DEF Connect, Show
        <3>3. CASE ~ok
            BY <2>1, <3>3 DEF Connect, TakesAFreeNameStep
        <3> QED BY <3>2, <3>3
    <2>2. ASSUME NEW s \in Slots, NEW n \in Typed, AddBot(s, n)
          PROVE  TakesAFreeNameStep
        <3>1. slot'[s] = "bot"
            BY <2>0, <2>2 DEF AddBot, TypeOK
        <3> QED BY <2>0, <2>2, <3>1, ShowsAFreeName DEF AddBot, Show
    <2>3. ASSUME NEW s \in Slots, NEW n \in Typed, NEW valid \in BOOLEAN,
                 NEW tooSoon \in BOOLEAN, UpdateUserinfo(s, n, valid, tooSoon)
          PROVE  TakesAFreeNameStep
        <3>1. ~same => ~InUse(s, Sanitized(s, n))
            BY SanitizedName, Constants
        <3>2. CASE valid
            BY <2>0, <2>3, <3>1, <3>2, ShowsAFreeName DEF UpdateUserinfo, Show
        <3>3. CASE ~valid
            BY <2>0, <2>3, <3>3, ShowsAFreeName DEF UpdateUserinfo, Drop
        <3> QED BY <3>2, <3>3
    <2>4. ASSUME NEW s \in Slots, Leave(s) PROVE TakesAFreeNameStep
        BY <2>0, <2>4, ShowsAFreeName DEF Leave, Drop
    <2>5. ASSUME NEW restart \in BOOLEAN, MapChange(restart) PROVE TakesAFreeNameStep
        BY <2>5 DEF MapChange, TakesAFreeNameStep, Blank
    <2>6. ASSUME NEW s \in Slots, NEW ok \in BOOLEAN, ConnectAgain(s, ok)
          PROVE  TakesAFreeNameStep
        <3>1. userinfo[s] \in Names
            BY <2>0, <2>6 DEF ConnectAgain, First, EveryoneIsNamed, TypeOK
        <3>2. ~same => ~InUse(s, Sanitized(s, userinfo[s]))
            BY <3>1, SanitizedName
        <3>3. CASE ok
            BY <2>0, <2>6, <3>2, <3>3, ShowsAFreeName DEF ConnectAgain, Show
        <3>4. CASE ~ok
            BY <2>0, <2>6, <3>4, ShowsAFreeName DEF ConnectAgain, Drop
        <3> QED BY <3>3, <3>4
    <2>7. ASSUME NEW value \in SameValues, SetSame(value) PROVE TakesAFreeNameStep
        BY <2>7 DEF SetSame, TakesAFreeNameStep
    <2> QED BY <2>1, <2>2, <2>3, <2>4, <2>5, <2>6, <2>7 DEF Next
<1> QED BY <1>1, NamesInit, NamesNext, PTL DEF Spec, TakesAFreeName, TakesAFreeNameStep

-----------------------------------------------------------------------------
(* Map changes *)

\* Two players have their own keys in their userinfo.
OwnKeys ==
    \A s, t \in Slots :
        s # t /\ Human(s) /\ Human(t) => NameKey(userinfo[s]) # NameKey(userinfo[t])

\* A slot shows what is in its userinfo, but that the clients to connect again after a
\* map change show nothing yet; meanwhile the players' own keys are kept until a bot
\* is in, which takes no other name for them, and unless the cleaning changes a name.
KeptInv ==
    /\ NamesInv
    /\ \A s \in Slots : slot[s] = "free" => players[s] = NoName /\ userinfo[s] = NoName
    /\ \A s \in Slots \ toConnect : players[s] = userinfo[s]
    /\ \/ \A s \in toConnect : players[s] = userinfo[s]
       \/ \A s \in toConnect : players[s] = NoName
    /\ TRUE \notin SameValues =>
          \/ OwnKeys
          \/ toConnect # {} /\ (unclean \/ \E s \in Slots \ toConnect : slot[s] = "bot")
    /\ ~unclean => \A s \in toConnect : slot[s] = "human" => Clean(userinfo[s]) = userinfo[s]

\* When everyone shows the name of the userinfo, the keys are their own.
LEMMA ShownKeys ==
    ASSUME TRUE \notin SameValues, NamesInv, \A s \in Slots : players[s] = userinfo[s]
    PROVE  OwnKeys
BY DEF NamesInv, EveryoneIsNamed, NoSharedNames, OwnKeys, Human, Shows

LEMMA KeptInit == Init => KeptInv
<1> SUFFICES ASSUME Init PROVE KeptInv
    OBVIOUS
<1>1. slot = [s \in Slots |-> "free"] /\ players = Blank /\ userinfo = Blank /\ toConnect = {}
    BY DEF Init
<1>2. \A s \in Slots : slot[s] = "free" /\ players[s] = NoName /\ userinfo[s] = NoName
    BY <1>1 DEF Blank
<1>3. OwnKeys
    BY <1>2 DEF OwnKeys, Human
<1> QED
    BY <1>1, <1>2, <1>3, NamesInit DEF KeptInv

\* A client to connect again, while no bot is in, finds its name free.
LEMMA NameIsStillFree ==
    ASSUME KeptInv, TRUE \notin SameValues, ~unclean, NEW s \in toConnect, slot[s] = "human",
           \/ \A t \in toConnect : players[t] = NoName
           \/ \A t \in Slots : slot[t] # "bot",
           \A t \in Slots \ toConnect : slot[t] # "bot"
    PROVE  Sanitized(s, userinfo[s]) = userinfo[s]
<1>1. /\ NamesInv /\ TypeOK /\ EveryoneIsNamed /\ NoSharedNames
      /\ \A t \in Slots : slot[t] = "free" => players[t] = NoName /\ userinfo[t] = NoName
      /\ \A t \in Slots \ toConnect : players[t] = userinfo[t]
      /\ \/ \A t \in toConnect : players[t] = userinfo[t]
         \/ \A t \in toConnect : players[t] = NoName
      /\ OwnKeys
      /\ Clean(userinfo[s]) = userinfo[s]
    BY DEF KeptInv, NamesInv
<1>2. s \in Slots
    BY <1>1 DEF TypeOK
<1>3. ASSUME NEW t \in Slots \ {s}, players[t] # NoName,
             NameKey(players[t]) = NameKey(userinfo[s])
      PROVE  FALSE
    <2>1. players[t] = userinfo[t]
        BY <1>1, <1>3
    <2>2. slot[t] # "free"
        BY <1>1, <1>3
    <2>3. slot[t] # "bot"
        BY <1>1, <1>3
    <2>4. slot[t] = "human"
        BY <1>1, <2>2, <2>3 DEF TypeOK
    <2> QED
        BY <1>1, <1>2, <1>3, <2>1, <2>4 DEF OwnKeys, Human
<1>4. ~InUse(s, userinfo[s])
    BY <1>3 DEF InUse
<1> QED
    BY <1>1, <1>4 DEF Sanitized, UniqueName

\* A step outside of a map change.
LEMMA ShowsItsUserinfo ==
    ASSUME KeptInv, NamesInv', toConnect = {}, toConnect' = {}, NEW s \in Slots, NEW name,
           Show(s, name), slot' = [slot EXCEPT ![s] = "human"] \/ slot' = [slot EXCEPT ![s] = "bot"]
    PROVE  KeptInv'
<1>1. /\ TypeOK
      /\ \A t \in Slots : slot[t] = "free" => players[t] = NoName /\ userinfo[t] = NoName
      /\ \A t \in Slots : players[t] = userinfo[t]
    BY DEF KeptInv, NamesInv
<1>2. /\ players'[s] = name /\ userinfo'[s] = name /\ slot'[s] # "free"
      /\ \A t \in Slots \ {s} : /\ players'[t] = players[t] /\ userinfo'[t] = userinfo[t]
                                /\ slot'[t] = slot[t]
    BY <1>1 DEF Show, TypeOK
<1>3. \A t \in Slots : players'[t] = userinfo'[t]
    BY <1>1, <1>2
<1>4. TRUE \notin SameValues => OwnKeys'
    BY <1>3 DEF NamesInv, EveryoneIsNamed, NoSharedNames, OwnKeys, Human, Shows
<1>5. \A t \in Slots : slot'[t] = "free" => players'[t] = NoName /\ userinfo'[t] = NoName
    BY <1>1, <1>2
<1>6. (\A t \in Slots \ toConnect' : players'[t] = userinfo'[t])
      /\ (\A t \in toConnect' : players'[t] = userinfo'[t])
    BY <1>3
<1> QED
    BY <1>4, <1>5, <1>6 DEF KeptInv

LEMMA DropsItsUserinfo ==
    ASSUME KeptInv, NamesInv', toConnect = {}, toConnect' = {}, NEW s \in Slots, Drop(s)
    PROVE  KeptInv'
<1>1. /\ TypeOK
      /\ \A t \in Slots : slot[t] = "free" => players[t] = NoName /\ userinfo[t] = NoName
      /\ \A t \in Slots : players[t] = userinfo[t]
    BY DEF KeptInv, NamesInv
<1>2. /\ players'[s] = NoName /\ userinfo'[s] = NoName /\ slot'[s] = "free"
      /\ \A t \in Slots \ {s} : /\ players'[t] = players[t] /\ userinfo'[t] = userinfo[t]
                                /\ slot'[t] = slot[t]
    BY <1>1 DEF Drop, TypeOK
<1>3. \A t \in Slots : players'[t] = userinfo'[t]
    BY <1>1, <1>2
<1>4. TRUE \notin SameValues => OwnKeys'
    BY <1>3 DEF NamesInv, EveryoneIsNamed, NoSharedNames, OwnKeys, Human, Shows
<1>5. \A t \in Slots : slot'[t] = "free" => players'[t] = NoName /\ userinfo'[t] = NoName
    BY <1>1, <1>2
<1>6. (\A t \in Slots \ toConnect' : players'[t] = userinfo'[t])
      /\ (\A t \in toConnect' : players'[t] = userinfo'[t])
    BY <1>3
<1> QED
    BY <1>4, <1>5, <1>6 DEF KeptInv

\* What does not change the names.
LEMMA SameNames ==
    ASSUME KeptInv, NamesInv', UNCHANGED <<slot, userinfo, players, toConnect, unclean>>
    PROVE  KeptInv'
BY DEF KeptInv, OwnKeys, Human

LEMMA ConnectsAgain ==
    ASSUME KeptInv, NamesInv', NEW s \in Slots, NEW ok \in BOOLEAN, ConnectAgain(s, ok)
    PROVE  KeptInv'
<1>1. /\ NamesInv /\ TypeOK /\ EveryoneIsNamed
      /\ same \in SameValues
      /\ \A t \in Slots : slot[t] = "free" => players[t] = NoName /\ userinfo[t] = NoName
      /\ \A t \in Slots \ toConnect : players[t] = userinfo[t]
      /\ \/ \A t \in toConnect : players[t] = userinfo[t]
         \/ \A t \in toConnect : players[t] = NoName
      /\ TRUE \notin SameValues =>
            \/ OwnKeys
            \/ toConnect # {} /\ (unclean \/ \E t \in Slots \ toConnect : slot[t] = "bot")
      /\ ~unclean => \A t \in toConnect : slot[t] = "human" => Clean(userinfo[t]) = userinfo[t]
    BY DEF KeptInv, NamesInv
<1>2. s \in toConnect /\ toConnect' = toConnect \ {s} /\ toConnect \subseteq Slots
    BY <1>1 DEF ConnectAgain, First, TypeOK
<1>3. slot[s] # "free"
    BY <1>1, <1>2 DEF EveryoneIsNamed
<1>4. \E name \in {players'[s]} :
          /\ players'[s] = name /\ userinfo'[s] = name
          /\ \A t \in Slots \ {s} : /\ players'[t] = players[t] /\ userinfo'[t] = userinfo[t]
                                    /\ slot'[t] = slot[t]
          /\ slot'[s] = "free" => name = NoName
          /\ slot'[s] \in {"free", slot[s]}
          /\ slot'[s] = "human" => name = Sanitized(s, userinfo[s])
    <2>1. CASE ~ok
        <3>1. Drop(s)
            BY <2>1 DEF ConnectAgain
        <3> QED
            BY <1>1, <3>1 DEF Drop, TypeOK
    <2>2. CASE ok
        <3>1. PICK name : /\ name = (IF slot[s] = "bot" THEN userinfo[s] ELSE Sanitized(s, userinfo[s]))
                          /\ Show(s, name) /\ slot' = slot
            BY <2>2 DEF ConnectAgain
        <3>2. /\ players'[s] = name /\ userinfo'[s] = name
              /\ \A t \in Slots \ {s} : players'[t] = players[t] /\ userinfo'[t] = userinfo[t]
            BY <1>1, <3>1 DEF Show, TypeOK
        <3>3. slot[s] = "human" => slot[s] # "bot"
            OBVIOUS
        <3> QED
            BY <1>3, <3>1, <3>2, <3>3
    <2> QED
        BY <2>1, <2>2
<1>5. \A t \in Slots : slot'[t] = "free" => players'[t] = NoName /\ userinfo'[t] = NoName
    BY <1>1, <1>4
<1>6. \A t \in Slots \ toConnect' : players'[t] = userinfo'[t]
    BY <1>1, <1>2, <1>4
<1>7. \/ \A t \in toConnect' : players'[t] = userinfo'[t]
      \/ \A t \in toConnect' : players'[t] = NoName
    BY <1>1, <1>2, <1>4
<1>8. ASSUME TRUE \notin SameValues
      PROVE  \/ OwnKeys'
             \/ /\ toConnect' # {}
                /\ unclean' \/ \E t \in Slots \ toConnect' : slot'[t] = "bot"
    <2>1. CASE \A t \in toConnect' : players'[t] = userinfo'[t]
        <3>1. \A t \in Slots : players'[t] = userinfo'[t]
            BY <1>6, <2>1
        <3>2. OwnKeys'
            BY <1>8, <3>1 DEF NamesInv, EveryoneIsNamed, NoSharedNames, OwnKeys, Human, Shows
        <3> QED
            BY <3>2
    <2>2. CASE ~(\A t \in toConnect' : players'[t] = userinfo'[t])
        <3>1. toConnect' # {} /\ \A t \in toConnect : players[t] = NoName
            BY <1>1, <1>2, <1>4, <2>2
        <3>2. CASE unclean \/ \E t \in Slots \ toConnect' : slot'[t] = "bot"
            <4>1. unclean' = unclean
                BY DEF ConnectAgain
            <4> QED
                BY <3>1, <3>2, <4>1
        <3>3. CASE ~unclean /\ \A t \in Slots \ toConnect' : slot'[t] # "bot"
            <4>1. \A t \in Slots \ toConnect : slot[t] # "bot"
                BY <1>2, <1>4, <3>3
            <4>2. OwnKeys
                BY <1>1, <1>8, <3>3, <4>1
            <4>3. slot'[s] = "human" => userinfo'[s] = userinfo[s] /\ slot[s] = "human"
                <5>1. ASSUME slot'[s] = "human" PROVE slot[s] = "human"
                    BY <1>4, <5>1
                <5>2. ASSUME slot'[s] = "human" PROVE userinfo'[s] = userinfo[s]
                    BY <1>2, <1>4, <1>8, <3>1, <3>3, <4>1, <5>1, <5>2, NameIsStillFree
                <5> QED
                    BY <5>1, <5>2
            <4>4. OwnKeys'
                BY <1>4, <4>2, <4>3 DEF OwnKeys, Human
            <4> QED
                BY <4>4
        <3> QED
            BY <3>2, <3>3
    <2> QED
        BY <2>1, <2>2
<1>9. unclean' = unclean
    BY DEF ConnectAgain
<1>10. ~unclean' => \A t \in toConnect' : slot'[t] = "human" => Clean(userinfo'[t]) = userinfo'[t]
    BY <1>1, <1>2, <1>4, <1>9
<1> QED
    BY <1>5, <1>6, <1>7, <1>8, <1>10 DEF KeptInv

LEMMA KeptNext ==
    ASSUME KeptInv, [Next]_vars
    PROVE  KeptInv'
<1>1. NamesInv /\ TypeOK /\ \A s \in Slots : slot[s] = "free" => players[s] = NoName /\ userinfo[s] = NoName
    BY DEF KeptInv, NamesInv
<1>2. NamesInv'
    BY <1>1, NamesNext
<1>3. ASSUME NEW s \in Slots, NEW n \in Typed, NEW ok \in BOOLEAN, Connect(s, n, ok)
      PROVE  KeptInv'
    <2>1. toConnect = {} /\ toConnect' = {}
        BY <1>3 DEF Connect
    <2>2. CASE ok
        <3>1. Show(s, Sanitized(s, n)) /\ slot' = [slot EXCEPT ![s] = "human"]
            BY <1>3, <2>2 DEF Connect
        <3> QED
            BY <1>2, <2>1, <3>1, ShowsItsUserinfo
    <2>3. CASE ~ok
        BY <1>2, <1>3, <2>3, SameNames DEF Connect
    <2> QED
        BY <2>2, <2>3
<1>4. ASSUME NEW s \in Slots, NEW n \in Typed, AddBot(s, n) PROVE KeptInv'
    <2>1. toConnect = {} /\ toConnect' = {} /\ Show(s, n) /\ slot' = [slot EXCEPT ![s] = "bot"]
        BY <1>4 DEF AddBot
    <2> QED
        BY <1>2, <2>1, ShowsItsUserinfo
<1>5. ASSUME NEW s \in Slots, NEW n \in Typed, NEW valid \in BOOLEAN,
             NEW tooSoon \in BOOLEAN, UpdateUserinfo(s, n, valid, tooSoon)
      PROVE  KeptInv'
    <2>1. toConnect = {} /\ toConnect' = {} /\ slot[s] = "human"
        BY <1>5 DEF UpdateUserinfo
    <2>2. CASE valid
        <3>1. PICK name : Show(s, name) /\ slot' = slot
            BY <1>5, <2>2 DEF UpdateUserinfo
        <3>2. slot' = [slot EXCEPT ![s] = "human"]
            BY <1>1, <2>1, <3>1 DEF TypeOK
        <3> QED
            BY <1>2, <2>1, <3>1, <3>2, ShowsItsUserinfo
    <2>3. CASE ~valid
        <3>1. Drop(s)
            BY <1>5, <2>3 DEF UpdateUserinfo
        <3> QED
            BY <1>2, <2>1, <3>1, DropsItsUserinfo
    <2> QED
        BY <2>2, <2>3
<1>6. ASSUME NEW s \in Slots, Leave(s) PROVE KeptInv'
    <2>1. toConnect = {} /\ toConnect' = {} /\ Drop(s)
        BY <1>6 DEF Leave
    <2> QED
        BY <1>2, <2>1, DropsItsUserinfo
<1>7. ASSUME NEW restart \in BOOLEAN, MapChange(restart) PROVE KeptInv'
    <2>1. \A s \in Slots : players[s] = userinfo[s]
        BY <1>7 DEF MapChange, KeptInv
    <2>2. TRUE \notin SameValues => OwnKeys
        BY <1>1, <2>1, ShownKeys
    <2>3. OwnKeys => OwnKeys'
        BY <1>7 DEF MapChange, OwnKeys, Human
    <2>4. slot' = slot /\ userinfo' = userinfo /\ toConnect' = {s \in Slots : slot[s] # "free"}
        BY <1>7 DEF MapChange
    <2>5. (\A s \in Slots : players'[s] = players[s]) \/ (\A s \in Slots : players'[s] = NoName)
        BY <1>7 DEF MapChange, Blank
    <2>6. unclean' = \E s \in Slots : slot[s] = "human" /\ Clean(userinfo[s]) # userinfo[s]
        BY <1>7 DEF MapChange
    <2>7. ~unclean' => \A s \in toConnect' : slot'[s] = "human" => Clean(userinfo'[s]) = userinfo'[s]
        BY <2>4, <2>6
    <2> QED
        BY <1>1, <1>2, <2>1, <2>2, <2>3, <2>4, <2>5, <2>7 DEF KeptInv
<1>8. ASSUME NEW s \in Slots, NEW ok \in BOOLEAN, ConnectAgain(s, ok) PROVE KeptInv'
    BY <1>2, <1>8, ConnectsAgain
<1>9. ASSUME NEW value \in SameValues, SetSame(value) PROVE KeptInv'
    BY <1>2, <1>9, SameNames DEF SetSame
<1>10. CASE UNCHANGED vars
    BY <1>2, <1>10, SameNames DEF vars
<1> QED
    BY <1>3, <1>4, <1>5, <1>6, <1>7, <1>8, <1>9, <1>10 DEF Next

\* A client that comes back keeps its name, while there is no bot and the cleaning
\* changes no name.
KeepsItsName ==
    TRUE \notin SameValues /\ ~unclean /\ (\A s \in Slots : slot[s] # "bot")
        => \A s \in toConnect \ toConnect' : slot'[s] = "human" => players'[s] = userinfo[s]

LEMMA ComesBackAsItWas ==
    ASSUME KeptInv, [Next]_vars, TRUE \notin SameValues, ~unclean,
           \A s \in Slots : slot[s] # "bot",
           NEW s \in toConnect \ toConnect', slot'[s] = "human"
    PROVE  players'[s] = userinfo[s]
<1>1. TypeOK /\ EveryoneIsNamed
    BY DEF KeptInv, NamesInv
<1>2. PICK t \in Slots, ok \in BOOLEAN : ConnectAgain(t, ok)
    BY DEF Next, vars, Connect, AddBot, UpdateUserinfo, Leave, MapChange, SetSame
<1>3. t = s /\ s \in Slots /\ slot[s] # "free"
    BY <1>1, <1>2 DEF ConnectAgain, TypeOK, EveryoneIsNamed
<1>4. CASE ok
    <2>1. slot[s] = "human"
        BY <1>1, <1>3 DEF TypeOK
    <2>2. Sanitized(s, userinfo[s]) = userinfo[s]
        BY <2>1, NameIsStillFree
    <2>3. Show(s, userinfo[s])
        BY <1>2, <1>3, <1>4, <2>1, <2>2 DEF ConnectAgain
    <2> QED
        BY <1>1, <1>3, <2>3 DEF Show, TypeOK
<1>5. CASE ~ok
    <2>1. slot'[s] = "free"
        BY <1>1, <1>2, <1>3, <1>5 DEF ConnectAgain, Drop, TypeOK
    <2> QED
        BY <2>1
<1> QED
    BY <1>4, <1>5

\* Players take no name that is shown, and keep the one they have through map changes
\* and map restarts while no bot plays and no player has a name that the second
\* cleaning changes, for every number of slots, every set of names and every cleaning
\* (UniqueName and Sanitize, Features/Userinfo.cpp).
THEOREM NamesAreTakenAndKept == Spec => NamesTakenAndKept
<1>1. KeptInv /\ [Next]_vars => [KeepsItsName]_vars
    BY ComesBackAsItWas DEF KeepsItsName
<1>2. KeptInv /\ [Next]_vars => KeptInv'
    BY KeptNext
<1> QED
    BY <1>1, <1>2, KeptInit, PlayersTakeFreeNames, PTL
       DEF Spec, NamesTakenAndKept, NamesSurviveMapChange, KeepsItsName

-----------------------------------------------------------------------------
(* The cleaning of a name *)

\* The count is that of the characters left without the colors.
CleanInv ==
    /\ in \in Seq(U!N!Classes) /\ out \in Seq(U!N!Classes)
    /\ colorlessLen \in Nat
    /\ cleaning \in {"leading", "copying", "done"}
    /\ cleaning # "done" => Cardinality(U!N!Colorless(out)) = colorlessLen
    /\ SomethingToShow

LEMMA NameLimits == Chars \subseteq U!N!Classes /\ MaxTyped \in Nat /\ NameSize \in Nat \ {0}
BY PartsAssumption DEF PartsAssumption, U!UserinfoConstants, U!N!NameConstants

\* A name without characters has none to show.
LEMMA NothingToShow == U!N!Colorless(<<>>) = {}
BY DEF U!N!Colorless

LEMMA CleanInit ==
    ASSUME typed \in Seq(Chars), in = typed, out = <<>>, colorlessLen = 0, cleaning = "leading"
    PROVE  CleanInv
<1>1. in \in Seq(U!N!Classes) /\ out \in Seq(U!N!Classes)
    BY NameLimits
<1>2. Cardinality(U!N!Colorless(out)) = 0
    BY NothingToShow, FS_EmptySet
<1> QED
    BY <1>1, <1>2 DEF CleanInv, SomethingToShow, U!SomethingToShow, U!N!SomethingToShow

\* The rest of a name.
LEMMA WithoutIsARest ==
    ASSUME NEW S, NEW name \in Seq(S), NEW ch
    PROVE  U!N!Without(ch, name) \in Seq(S)
<1> DEFINE others == {n \in DOMAIN name : name[n] # ch}
<1>1. PICK l \in Nat : l = Len(name) /\ DOMAIN name = 1..l
    OBVIOUS
<1>2. CASE others = {}
    BY <1>2 DEF U!N!Without
<1>3. CASE others # {}
    <2>1. others \in SUBSET Nat
        BY <1>1
    <2>2. PICK x \in others : \A y \in others : x <= y
        BY <1>3, <2>1, LowestNumber
    <2>3. U!N!Min(others) \in others
        BY <2>2 DEF U!N!Min
    <2>4. PICK m \in 1..l : m = U!N!Min(others)
        BY <1>1, <2>3
    <2> HIDE DEF others
    <2>5. \A n \in m..Len(name) : name[n] \in S
        <3>1. \A n \in m..l : n \in 1..l
            OBVIOUS
        <3> QED
            BY <1>1, <3>1
    <2>6. SubSeq(name, m, Len(name)) \in Seq(S)
        BY <1>1, <2>5, SubSeqProperties
    <2>7. U!N!Without(ch, name) = SubSeq(name, m, Len(name))
        BY <1>3, <2>4 DEF others, U!N!Without
    <2> QED
        BY <2>6, <2>7
<1> QED
    BY <1>2, <1>3

\* A character more shows, but that of a color, which also hides the escape before it.
LEMMA OneMore ==
    ASSUME out \in Seq(U!N!Classes), in \in Seq(U!N!Classes), in # <<>>,
           NEW n \in Nat, n = Len(out), NEW longer, longer = Append(out, Head(in))
    PROVE  IF U!N!MakesColor
           THEN n \in U!N!Colorless(out) /\ U!N!Colorless(longer) = U!N!Colorless(out) \ {n}
           ELSE U!N!Colorless(longer) = U!N!Colorless(out) \cup {n + 1}
<1>1. PICK last \in U!N!Classes : last = Head(in)
    BY HeadTailProperties
<1>2. /\ DOMAIN out = 1..n /\ DOMAIN longer = 1..(n + 1) /\ longer[n + 1] = last
      /\ \A j \in 1..n : longer[j] = out[j]
    BY <1>1
<1>3. U!N!MakesColor <=> n # 0 /\ out[n] = "escape" /\ last = "digit"
    <2>1. out # <<>> <=> n # 0
        BY <1>2
    <2> QED
        BY <1>1, <2>1 DEF U!N!MakesColor, U!N!Last
<1>4. \A j \in 1..n : j # n => (U!N!IsColor(longer, j) <=> U!N!IsColor(out, j))
    <2> TAKE j \in 1..n
    <2>1. j # n => j + 1 \in 1..n
        OBVIOUS
    <2>2. j + 1 \in 1..n => longer[j + 1] = out[j + 1] /\ j + 1 \in 1..(n + 1)
        BY <1>2
    <2> QED
        BY <1>2, <2>1, <2>2 DEF U!N!IsColor
<1>5. ~U!N!IsColor(longer, n + 1) /\ ~U!N!IsColor(out, n)
    BY <1>2 DEF U!N!IsColor
<1>6. n # 0 => (U!N!IsColor(longer, n) <=> U!N!MakesColor)
    <2>1. n # 0 => n \in 1..n /\ n + 1 \in 1..(n + 1)
        OBVIOUS
    <2> QED
        BY <1>2, <1>3, <2>1 DEF U!N!IsColor
<1>7. \A j \in 1..n : j # n =>
        (j \in U!N!Colorless(longer) <=> j \in U!N!Colorless(out))
    <2> TAKE j \in 1..n
    <2>1. j # n /\ j > 1 => j - 1 \in 1..n /\ j - 1 # n
        OBVIOUS
    <2>2. j \in 1..(n + 1)
        OBVIOUS
    <2> QED
        BY <1>2, <1>4, <2>1, <2>2 DEF U!N!Colorless
<1>8. n # 0 => (n \in U!N!Colorless(out) <=> ~(n > 1 /\ U!N!IsColor(out, n - 1)))
    <2>1. n # 0 => n \in 1..n
        OBVIOUS
    <2> QED
        BY <1>2, <1>5, <2>1 DEF U!N!Colorless
<1>9. n # 0 => (n \in U!N!Colorless(longer)
                <=> ~U!N!MakesColor /\ ~(n > 1 /\ U!N!IsColor(out, n - 1)))
    <2>1. n # 0 => n \in 1..n /\ n \in 1..(n + 1)
        OBVIOUS
    <2>2. n > 1 => n - 1 \in 1..n /\ n - 1 # n
        OBVIOUS
    <2> QED
        BY <1>2, <1>4, <1>6, <2>1, <2>2 DEF U!N!Colorless
<1>10. n + 1 \in U!N!Colorless(longer) <=> ~U!N!MakesColor
    <2>1. n + 1 \in 1..(n + 1) /\ (n + 1) - 1 = n /\ (n + 1 > 1 <=> n # 0)
        OBVIOUS
    <2> QED
        BY <1>2, <1>3, <1>5, <1>6, <2>1 DEF U!N!Colorless
<1>11. U!N!Colorless(out) \subseteq 1..n /\ U!N!Colorless(longer) \subseteq 1..(n + 1)
    BY <1>2 DEF U!N!Colorless
<1>12. \A j \in 1..(n + 1) : j = n + 1 \/ (j \in 1..n /\ n # 0)
    OBVIOUS
<1>13. CASE U!N!MakesColor
    <2>1. ~U!N!IsColor(out, n - 1)
        <3>1. (n - 1) + 1 = n
            OBVIOUS
        <3> QED
            BY <1>3, <1>13, <3>1 DEF U!N!IsColor
    <2>2. n # 0 /\ n \in U!N!Colorless(out) /\ n \notin U!N!Colorless(longer)
        BY <1>3, <1>8, <1>9, <1>13, <2>1
    <2>3. n + 1 \notin U!N!Colorless(out) /\ n + 1 \notin U!N!Colorless(longer)
        <3>1. n + 1 \notin 1..n
            OBVIOUS
        <3> QED
            BY <1>10, <1>11, <1>13, <3>1
    <2>4. U!N!Colorless(longer) = U!N!Colorless(out) \ {n}
        BY <1>7, <1>11, <1>12, <2>2, <2>3
    <2> QED
        BY <1>13, <2>2, <2>4
<1>14. CASE ~U!N!MakesColor
    <2>1. n # 0 => (n \in U!N!Colorless(out) <=> n \in U!N!Colorless(longer))
        BY <1>8, <1>9, <1>14
    <2>2. n + 1 \in U!N!Colorless(longer)
        BY <1>10, <1>14
    <2>3. n + 1 \in 1..(n + 1) /\ 1..n \subseteq 1..(n + 1)
        OBVIOUS
    <2>4. U!N!Colorless(longer) = U!N!Colorless(out) \cup {n + 1}
        BY <1>7, <1>11, <1>12, <2>1, <2>2, <2>3
    <2> QED
        BY <1>14, <2>4
<1> QED
    BY <1>13, <1>14

LEMMA CleanNext == CleanInv /\ U!N!Next => CleanInv'
<1> SUFFICES ASSUME CleanInv, U!N!Next PROVE CleanInv'
    OBVIOUS
<1> USE DEF SomethingToShow, U!SomethingToShow, U!N!SomethingToShow
<1>1. /\ in \in Seq(U!N!Classes) /\ out \in Seq(U!N!Classes) /\ colorlessLen \in Nat
      /\ cleaning # "done" => Cardinality(U!N!Colorless(out)) = colorlessLen
    BY DEF CleanInv
<1>2. PICK n \in Nat : n = Len(out)
    BY <1>1
<1>3. U!N!Colorless(out) \subseteq 1..n /\ IsFiniteSet(U!N!Colorless(out))
    <2>1. U!N!Colorless(out) \subseteq 1..n
        BY <1>1, <1>2 DEF U!N!Colorless
    <2>2. IsFiniteSet(1..n)
        BY FS_Interval
    <2> QED
        BY <2>1, <2>2, FS_Subset
<1>4. CASE U!N!DiscardLeading
    <2>1. in' \in Seq(U!N!Classes)
        BY <1>1, <1>4, WithoutIsARest DEF U!N!DiscardLeading
    <2> QED
        BY <1>1, <1>4, <2>1 DEF U!N!DiscardLeading, CleanInv
<1>5. CASE U!N!Skip
    <2>1. in # <<>> /\ in' = Tail(in) /\ out' = out /\ colorlessLen' = colorlessLen
          /\ cleaning' = cleaning /\ cleaning = "copying"
        BY <1>5 DEF U!N!Skip, U!N!More
    <2>2. in' \in Seq(U!N!Classes)
        BY <1>1, <2>1, HeadTailProperties
    <2> QED
        BY <1>1, <2>1, <2>2 DEF CleanInv
<1>6. CASE U!N!Keep
    <2>1. /\ in # <<>> /\ in' = Tail(in) /\ out' = Append(out, Head(in))
          /\ colorlessLen' = U!N!Counted /\ cleaning' = "copying" /\ cleaning = "copying"
        BY <1>6 DEF U!N!Keep, U!N!More
    <2>2. in' \in Seq(U!N!Classes) /\ Head(in) \in U!N!Classes
        BY <1>1, <2>1, HeadTailProperties
    <2>3. PICK longer : longer = Append(out, Head(in))
        OBVIOUS
    <2>4. out' \in Seq(U!N!Classes) /\ out' = longer
        BY <1>1, <2>1, <2>2, <2>3
    <2>5. IF U!N!MakesColor
          THEN n \in U!N!Colorless(out) /\ U!N!Colorless(longer) = U!N!Colorless(out) \ {n}
          ELSE U!N!Colorless(longer) = U!N!Colorless(out) \cup {n + 1}
        BY <1>1, <1>2, <2>1, <2>3, OneMore
    <2>6. PICK shown : shown = U!N!Colorless(out)
        OBVIOUS
    <2>7. IsFiniteSet(shown) /\ Cardinality(shown) = colorlessLen /\ n + 1 \notin shown
        <3>1. n + 1 \notin 1..n
            OBVIOUS
        <3> QED
            BY <1>1, <1>3, <2>1, <2>6, <3>1
    <2>8. CASE U!N!MakesColor
        <3>1. Cardinality(shown \ {n}) = colorlessLen - 1 /\ Cardinality(shown \ {n}) \in Nat
            BY <2>5, <2>6, <2>7, <2>8, FS_RemoveElement, FS_CardinalityType
        <3>2. colorlessLen' = colorlessLen - 1 /\ U!N!Colorless(longer) = shown \ {n}
            BY <2>1, <2>5, <2>6, <2>8 DEF U!N!Counted
        <3> QED
            BY <2>1, <2>2, <2>4, <3>1, <3>2 DEF CleanInv
    <2>9. CASE ~U!N!MakesColor
        <3>1. Cardinality(shown \cup {n + 1}) = colorlessLen + 1
            BY <2>7, FS_AddElement
        <3>2. colorlessLen' = colorlessLen + 1 /\ U!N!Colorless(longer) = shown \cup {n + 1}
            BY <2>1, <2>5, <2>6, <2>9 DEF U!N!Counted
        <3>3. colorlessLen' \in Nat /\ Cardinality(U!N!Colorless(out')) = colorlessLen'
            BY <1>1, <2>4, <3>1, <3>2
        <3> QED
            BY <2>1, <2>2, <2>4, <3>3 DEF CleanInv
    <2> QED
        BY <2>8, <2>9
<1>7. CASE U!N!Finish
    <2>1. /\ out' = (IF out = <<>> \/ colorlessLen = 0 THEN <<"letter">> ELSE out)
          /\ cleaning' = "done" /\ in' = in /\ colorlessLen' = colorlessLen
          /\ cleaning = "copying"
        BY <1>7 DEF U!N!Finish, U!N!Padawan
    <2>2. CASE out = <<>> \/ colorlessLen = 0
        <3>1. out' = <<"letter">>
            BY <2>1, <2>2
        <3>2. out' \in Seq({"letter"}) /\ DOMAIN out' = 1..1 /\ out'[1] = "letter"
            BY <3>1
        <3>3. 1 \in U!N!Colorless(out')
            BY <3>2 DEF U!N!Colorless, U!N!IsColor
        <3>4. out' \in Seq(U!N!Classes)
            BY <3>1 DEF U!N!Classes
        <3> QED
            BY <1>1, <2>1, <3>3, <3>4 DEF CleanInv
    <2>3. CASE out # <<>> /\ colorlessLen # 0
        <3>1. U!N!Colorless(out) # {}
            BY <1>1, <2>1, <2>3, FS_EmptySet
        <3> QED
            BY <1>1, <2>1, <2>3, <3>1 DEF CleanInv
    <2> QED
        BY <2>2, <2>3
<1> QED
    BY <1>4, <1>5, <1>6, <1>7 DEF U!N!Next

-----------------------------------------------------------------------------
(* The force powers *)

PowersTypeOK ==
    /\ sent \in Seq(U!F!Classes)
    /\ checking \in {"length", "loop", "end", "done"}
    /\ badForce \in BOOLEAN

\* The separators that the game would read are at the places a and b.
Separators(a, b2) ==
    /\ 1 < a /\ a + 1 < b2 /\ b2 <= LastSeparator + 1
    /\ sent[a] = "-" /\ sent[b2] = "-"
    /\ \A j \in (1..(b2 - 1)) \ {a} : sent[j] \in U!F!Digits

\* What the first i characters are, by the separators among them.
NoneRead == powersStart = 0 /\ \A j \in 1..i : sent[j] \in U!F!Digits
OneRead ==
    /\ powersStart \in 2..i /\ powersStart <= LastSeparator + 1
    /\ sent[powersStart] = "-"
    /\ \A j \in (1..i) \ {powersStart} : sent[j] \in U!F!Digits
TwoRead ==
    /\ powersStart \in 1..i
    /\ \E a \in 1..i : Separators(a, powersStart)
    /\ \A j \in (powersStart + 1)..i : sent[j] = "low"
TooManyRead == \E a, b2, c3 \in 1..i : a < b2 /\ b2 < c3 /\ sent[a] = "-" /\ sent[b2] = "-" /\ sent[c3] = "-"

RightLength == Len(sent) \in MinLength..MaxLength

\* The characters read are those of a value that the game can read, as far as they go,
\* or no value that starts like this is.
PowersInv ==
    /\ PowersTypeOK
    /\ checking = "length" => ~badForce /\ i = 0 /\ seps = 0 /\ powersStart = 0
    /\ checking \in {"loop", "end"} =>
          /\ RightLength
          /\ i \in 0..Len(sent) /\ seps \in Nat
          /\ \/ badForce /\ checking = "end" /\ ~U!F!Readable(sent)
             \/ /\ ~badForce
                /\ seps = 0 => NoneRead
                /\ seps = 1 => OneRead
                /\ seps = 2 => TwoRead
                /\ seps > 2 => TooManyRead
                /\ checking = "end" => i = Len(sent)
    /\ checking = "done" => (badForce <=> ~(RightLength /\ U!F!Readable(sent)))

LEMMA PowersLimits ==
    /\ MinLength \in Nat \ {0} /\ MaxLength \in Nat /\ LastSeparator \in Nat
    /\ Powers \in Nat /\ Buffer \in Nat /\ MaxSent \in Nat
    /\ MinLength <= MaxLength /\ MaxLength < Buffer
BY PartsAssumption DEF PartsAssumption, U!UserinfoConstants, U!F!LengthsConstants

\* A value of the right length is kept whole.
LEMMA KeptWhole ==
    ASSUME PowersTypeOK
    PROVE  /\ U!F!len \in MinLength..MaxLength <=> RightLength
           /\ RightLength => U!F!forcePowers = sent /\ U!F!len = Len(sent)
<1>1. PICK n \in Nat : n = Len(sent)
    BY DEF PowersTypeOK
<1>2. sent \in Seq(U!F!Classes)
    BY DEF PowersTypeOK
<1>3. CASE n <= Buffer
    <2>1. U!F!forcePowers = SubSeq(sent, 1, Len(sent))
        BY <1>1, <1>3, PowersLimits DEF U!F!forcePowers
    <2>2. SubSeq(sent, 1, Len(sent)) = sent
        BY <1>2, SubSeqFull
    <2> QED
        BY <2>1, <2>2 DEF U!F!len, RightLength
<1>4. CASE n > Buffer
    <2>1. U!F!forcePowers = SubSeq(sent, 1, Buffer)
        BY <1>1, <1>4, PowersLimits DEF U!F!forcePowers
    <2>2. \A j \in 1..Buffer : sent[j] \in U!F!Classes
        <3>1. \A j \in 1..Buffer : j \in 1..n
            BY <1>4, PowersLimits
        <3> QED
            BY <1>1, <1>2, <3>1
    <2>3. Len(SubSeq(sent, 1, Buffer)) = Buffer
        <3>1. Len(SubSeq(sent, 1, Buffer)) = IF 1 <= Buffer THEN Buffer - 1 + 1 ELSE 0
            BY <2>2, PowersLimits, SubSeqProperties
        <3> QED
            BY <3>1, PowersLimits
    <2>4. U!F!len = Buffer
        BY <2>1, <2>3 DEF U!F!len
    <2> QED
        BY <1>1, <1>4, <2>4, PowersLimits DEF RightLength
<1> QED
    BY <1>1, <1>3, <1>4, PowersLimits

\* A value that the game can read has two separators, and nothing else where they are not.
LEMMA ReadableHas ==
    ASSUME PowersTypeOK, U!F!Readable(sent)
    PROVE  \E a, b2 \in 1..Len(sent) :
              /\ Separators(a, b2)
              /\ \A j \in (b2 + 1)..Len(sent) : sent[j] = "low"
              /\ Len(sent) - b2 >= Powers
              /\ \A j \in 1..Len(sent) : /\ sent[j] = "-" <=> j = a \/ j = b2
                                         /\ sent[j] # "other"
                                         /\ sent[j] = "high" => j < b2
<1>1. PICK n \in Nat : n = Len(sent)
    BY DEF PowersTypeOK
<1>2. PICK a, b2 \in 1..n :
            /\ 1 < a /\ a + 1 < b2 /\ b2 <= LastSeparator + 1
            /\ sent[a] = "-" /\ sent[b2] = "-"
            /\ \A j \in (1..(b2 - 1)) \ {a} : sent[j] \in U!F!Digits
            /\ \A j \in (b2 + 1)..n : sent[j] = "low"
            /\ n - b2 >= Powers
    BY <1>1 DEF U!F!Readable
<1>3. ASSUME NEW j \in 1..n
      PROVE  (sent[j] = "-" <=> j = a \/ j = b2) /\ sent[j] # "other" /\ (sent[j] = "high" => j < b2)
    <2>1. j = a \/ j = b2 \/ j \in (1..(b2 - 1)) \ {a} \/ j \in (b2 + 1)..n
        OBVIOUS
    <2>2. CASE j = a
        BY <1>2, <2>2
    <2>3. CASE j = b2
        BY <1>2, <2>3
    <2>4. CASE j \in (1..(b2 - 1)) \ {a}
        <3>1. sent[j] \in {"low", "high"} /\ j # a /\ j < b2
            BY <1>2, <2>4 DEF U!F!Digits
        <3> QED
            BY <3>1
    <2>5. CASE j \in (b2 + 1)..n
        <3>1. sent[j] = "low" /\ j # b2 /\ j # a
            BY <1>2, <2>5
        <3> QED
            BY <3>1
    <2> QED
        BY <2>1, <2>2, <2>3, <2>4, <2>5
<1>4. Separators(a, b2)
    BY <1>2 DEF Separators
<1> QED
    BY <1>1, <1>2, <1>3, <1>4

LEMMA LengthKeeps == PowersInv /\ U!F!CheckLength => PowersInv'
<1> SUFFICES ASSUME PowersInv, U!F!CheckLength PROVE PowersInv'
    OBVIOUS
<1>1. /\ PowersTypeOK /\ ~badForce /\ i = 0 /\ seps = 0 /\ powersStart = 0 /\ checking = "length"
      /\ sent' = sent /\ i' = i /\ seps' = seps /\ powersStart' = powersStart
    BY DEF U!F!CheckLength, PowersInv
<1>2. PICK n \in Nat : n = Len(sent)
    BY <1>1 DEF PowersTypeOK
<1>3. RightLength' = RightLength
    BY <1>1 DEF RightLength
<1>4. CASE RightLength
    <2>1. checking' = "loop" /\ badForce' = badForce
        BY <1>1, <1>4, KeptWhole DEF U!F!CheckLength
    <2>2. NoneRead'
        BY <1>1 DEF NoneRead
    <2>3. PowersTypeOK'
        BY <1>1, <2>1 DEF PowersTypeOK
    <2> QED
        BY <1>1, <1>2, <1>3, <1>4, <2>1, <2>2, <2>3 DEF PowersInv
<1>5. CASE ~RightLength
    <2>1. checking' = "done" /\ badForce' = TRUE
        BY <1>1, <1>5, KeptWhole DEF U!F!CheckLength
    <2>2. PowersTypeOK'
        BY <1>1, <2>1 DEF PowersTypeOK
    <2> QED
        BY <1>1, <1>3, <1>5, <2>1, <2>2 DEF PowersInv
<1> QED
    BY <1>4, <1>5

\* The separators read, by their count.
LEMMA SeparatorsRead ==
    ASSUME PowersInv, checking = "loop", i < Len(sent)
    PROVE  /\ PowersTypeOK /\ RightLength /\ i \in 0..Len(sent) /\ seps \in Nat /\ ~badForce
           /\ U!F!len = Len(sent) /\ U!F!forcePowers = sent
           /\ U!F!At(i) = sent[i + 1] /\ U!F!At(i) \in U!F!Classes
           /\ i > 0 => U!F!At(i - 1) = sent[i]
           /\ seps = 0 => NoneRead
           /\ seps = 1 => OneRead
           /\ seps = 2 => TwoRead
           /\ seps > 2 => TooManyRead
<1>1. /\ PowersTypeOK /\ RightLength /\ i \in 0..Len(sent) /\ seps \in Nat /\ ~badForce
      /\ seps = 0 => NoneRead
      /\ seps = 1 => OneRead
      /\ seps = 2 => TwoRead
      /\ seps > 2 => TooManyRead
    BY DEF PowersInv
<1>2. U!F!len = Len(sent) /\ U!F!forcePowers = sent
    BY <1>1, KeptWhole
<1>3. PICK n \in Nat : n = Len(sent)
    BY <1>1 DEF PowersTypeOK
<1>4. U!F!At(i) = sent[i + 1] /\ U!F!At(i - 1) = sent[(i - 1) + 1]
    BY <1>2 DEF U!F!At
<1>5. sent[i + 1] \in U!F!Classes
    <2>1. i + 1 \in 1..n
        BY <1>1, <1>3
    <2> QED
        BY <1>1, <1>3, <2>1 DEF PowersTypeOK
<1>6. i > 0 => (i - 1) + 1 = i
    BY <1>1, <1>3
<1> QED
    BY <1>1, <1>2, <1>4, <1>5, <1>6

\* Two separators that were read are those of a value that the game can read.
LEMMA SameSeparators ==
    ASSUME PowersTypeOK, U!F!Readable(sent), i \in 0..Len(sent), TwoRead
    PROVE  /\ \A j \in 1..Len(sent) : sent[j] = "high" => j < powersStart
           /\ Len(sent) - powersStart >= Powers
<1>1. PICK n \in Nat : n = Len(sent)
    BY DEF PowersTypeOK
<1>2. PICK a, b2 \in 1..n :
        /\ a + 1 < b2 /\ n - b2 >= Powers
        /\ \A j \in 1..n : /\ sent[j] = "-" <=> j = a \/ j = b2
                           /\ sent[j] = "high" => j < b2
    BY <1>1, ReadableHas DEF Separators
<1>3. PICK x \in 1..i : Separators(x, powersStart)
    BY DEF TwoRead
<1>4. /\ x \in 1..n /\ powersStart \in 1..n /\ x < powersStart
      /\ sent[x] = "-" /\ sent[powersStart] = "-"
    <2>1. powersStart \in 1..i /\ x \in 1..i
        BY DEF TwoRead
    <2>2. x + 1 < powersStart /\ sent[x] = "-" /\ sent[powersStart] = "-"
        BY <1>3 DEF Separators
    <2> QED
        BY <1>1, <2>1, <2>2
<1>5. PICK p \in 1..n : p = powersStart
    BY <1>4
<1>6. p = b2
    <2>1. (x = a \/ x = b2) /\ (p = a \/ p = b2)
        BY <1>2, <1>4, <1>5
    <2>2. x \in 1..n /\ x < p
        BY <1>4, <1>5
    <2> QED
        BY <1>2, <2>1, <2>2
<1> QED
    BY <1>1, <1>2, <1>5, <1>6

LEMMA BreakKeeps == PowersInv /\ U!F!Break => PowersInv'
<1> SUFFICES ASSUME PowersInv, U!F!Break PROVE PowersInv'
    OBVIOUS
<1>1. /\ checking = "loop" /\ i < Len(sent) /\ ~U!F!Legal
      /\ badForce' = TRUE /\ checking' = "end"
      /\ sent' = sent /\ i' = i /\ seps' = seps /\ powersStart' = powersStart
    <2>1. checking = "loop" /\ i < U!F!len
        BY DEF U!F!Break
    <2>2. PowersTypeOK /\ RightLength
        BY <2>1 DEF PowersInv
    <2> QED
        BY <2>1, <2>2, KeptWhole DEF U!F!Break
<1>2. /\ PowersTypeOK /\ RightLength /\ i \in 0..Len(sent) /\ seps \in Nat
      /\ U!F!At(i) = sent[i + 1] /\ U!F!At(i) \in U!F!Classes
      /\ i > 0 => U!F!At(i - 1) = sent[i]
      /\ seps = 2 => TwoRead
    BY <1>1, SeparatorsRead
<1>3. ASSUME U!F!Readable(sent) PROVE FALSE
    <2>1. PICK n \in Nat : n = Len(sent)
        BY <1>2 DEF PowersTypeOK
    <2>2. PICK a, b2 \in 1..n :
            /\ 1 < a /\ a + 1 < b2 /\ b2 <= LastSeparator + 1
            /\ \A j \in 1..n : /\ sent[j] = "-" <=> j = a \/ j = b2
                               /\ sent[j] # "other"
        BY <1>2, <1>3, <2>1, ReadableHas DEF Separators
    <2>3. PICK next \in 1..n : next = i + 1
        BY <1>1, <1>2, <2>1
    <2>4. sent[next] # "other"
        BY <2>2
    <2>5. CASE sent[next] = "-" /\ ~U!F!SeparatorFits
        <3>1. next = a \/ next = b2
            BY <2>2, <2>5
        <3>2. i \in 1..LastSeparator
            BY <1>2, <2>2, <2>3, <3>1, PowersLimits
        <3>3. sent[i] = "-" /\ i \in 1..n
            BY <1>2, <2>1, <2>5, <3>2 DEF U!F!SeparatorFits
        <3>4. i = a \/ i = b2
            BY <2>2, <3>3
        <3> QED
            BY <2>2, <2>3, <3>1, <3>4
    <2>6. CASE sent[next] = "high" /\ seps = 2
        <3>1. next < powersStart /\ powersStart \in 1..i
            BY <1>2, <1>3, <2>1, <2>6, SameSeparators DEF TwoRead
        <3> QED
            BY <1>2, <2>3, <3>1
    <2> QED
        BY <1>1, <1>2, <2>3, <2>4, <2>5, <2>6 DEF U!F!Legal
<1>4. PowersTypeOK' /\ RightLength'
    BY <1>1, <1>2 DEF PowersTypeOK, RightLength
<1>5. ~U!F!Readable(sent')
    BY <1>1, <1>3
<1> QED
    BY <1>1, <1>2, <1>4, <1>5 DEF PowersInv

LEMMA CharacterKeeps == PowersInv /\ U!F!Read => PowersInv'
<1> SUFFICES ASSUME PowersInv, U!F!Read PROVE PowersInv'
    OBVIOUS
<1>1. /\ checking = "loop" /\ i < Len(sent) /\ U!F!Legal
      /\ badForce' = badForce /\ checking' = checking /\ sent' = sent /\ i' = i + 1
    <2>1. checking = "loop" /\ i < U!F!len
        BY DEF U!F!Read
    <2>2. PowersTypeOK /\ RightLength
        BY <2>1 DEF PowersInv
    <2> QED
        BY <2>1, <2>2, KeptWhole DEF U!F!Read
<1>2. /\ PowersTypeOK /\ RightLength /\ i \in 0..Len(sent) /\ seps \in Nat /\ ~badForce
      /\ U!F!At(i) = sent[i + 1] /\ U!F!At(i) \in U!F!Classes
      /\ i > 0 => U!F!At(i - 1) = sent[i]
      /\ seps = 0 => NoneRead
      /\ seps = 1 => OneRead
      /\ seps = 2 => TwoRead
      /\ seps > 2 => TooManyRead
    BY <1>1, SeparatorsRead
<1>3. PICK n \in Nat : n = Len(sent)
    BY <1>2 DEF PowersTypeOK
<1>4. PICK next \in 1..n : next = i + 1
    BY <1>1, <1>2, <1>3
<1>5. \A j \in 1..next : j = next \/ j \in 1..i
    BY <1>2, <1>3, <1>4
<1>6. PowersTypeOK' /\ RightLength' /\ i' \in 0..Len(sent')
    BY <1>1, <1>2, <1>3, <1>4 DEF PowersTypeOK, RightLength
<1>7. i' = next /\ i \in Nat /\ 1..i \subseteq 1..next /\ i < next
    BY <1>1, <1>2, <1>3, <1>4
<1>8. TooManyRead => TooManyRead'
    BY <1>1, <1>7 DEF TooManyRead
<1>9. CASE sent[next] = "-"
    <2>1. seps' = seps + 1 /\ powersStart' = next
        BY <1>2, <1>4, <1>9 DEF U!F!Read
    <2>2. i \in 1..LastSeparator /\ sent[i] # "-"
        BY <1>1, <1>2, <1>4, <1>7, <1>9 DEF U!F!Legal, U!F!SeparatorFits
    <2>3. CASE seps = 0
        <3>1. \A j \in (1..next) \ {next} : sent[j] \in U!F!Digits
            BY <1>2, <1>5, <2>3 DEF NoneRead
        <3>2. next \in 2..next /\ next <= LastSeparator + 1
            BY <1>4, <2>2, PowersLimits
        <3>3. OneRead'
            BY <1>1, <1>7, <1>9, <2>1, <3>1, <3>2 DEF OneRead
        <3>4. seps' = 1
            BY <2>1, <2>3
        <3> QED
            BY <1>1, <1>2, <1>6, <3>3, <3>4 DEF PowersInv
    <2>4. CASE seps = 1
        <3>1. PICK a \in 2..i : a = powersStart
            BY <1>2, <2>4 DEF OneRead
        <3>2. sent[a] = "-" /\ \A j \in (1..i) \ {a} : sent[j] \in U!F!Digits
            BY <1>2, <2>4, <3>1 DEF OneRead
        <3>3. a # i /\ next - 1 = i /\ a \in 1..next
            BY <1>4, <1>7, <2>2, <3>2
        <3>4. 1 < a /\ a + 1 < next /\ next <= LastSeparator + 1
            BY <1>4, <1>7, <2>2, <3>3, PowersLimits
        <3>5. \A j \in (1..(next - 1)) \ {a} : sent[j] \in U!F!Digits
            BY <3>2, <3>3
        <3>6. Separators(a, next)'
            BY <1>1, <1>9, <3>2, <3>4, <3>5 DEF Separators
        <3>7. /\ \A j : ~(j \in (next + 1)..next)
              /\ next \in 1..next
            BY <1>4
        <3>8. TwoRead'
            <4>1. \E x \in 1..next : Separators(x, next)'
                BY <3>3, <3>6
            <4> QED
                BY <1>7, <2>1, <3>7, <4>1 DEF TwoRead
        <3>9. seps' = 2
            BY <2>1, <2>4
        <3> QED
            BY <1>1, <1>2, <1>6, <3>8, <3>9 DEF PowersInv
    <2>5. CASE seps = 2
        <3>1. PICK x \in 1..i : Separators(x, powersStart)
            BY <1>2, <2>5 DEF TwoRead
        <3>2. PICK b2 \in 1..i : b2 = powersStart
            BY <1>2, <2>5 DEF TwoRead
        <3>3. x < b2 /\ sent[x] = "-" /\ sent[b2] = "-"
            <4>1. x + 1 < b2 /\ sent[x] = "-" /\ sent[b2] = "-"
                BY <3>1, <3>2 DEF Separators
            <4> QED
                BY <4>1
        <3>4. TooManyRead'
            BY <1>1, <1>7, <1>9, <3>3 DEF TooManyRead
        <3>5. seps' = 3
            BY <2>1, <2>5
        <3> QED
            BY <1>1, <1>2, <1>6, <3>4, <3>5 DEF PowersInv
    <2>6. CASE seps > 2
        <3>1. seps' > 2 /\ seps' \in Nat
            BY <1>2, <2>1, <2>6
        <3> QED
            BY <1>1, <1>2, <1>6, <1>8, <2>6, <3>1 DEF PowersInv
    <2> QED
        BY <1>2, <2>3, <2>4, <2>5, <2>6
<1>10. CASE sent[next] # "-"
    <2>1. seps' = seps /\ powersStart' = powersStart
        BY <1>2, <1>4, <1>10 DEF U!F!Read
    <2>2. sent[next] \in U!F!Digits /\ (seps = 2 => sent[next] = "low")
        BY <1>1, <1>2, <1>4, <1>10 DEF U!F!Legal, U!F!Classes, U!F!Digits
    <2>3. seps = 0 => NoneRead'
        BY <1>1, <1>2, <1>5, <1>7, <2>1, <2>2 DEF NoneRead
    <2>4. seps = 1 => OneRead'
        <3>1. ASSUME OneRead PROVE OneRead'
            <4>1. powersStart \in 2..next
                BY <1>7, <3>1 DEF OneRead
            <4>2. \A j \in (1..next) \ {powersStart} : sent[j] \in U!F!Digits
                BY <1>5, <2>2, <3>1 DEF OneRead
            <4> QED
                BY <1>1, <1>7, <2>1, <3>1, <4>1, <4>2 DEF OneRead
        <3> QED
            BY <1>2, <3>1
    <2>5. seps = 2 => TwoRead'
        <3>1. ASSUME TwoRead, sent[next] = "low" PROVE TwoRead'
            <4>1. PICK a \in 1..i : Separators(a, powersStart)
                BY <3>1 DEF TwoRead
            <4>2. PICK b2 \in 1..i : b2 = powersStart
                BY <3>1 DEF TwoRead
            <4>3. Separators(a, b2)'
                BY <1>1, <4>1, <4>2 DEF Separators
            <4>4. \A j \in (b2 + 1)..next : sent[j] = "low"
                <5>1. \A j \in (b2 + 1)..next : j = next \/ j \in (b2 + 1)..i
                    BY <1>4, <1>7
                <5> QED
                    BY <3>1, <4>2, <5>1 DEF TwoRead
            <4>5. a \in 1..next /\ b2 \in 1..next
                BY <1>7
            <4>6. powersStart' = b2
                BY <2>1, <4>2
            <4>7. \E x \in 1..next : Separators(x, b2)'
                BY <4>3, <4>5
            <4> QED
                BY <1>1, <1>7, <4>4, <4>5, <4>6, <4>7 DEF TwoRead
        <3> QED
            BY <1>2, <2>2, <3>1
    <2> QED
        BY <1>1, <1>2, <1>6, <1>8, <2>1, <2>3, <2>4, <2>5 DEF PowersInv
<1> QED
    BY <1>9, <1>10

LEMMA EndLoopKeeps == PowersInv /\ U!F!EndLoop => PowersInv'
<1> SUFFICES ASSUME PowersInv, U!F!EndLoop PROVE PowersInv'
    OBVIOUS
<1>1. /\ checking = "loop" /\ PowersTypeOK /\ RightLength
    BY DEF U!F!EndLoop, PowersInv
<1>2. /\ i = Len(sent) /\ checking' = "end"
      /\ badForce' = badForce /\ sent' = sent /\ i' = i /\ seps' = seps
      /\ powersStart' = powersStart
    BY <1>1, KeptWhole DEF U!F!EndLoop
<1>3. PowersTypeOK' /\ RightLength'
    BY <1>1, <1>2 DEF PowersTypeOK, RightLength
<1>4. (NoneRead <=> NoneRead') /\ (OneRead <=> OneRead') /\ (TooManyRead <=> TooManyRead')
    BY <1>2 DEF NoneRead, OneRead, TooManyRead
<1>5. TwoRead <=> TwoRead'
    BY <1>2 DEF TwoRead, Separators
<1> QED
    BY <1>1, <1>2, <1>3, <1>4, <1>5 DEF PowersInv

LEMMA PowersChecked == PowersInv /\ U!F!CheckPowers => PowersInv'
<1> SUFFICES ASSUME PowersInv, U!F!CheckPowers PROVE PowersInv'
    OBVIOUS
<1>1. /\ checking = "end" /\ PowersTypeOK /\ RightLength /\ seps \in Nat /\ badForce \in BOOLEAN
    BY DEF U!F!CheckPowers, PowersInv, PowersTypeOK
<1>2. /\ badForce' = (badForce \/ seps # 2 \/ Len(sent) - powersStart < Powers)
      /\ checking' = "done" /\ sent' = sent
    BY <1>1, KeptWhole DEF U!F!CheckPowers
<1>3. PowersTypeOK' /\ RightLength'
    BY <1>1, <1>2 DEF PowersTypeOK, RightLength
<1>4. PICK n \in Nat : n = Len(sent)
    BY <1>1 DEF PowersTypeOK
<1>5. badForce' <=> ~U!F!Readable(sent)
    <2>1. CASE badForce /\ ~U!F!Readable(sent)
        BY <1>2, <2>1
    <2>2. CASE /\ ~badForce /\ i = n
               /\ seps = 0 => NoneRead
               /\ seps = 1 => OneRead
               /\ seps = 2 => TwoRead
               /\ seps > 2 => TooManyRead
        <3>1. CASE seps = 2
            <4>1. U!F!Readable(sent) => n - powersStart >= Powers
                BY <1>1, <1>4, <2>2, <3>1, SameSeparators
            <4>2. ASSUME ~(n - powersStart < Powers) PROVE U!F!Readable(sent)
                <5>1. PICK a \in 1..n : Separators(a, powersStart)
                    BY <2>2, <3>1 DEF TwoRead
                <5>2. PICK b2 \in 1..n : b2 = powersStart
                    BY <2>2, <3>1 DEF TwoRead
                <5>3. \A j \in (b2 + 1)..n : sent[j] = "low"
                    BY <2>2, <3>1, <5>2 DEF TwoRead
                <5>4. n - b2 >= Powers
                    BY <4>2, <5>2, PowersLimits
                <5>5. /\ 1 < a /\ a + 1 < b2 /\ b2 <= LastSeparator + 1
                      /\ sent[a] = "-" /\ sent[b2] = "-"
                      /\ \A j \in (1..(b2 - 1)) \ {a} : sent[j] \in U!F!Digits
                    BY <5>1, <5>2 DEF Separators
                <5>6. /\ a \in 1..Len(sent) /\ b2 \in 1..Len(sent) /\ Len(sent) - b2 >= Powers
                      /\ \A j \in (b2 + 1)..Len(sent) : sent[j] = "low"
                    BY <1>4, <5>3, <5>4
                <5> QED
                    BY <5>5, <5>6, Zenon DEF U!F!Readable
            <4>3. powersStart \in 1..n
                BY <2>2, <3>1 DEF TwoRead
            <4>4. n - powersStart >= Powers => ~(n - powersStart < Powers)
                BY <4>3, PowersLimits
            <4> QED
                BY <1>2, <1>4, <2>2, <3>1, <4>1, <4>2, <4>4, Zenon
        <3>2. CASE seps # 2
            <4>1. ASSUME U!F!Readable(sent) PROVE FALSE
                <5>1. PICK a, b2 \in 1..n :
                        /\ a + 1 < b2
                        /\ \A j \in 1..n : sent[j] = "-" <=> j = a \/ j = b2
                    BY <1>1, <1>4, <4>1, ReadableHas DEF Separators
                <5>2. sent[a] = "-" /\ sent[b2] = "-" /\ a # b2
                    BY <5>1
                <5>3. CASE seps = 0
                    BY <2>2, <5>2, <5>3 DEF NoneRead, U!F!Digits
                <5>4. CASE seps = 1
                    BY <2>2, <5>2, <5>4 DEF OneRead, U!F!Digits
                <5>5. CASE seps > 2
                    <6>1. PICK x, y, z \in 1..n : x < y /\ y < z /\ sent[x] = "-" /\ sent[y] = "-"
                                                  /\ sent[z] = "-"
                        BY <2>2, <5>5 DEF TooManyRead
                    <6>2. (x = a \/ x = b2) /\ (y = a \/ y = b2) /\ (z = a \/ z = b2)
                        BY <5>1, <6>1
                    <6> QED
                        BY <6>1, <6>2
                <5> QED
                    BY <1>1, <3>2, <5>3, <5>4, <5>5
            <4> QED
                BY <1>2, <3>2, <4>1
        <3> QED
            BY <3>1, <3>2
    <2> QED
        BY <1>1, <1>4, <2>1, <2>2 DEF PowersInv
<1>6. U!F!Readable(sent') = U!F!Readable(sent)
    BY <1>2
<1> QED
    BY <1>1, <1>2, <1>3, <1>5, <1>6 DEF PowersInv

LEMMA PowersNext == PowersInv /\ U!F!Next => PowersInv'
BY LengthKeeps, BreakKeeps, CharacterKeeps, EndLoopKeeps, PowersChecked DEF U!F!Next

LEMMA PowersThen == PowersInv => KeptExactlyReadable
BY DEF PowersInv, KeptExactlyReadable, U!KeptExactlyReadable, U!F!KeptExactlyReadable, RightLength

-----------------------------------------------------------------------------
(* Changes of the userinfo *)

\* The place of the change that opened the window of each change accepted.
Openings == [1..Len(accepted) -> 1..Len(accepted)]

\* A window takes MaxCount changes, and one opens no sooner than Interval after the
\* last.
Windows(open) ==
    /\ \A j \in 1..Len(accepted) :
          /\ open[j] <= j /\ j < open[j] + MaxCount
          /\ open[open[j]] = open[j]
    /\ \A j \in 2..Len(accepted) :
          \/ open[j] = open[j - 1]
          \/ open[j] = j /\ accepted[j] >= accepted[open[j - 1]] + Interval

\* The window in use is that of the last change, and counts the changes after the one
\* that opened it, or is full.
InUseWindow(open) ==
    IF accepted = <<>> THEN lastUserInfoChange = 0
    ELSE LET first == open[Len(accepted)]
         IN  /\ lastUserInfoChange = accepted[first] + Interval
             /\ \/ lastUserInfoCount = Len(accepted) - first
                \/ Len(accepted) - first = MaxCount - 1 /\ lastUserInfoCount >= MaxCount - 1

FloodInv ==
    /\ time \in Nat /\ lastUserInfoCount \in Nat /\ accepted \in Seq(Nat)
    /\ \A j \in 1..Len(accepted) : accepted[j] <= time
    /\ \A j, k \in 1..Len(accepted) : j <= k => accepted[j] <= accepted[k]
    /\ \E open \in Openings : Windows(open) /\ InUseWindow(open)

\* The constants of the limit.
LEMMA FloodLimits == Interval \in Nat \ {0} /\ MaxCount \in Nat \ {0} /\ MaxTime \in Nat
BY PartsAssumption DEF PartsAssumption, U!UserinfoConstants, U!L!FloodConstants

LEMMA FloodInit == U!L!Init => FloodInv
<1> SUFFICES ASSUME U!L!Init PROVE FloodInv
    OBVIOUS
<1>1. time = 0 /\ lastUserInfoChange = 0 /\ lastUserInfoCount = 0 /\ accepted = <<>>
    BY DEF U!L!Init
<1>2. Len(accepted) = 0
    BY <1>1
<1>3. PICK open : open = [j \in 1..0 |-> j]
    OBVIOUS
<1>4. open \in Openings
    BY <1>2, <1>3 DEF Openings
<1> QED
    BY <1>1, <1>2, <1>4 DEF FloodInv, Windows, InUseWindow

\* A change accepted at this time follows the others.
LEMMA AcceptKeeps ==
    ASSUME FloodInv, accepted' = Append(accepted, time), time' = time,
           lastUserInfoCount' \in Nat,
           NEW open \in Openings, Windows(open), InUseWindow(open),
           NEW first \in 1..(Len(accepted) + 1),
           \/ first = Len(accepted) + 1
              /\ (accepted # <<>> => time >= accepted[open[Len(accepted)]] + Interval)
           \/ /\ accepted # <<>> /\ first = open[Len(accepted)]
              /\ Len(accepted) + 1 < first + MaxCount,
           lastUserInfoChange' = accepted'[first] + Interval,
           lastUserInfoCount' = Len(accepted') - first
    PROVE  FloodInv'
<1>1. /\ time \in Nat /\ accepted \in Seq(Nat)
      /\ \A j \in 1..Len(accepted) : accepted[j] <= time
      /\ \A j, k \in 1..Len(accepted) : j <= k => accepted[j] <= accepted[k]
    BY DEF FloodInv
<1>2. PICK n \in Nat : n = Len(accepted)
    BY <1>1
<1>3. /\ accepted' \in Seq(Nat) /\ Len(accepted') = n + 1 /\ accepted'[n + 1] = time
      /\ \A j \in 1..n : accepted'[j] = accepted[j] /\ accepted[j] \in Nat
      /\ (accepted # <<>> <=> n # 0)
    BY <1>1, <1>2
<1>4. \A j \in 1..(n + 1) : j = n + 1 \/ j \in 1..n
    OBVIOUS
<1>5. \A j \in 1..(n + 1) : accepted'[j] <= time
    BY <1>1, <1>2, <1>3, <1>4
<1>6. \A j, k \in 1..(n + 1) : j <= k => accepted'[j] <= accepted'[k]
    <2> TAKE j, k \in 1..(n + 1)
    <2>1. CASE k = n + 1
        BY <1>3, <1>5, <2>1
    <2>2. CASE k \in 1..n
        <3>1. j <= k => j \in 1..n
            BY <2>2
        <3> QED
            BY <1>1, <1>2, <1>3, <2>2, <3>1
    <2> QED
        BY <1>4, <2>1, <2>2
<1>7. PICK new : new = [j \in 1..(n + 1) |-> IF j = n + 1 THEN first ELSE open[j]]
    OBVIOUS
<1>8. /\ open \in [1..n -> 1..n]
      /\ \A j \in 1..n : /\ open[j] \in 1..n /\ open[j] <= j /\ j < open[j] + MaxCount
                         /\ open[open[j]] = open[j]
      /\ \A j \in 2..n : \/ open[j] = open[j - 1]
                         \/ open[j] = j /\ accepted[j] >= accepted[open[j - 1]] + Interval
    BY <1>2 DEF Openings, Windows
<1>9. /\ new[n + 1] = first /\ \A j \in 1..n : new[j] = open[j] /\ new[j] \in 1..n
    <2>1. n + 1 \in 1..(n + 1) /\ \A j \in 1..n : j \in 1..(n + 1) /\ j # n + 1
        OBVIOUS
    <2> QED
        BY <1>7, <1>8, <2>1
<1>10. new \in Openings'
    <2>1. first \in 1..(n + 1) /\ \A j \in 1..n : open[j] \in 1..(n + 1)
        BY <1>2, <1>8
    <2>2. new \in [1..(n + 1) -> 1..(n + 1)]
        BY <1>4, <1>7, <2>1
    <2> QED
        BY <1>3, <2>2 DEF Openings
<1>11. new[first] = first /\ first <= n + 1 /\ n + 1 < first + MaxCount
    <2>1. CASE first = n + 1
        BY <1>9, <2>1, FloodLimits
    <2>2. CASE n # 0 /\ first = open[n] /\ n + 1 < first + MaxCount
        <3>1. n \in 1..n
            BY <2>2
        <3> QED
            BY <1>8, <1>9, <2>2, <3>1
    <2> QED
        BY <1>2, <1>3, <2>1, <2>2
<1>12. Windows(new)'
    <2>1. ASSUME NEW j \in 1..(n + 1)
          PROVE  new[j] <= j /\ j < new[j] + MaxCount /\ new[new[j]] = new[j]
        <3>1. CASE j = n + 1
            BY <1>9, <1>11, <3>1
        <3>2. CASE j \in 1..n
            BY <1>8, <1>9, <3>2
        <3> QED
            BY <1>4, <3>1, <3>2
    <2>2. ASSUME NEW j \in 2..(n + 1)
          PROVE  \/ new[j] = new[j - 1]
                 \/ new[j] = j /\ accepted'[j] >= accepted'[new[j - 1]] + Interval
        <3>1. CASE j = n + 1
            <4>1. n # 0 /\ n \in 1..n /\ j - 1 = n
                BY <3>1
            <4>2. new[j] = first /\ new[j - 1] = open[n] /\ open[n] \in 1..n
                BY <1>9, <3>1, <4>1
            <4>3. accepted'[open[n]] = accepted[open[n]]
                BY <1>3, <4>2
            <4> QED
                BY <1>2, <1>3, <3>1, <4>1, <4>2, <4>3
        <3>2. CASE j \in 2..n
            <4>1. j \in 1..n /\ j - 1 \in 1..n
                BY <3>2
            <4>2. /\ new[j] = open[j] /\ new[j - 1] = open[j - 1] /\ open[j - 1] \in 1..n
                BY <1>9, <4>1
            <4>3. /\ accepted'[j] = accepted[j]
                  /\ accepted'[new[j - 1]] = accepted[open[j - 1]]
                BY <1>3, <4>1, <4>2
            <4>4. \/ open[j] = open[j - 1]
                  \/ open[j] = j /\ accepted[j] >= accepted[open[j - 1]] + Interval
                BY <1>8, <3>2
            <4> QED
                BY <4>2, <4>3, <4>4
        <3>3. j = n + 1 \/ j \in 2..n
            OBVIOUS
        <3> QED
            BY <3>1, <3>2, <3>3
    <2> QED
        BY <1>3, <2>1, <2>2 DEF Windows
<1>13. InUseWindow(new)'
    <2>1. accepted' # <<>> /\ Len(accepted') \in 1..(n + 1)
        BY <1>3
    <2>2. new[Len(accepted')] = first
        BY <1>3, <1>9
    <2> QED
        BY <2>1, <2>2 DEF InUseWindow
<1> QED
    BY <1>1, <1>3, <1>5, <1>6, <1>10, <1>12, <1>13 DEF FloodInv

LEMMA FloodNext ==
    ASSUME FloodInv, U!L!Next
    PROVE  FloodInv' /\ (U!L!Refuse => U!L!AtItsRate)
<1>1. /\ time \in Nat /\ lastUserInfoCount \in Nat /\ accepted \in Seq(Nat)
      /\ \A j \in 1..Len(accepted) : accepted[j] <= time
      /\ \A j, k \in 1..Len(accepted) : j <= k => accepted[j] <= accepted[k]
    BY DEF FloodInv
<1>2. PICK open \in Openings : Windows(open) /\ InUseWindow(open)
    BY DEF FloodInv
<1>3. PICK n \in Nat : n = Len(accepted) /\ (accepted # <<>> <=> n # 0)
    BY <1>1
<1>4. /\ open \in [1..n -> 1..n]
      /\ \A j \in 1..n : /\ open[j] \in 1..n /\ open[j] <= j /\ j < open[j] + MaxCount
                         /\ accepted[j] \in Nat
    <2>1. open \in [1..n -> 1..n]
        BY <1>2, <1>3 DEF Openings
    <2>2. \A j \in 1..n : open[j] <= j /\ j < open[j] + MaxCount
        BY <1>2, <1>3 DEF Windows
    <2>3. \A j \in 1..n : accepted[j] \in Nat
        BY <1>1, <1>3
    <2> QED
        BY <2>1, <2>2, <2>3
<1>5. n # 0 => /\ n \in 1..n /\ open[n] \in 1..n /\ accepted[open[n]] \in Nat
               /\ lastUserInfoChange = accepted[open[n]] + Interval
               /\ \/ lastUserInfoCount = n - open[n]
                  \/ n - open[n] = MaxCount - 1 /\ lastUserInfoCount >= MaxCount - 1
    BY <1>2, <1>3, <1>4 DEF InUseWindow
<1>6. n = 0 => lastUserInfoChange = 0
    BY <1>2, <1>3 DEF InUseWindow
<1>7. PICK longer \in Seq(Nat) : /\ longer = Append(accepted, time) /\ Len(longer) = n + 1
                                 /\ longer[n + 1] = time
                                 /\ \A j \in 1..n : longer[j] = accepted[j]
    <2>1. Append(accepted, time) \in Seq(Nat)
        BY <1>1
    <2>2. PICK longer \in Seq(Nat) : longer = Append(accepted, time)
        BY <2>1
    <2>3. Len(longer) = n + 1 /\ longer[n + 1] = time /\ \A j \in 1..n : longer[j] = accepted[j]
        BY <1>1, <1>3, <2>2
    <2> QED
        BY <2>2, <2>3
<1>8. CASE U!L!OpenWindow
    <2>1. n # 0 => time >= accepted[open[n]] + Interval
        BY <1>1, <1>5, <1>8, FloodLimits DEF U!L!OpenWindow, U!L!InWindow
    <2>2. /\ accepted' = longer /\ time' = time /\ lastUserInfoCount' = 0
          /\ lastUserInfoChange' = longer[n + 1] + Interval
          /\ lastUserInfoCount' = Len(longer) - (n + 1)
        BY <1>7, <1>8 DEF U!L!OpenWindow, U!L!Accept
    <2>3. FloodInv'
        BY <1>2, <1>3, <1>7, <2>1, <2>2, AcceptKeeps
    <2>4. ~U!L!Refuse
        BY <1>8 DEF U!L!OpenWindow, U!L!Refuse
    <2> QED
        BY <2>3, <2>4
<1>9. CASE U!L!Change
    <2>1. lastUserInfoChange > time /\ lastUserInfoCount + 1 < MaxCount
        BY <1>1, <1>9, FloodLimits DEF U!L!Change, U!L!InWindow, U!L!TooMany
    <2>2. n # 0
        BY <1>1, <1>6, <2>1
    <2>3. lastUserInfoCount = n - open[n] /\ n + 1 < open[n] + MaxCount
        BY <1>1, <1>3, <1>5, <2>1, <2>2, FloodLimits
    <2>4. /\ accepted' = longer /\ time' = time /\ lastUserInfoCount' = lastUserInfoCount + 1
          /\ lastUserInfoChange' = lastUserInfoChange
        BY <1>7, <1>9 DEF U!L!Change, U!L!Accept
    <2>5. PICK first \in 1..n : first = open[n]
        BY <1>5, <2>2
    <2>6. /\ first \in 1..(n + 1) /\ longer[first] = accepted[first]
          /\ lastUserInfoCount' = (n + 1) - first
        BY SMTT(40), <1>3, <1>7, <2>3, <2>4, <2>5
    <2>7. FloodInv'
        <3>1. /\ first \in 1..(Len(accepted) + 1) /\ accepted # <<>>
              /\ first = open[Len(accepted)] /\ Len(accepted) + 1 < first + MaxCount
            BY <1>3, <2>2, <2>3, <2>5, <2>6
        <3>2. /\ accepted' = Append(accepted, time) /\ time' = time
              /\ lastUserInfoChange' = accepted'[first] + Interval
              /\ lastUserInfoCount' = Len(accepted') - first /\ lastUserInfoCount' \in Nat
            BY <1>1, <1>5, <1>7, <2>2, <2>4, <2>5, <2>6
        <3> QED
            BY <1>2, <3>1, <3>2, AcceptKeeps
    <2>8. ~U!L!Refuse
        BY <1>9 DEF U!L!Change, U!L!Refuse
    <2> QED
        BY <2>7, <2>8
<1>10. CASE U!L!Refuse
    <2>1. /\ lastUserInfoChange > time /\ lastUserInfoCount >= MaxCount - 1
          /\ lastUserInfoCount' = lastUserInfoCount + 1
          /\ time' = time /\ lastUserInfoChange' = lastUserInfoChange /\ accepted' = accepted
        BY <1>1, <1>10, FloodLimits DEF U!L!Refuse, U!L!InWindow, U!L!TooMany
    <2>2. n # 0
        BY <1>1, <1>6, <2>1
    <2>3. n - open[n] = MaxCount - 1
        <3>1. n \in 1..n /\ n < open[n] + MaxCount
            BY <1>4, <2>2
        <3> QED
            BY <1>3, <1>5, <2>1, <2>2, <3>1, FloodLimits
    <2>4. U!L!AtItsRate
        <3>1. n >= MaxCount /\ n - MaxCount + 1 = open[n]
            BY <1>5, <2>2, <2>3, FloodLimits
        <3>2. accepted[open[n]] > time - Interval
            BY <1>1, <1>5, <2>1, <2>2, FloodLimits
        <3> QED
            BY <1>3, <3>1, <3>2 DEF U!L!AtItsRate
    <2>5. InUseWindow(open)'
        <3>1. accepted # <<>> /\ lastUserInfoCount + 1 >= MaxCount - 1
            BY <1>1, <1>3, <2>1, <2>2, FloodLimits
        <3> QED
            BY <1>3, <1>5, <2>1, <2>2, <2>3, <3>1 DEF InUseWindow
    <2>6. open \in Openings' /\ Windows(open)'
        BY <1>2, <2>1 DEF Openings, Windows
    <2> QED
        BY <1>1, <2>1, <2>4, <2>5, <2>6 DEF FloodInv
<1>11. CASE U!L!Tick
    <2>1. /\ time' = time + 1 /\ accepted' = accepted
          /\ lastUserInfoChange' = lastUserInfoChange /\ lastUserInfoCount' = lastUserInfoCount
        BY <1>11 DEF U!L!Tick
    <2>2. open \in Openings' /\ Windows(open)' /\ InUseWindow(open)'
        BY <1>2, <2>1 DEF Openings, Windows, InUseWindow
    <2>3. \A j \in 1..Len(accepted) : accepted[j] <= time + 1
        BY <1>1, <1>3, <1>4
    <2>4. ~U!L!Refuse
        BY <1>1, <2>1 DEF U!L!Refuse
    <2> QED
        BY <1>1, <2>1, <2>2, <2>3, <2>4 DEF FloodInv
<1>12. CASE U!L!Connect
    <2>1. /\ lastUserInfoChange' = 0 /\ lastUserInfoCount' = 0 /\ accepted' = <<>>
          /\ time' = time
        BY <1>12 DEF U!L!Connect
    <2>2. Len(accepted') = 0
        BY <2>1
    <2>3. PICK none : none = [j \in 1..0 |-> j]
        OBVIOUS
    <2>4. none \in Openings'
        BY <2>2, <2>3 DEF Openings
    <2>5. ~U!L!Refuse
        BY <1>1, <2>1 DEF U!L!Refuse
    <2> QED
        BY <1>1, <2>1, <2>2, <2>4, <2>5 DEF FloodInv, Windows, InUseWindow
<1> QED
    BY <1>8, <1>9, <1>10, <1>11, <1>12 DEF U!L!Next

\* Two windows at most begin within an Interval of a change: the one of a change
\* 2 * MaxCount - 1 later began after the window of the first one was over.
LEMMA FloodBounded == FloodInv => U!L!Bounded
<1> SUFFICES ASSUME FloodInv, NEW j \in 1..Len(accepted), j + 2 * MaxCount - 1 <= Len(accepted)
             PROVE  accepted[j + 2 * MaxCount - 1] - accepted[j] >= Interval
    BY DEF U!L!Bounded
<1>1. PICK n \in Nat : n = Len(accepted)
    BY DEF FloodInv
<1>2. /\ accepted \in Seq(Nat) /\ \A k \in 1..n : accepted[k] \in Nat
      /\ \A k, l \in 1..n : k <= l => accepted[k] <= accepted[l]
    BY <1>1 DEF FloodInv
<1>3. PICK open \in [1..n -> 1..n] :
          /\ \A k \in 1..n : /\ open[k] <= k /\ k < open[k] + MaxCount
                             /\ open[open[k]] = open[k]
          /\ \A k \in 2..n : \/ open[k] = open[k - 1]
                             \/ open[k] = k /\ accepted[k] >= accepted[open[k - 1]] + Interval
    BY <1>1 DEF FloodInv, Windows, Openings
<1>4. PICK last \in 1..n : last = j + 2 * MaxCount - 1
    BY <1>1, FloodLimits
<1>5. PICK o \in 1..n : o = open[last]
    OBVIOUS
<1>6. o <= last /\ last < o + MaxCount /\ open[o] = o
    BY <1>3, <1>5
<1>7. o >= j + MaxCount /\ o \in 2..n /\ o - 1 \in 1..n
    BY <1>1, <1>4, <1>6, FloodLimits
<1>8. PICK p \in 1..n : p = open[o - 1]
    BY <1>7
<1>9. p <= o - 1 /\ o - 1 < p + MaxCount
    BY <1>3, <1>7, <1>8
<1>10. p # o /\ p >= j
    BY <1>1, <1>7, <1>9, FloodLimits
<1>11. accepted[o] >= accepted[p] + Interval
    BY <1>3, <1>6, <1>7, <1>8, <1>10
<1>12. accepted[last] >= accepted[o] /\ accepted[p] >= accepted[j]
    BY <1>1, <1>2, <1>6, <1>10
<1> QED
    BY SMTT(40), <1>1, <1>2, <1>4, <1>11, <1>12, FloodLimits

-----------------------------------------------------------------------------
(* The stages of a userinfo *)

\* The forcepowers are read from their start, when their stage comes.
NothingRead == i = 0 /\ seps = 0 /\ powersStart = 0 /\ badForce = FALSE /\ checking = "length"

UserinfoInv ==
    /\ CleanInv /\ PowersInv /\ FloodInv
    /\ stage \in {"name", "model", "forcepowers", "connected"}
    /\ stage # "forcepowers" => NothingRead

\* What is not read stays as it was.
LEMMA CleanKept == CleanInv /\ UNCHANGED U!nameVars => CleanInv'
BY DEF CleanInv, U!nameVars, SomethingToShow, U!SomethingToShow, U!N!SomethingToShow,
       U!N!Colorless, U!N!IsColor

LEMMA PowersKept == PowersInv /\ UNCHANGED U!powerVars => PowersInv'
BY DEF PowersInv, PowersTypeOK, U!powerVars, NoneRead, OneRead, TwoRead, TooManyRead, Separators,
       RightLength, U!F!Readable

LEMMA FloodKept == FloodInv /\ UNCHANGED U!floodVars => FloodInv'
BY DEF FloodInv, U!floodVars, Openings, Windows, InUseWindow

\* A value of the forcepowers that is not read yet.
LEMMA PowersInit ==
    ASSUME sent \in Seq(U!F!Classes), i = 0, seps = 0, powersStart = 0, badForce = FALSE,
           checking = "length"
    PROVE  PowersInv
BY DEF PowersInv, PowersTypeOK

LEMMA UserinfoInit == MCInit => UserinfoInv
<1> SUFFICES ASSUME MCInit PROVE UserinfoInv
    OBVIOUS
<1>1. U!N!Init /\ U!L!Init
    BY DEF MCInit, U!Init
<1>2. typed \in Seq(Chars)
    BY <1>1 DEF U!N!Init
<1>3. CleanInv
    BY <1>1, <1>2, CleanInit DEF U!N!Init
<1>4. sent = <<>> /\ i = 0 /\ seps = 0 /\ powersStart = 0 /\ badForce = FALSE
      /\ checking = "length"
    BY DEF MCInit, U!Init
<1>5. PowersInv
    <2>1. sent \in Seq(U!F!Classes)
        BY <1>4
    <2> QED
        BY <1>4, <2>1, PowersInit
<1>6. stage = "name"
    BY DEF MCInit, U!Init
<1> QED
    BY <1>1, <1>3, <1>4, <1>5, <1>6, FloodInit DEF UserinfoInv, NothingRead

LEMMA UserinfoNext ==
    ASSUME UserinfoInv, MCNext
    PROVE  UserinfoInv'
<1>1. /\ CleanInv /\ PowersInv /\ FloodInv
      /\ stage \in {"name", "model", "forcepowers", "connected"}
      /\ stage # "forcepowers" => NothingRead
    BY DEF UserinfoInv
<1>2. CASE UNCHANGED userinfoVars
    <2>1. UNCHANGED U!nameVars /\ UNCHANGED U!powerVars /\ UNCHANGED U!floodVars
        BY <1>2 DEF userinfoVars, U!nameVars, U!powerVars, U!floodVars
    <2>2. UNCHANGED stage
        BY <1>2 DEF userinfoVars
    <2> QED
        BY <1>1, <2>1, <2>2, CleanKept, PowersKept, FloodKept
           DEF UserinfoInv, NothingRead, U!powerVars
<1>3. CASE U!CleanTheName
    <2>1. U!N!Next /\ UNCHANGED U!powerVars /\ UNCHANGED U!floodVars
        BY <1>3 DEF U!CleanTheName
    <2>2. UNCHANGED stage
        BY <1>3 DEF U!CleanTheName
    <2> QED
        BY <1>1, <2>1, <2>2, CleanNext, PowersKept, FloodKept
           DEF UserinfoInv, NothingRead, U!powerVars
<1>4. CASE U!NameCleaned
    <2>1. /\ typed' = <<>> /\ in' = <<>> /\ out' = <<>>
          /\ colorlessLen' = 0 /\ cleaning' = "leading"
          /\ UNCHANGED U!powerVars /\ UNCHANGED U!floodVars
        BY <1>4 DEF U!NameCleaned
    <2>2. CleanInv'
        <3>1. <<>> \in Seq(U!N!Classes)
            OBVIOUS
        <3>2. Cardinality(U!N!Colorless(<<>>)) = 0
            BY NothingToShow, FS_EmptySet
        <3>3. Cardinality(U!N!Colorless(out')) = 0
            BY <2>1, <3>2
        <3>4. Cardinality(U!N!Colorless(out))' = 0
            BY <3>3 DEF U!N!Colorless, U!N!IsColor
        <3> QED
            BY <2>1, <3>1, <3>4 DEF CleanInv, SomethingToShow, U!SomethingToShow, U!N!SomethingToShow
    <2> QED
        BY <1>1, <1>4, <2>1, <2>2, PowersKept, FloodKept
           DEF UserinfoInv, NothingRead, U!powerVars, U!NameCleaned
<1>5. CASE U!ModelReplaced \/ U!ForcePowersChecked
    <2>1. UNCHANGED U!nameVars /\ UNCHANGED U!floodVars
        BY <1>5 DEF U!ModelReplaced, U!ForcePowersChecked
    <2>2. sent' \in Seq(U!F!Classes)
        <3>1. CASE U!ModelReplaced
            <4>1. PICK n \in 0..MaxSent : sent' \in [1..n -> U!F!Classes]
                BY <3>1 DEF U!ModelReplaced
            <4>2. n \in Nat
                BY PowersLimits
            <4> QED
                BY <4>1, <4>2
        <3>2. CASE U!ForcePowersChecked
            <4>1. sent' = <<>>
                BY <3>2 DEF U!ForcePowersChecked
            <4> QED
                BY <4>1
        <3> QED
            BY <1>5, <3>1, <3>2
    <2>3. i' = 0 /\ seps' = 0 /\ powersStart' = 0 /\ badForce' = FALSE /\ checking' = "length"
        <3>1. CASE U!ModelReplaced
            <4>1. stage = "model" /\ UNCHANGED <<i, seps, powersStart, badForce, checking>>
                BY <3>1 DEF U!ModelReplaced
            <4> QED
                BY <1>1, <4>1 DEF NothingRead
        <3>2. CASE U!ForcePowersChecked
            BY <3>2 DEF U!ForcePowersChecked
        <3> QED
            BY <1>5, <3>1, <3>2
    <2>4. PowersInv'
        BY <2>2, <2>3 DEF PowersInv, PowersTypeOK
    <2>5. stage' \in {"forcepowers", "connected"}
        BY <1>5 DEF U!ModelReplaced, U!ForcePowersChecked
    <2> QED
        BY <1>1, <2>1, <2>3, <2>4, <2>5, CleanKept, FloodKept DEF UserinfoInv, NothingRead
<1>6. CASE U!CheckTheForcePowers
    <2>1. U!F!Next /\ UNCHANGED U!nameVars /\ UNCHANGED U!floodVars
        BY <1>6 DEF U!CheckTheForcePowers
    <2>2. stage = "forcepowers" /\ stage' = "forcepowers"
        BY <1>6 DEF U!CheckTheForcePowers
    <2> QED
        BY <1>1, <2>1, <2>2, CleanKept, PowersNext, FloodKept DEF UserinfoInv
<1>7. CASE U!SendUserinfos
    <2>1. U!L!Next /\ UNCHANGED U!nameVars /\ UNCHANGED U!powerVars
        BY <1>7 DEF U!SendUserinfos
    <2>2. UNCHANGED stage
        BY <1>7 DEF U!SendUserinfos
    <2> QED
        BY <1>1, <2>1, <2>2, CleanKept, PowersKept, FloodNext
           DEF UserinfoInv, NothingRead, U!powerVars
<1> QED
    BY <1>2, <1>3, <1>4, <1>5, <1>6, <1>7 DEF MCNext, U!Next

\* The names, the forcepowers and the changes, of every client.
LEMMA UserinfoHolds == MCSpec => []UserinfoInv
<1>1. UserinfoInv /\ [MCNext]_<<part, vars, userinfoVars, infoVars>> => UserinfoInv'
    <2>1. ASSUME UserinfoInv, UNCHANGED <<part, vars, userinfoVars, infoVars>>
          PROVE  UserinfoInv'
        <3>1. UNCHANGED U!nameVars /\ UNCHANGED U!powerVars /\ UNCHANGED U!floodVars
              /\ UNCHANGED stage
            BY <2>1 DEF userinfoVars, U!nameVars, U!powerVars, U!floodVars
        <3> QED
            BY <2>1, <3>1, CleanKept, PowersKept, FloodKept
               DEF UserinfoInv, NothingRead, U!powerVars
    <2> QED
        BY <2>1, UserinfoNext
<1> QED
    BY <1>1, UserinfoInit, PTL DEF MCSpec

\* No player is named by colors alone, however its name was typed and cut
\* (Proxy_ClientCleanName, Features/Userinfo.cpp): the count that goes up and down is
\* that of the characters shown.
THEOREM NamesShow == MCSpec => []SomethingToShow
<1>1. UserinfoInv => SomethingToShow
    BY DEF UserinfoInv, CleanInv
<1> QED
    BY <1>1, UserinfoHolds, PTL

\* forcepowers are kept exactly when the game can read them whole, whatever a client
\* sends (Sanitize, Features/Userinfo.cpp).
THEOREM ReadablePowersAreKept == MCSpec => []KeptExactlyReadable
<1>1. UserinfoInv => KeptExactlyReadable
    BY PowersThen DEF UserinfoInv
<1> QED
    BY <1>1, UserinfoHolds, PTL

\* A client changes its userinfo at the rate of the windows: fewer than two windows'
\* worth of changes are accepted in any interval, and one is refused only to a client
\* that made as many as a window takes within the last interval
\* (SV_UpdateUserinfo_f).
THEOREM ChangesComeAtTheirRate == MCSpec => ChangesAtTheirRate
<1>1. UserinfoInv => U!Bounded
    BY FloodBounded DEF UserinfoInv, U!Bounded
<1>2. UserinfoInv /\ [MCNext]_<<part, vars, userinfoVars, infoVars>>
        => [stage = "connected" /\ U!L!Refuse => U!L!AtItsRate]_U!vars
    <2> SUFFICES ASSUME UserinfoInv, [MCNext]_<<part, vars, userinfoVars, infoVars>>,
                        ~UNCHANGED U!vars, stage = "connected", U!L!Refuse
                 PROVE  U!L!AtItsRate
        OBVIOUS
    <2>1. U!L!Next
        BY DEF U!L!Next
    <2> QED
        BY <2>1, FloodNext DEF UserinfoInv
<1> QED
    BY <1>1, <1>2, UserinfoHolds, PTL DEF MCSpec, ChangesAtTheirRate, U!ChangesAtTheirRate, U!RefusedForARate

-----------------------------------------------------------------------------
(* The userinfo string *)

Strings == Seq(I!AnyPair)

InfoInv ==
    /\ info \in Strings
    /\ client \in {"free", "connecting", "changing", "in"}
    /\ ReadAsSet

\* The pairs that the server sets.
LEMMA PairsTyped ==
    \A key \in {"ip", "name", "model"}, value \in {"own", "clean", "kyle"} :
        /\ I!Pair(key, TRUE, value) \in I!AnyPair
        /\ I!Pair(key, TRUE, value).key = key /\ I!Pair(key, TRUE, value).value = value
<1>1. DOMAIN I!Length = {"own", "address", "longAddress", "typed", "clean", "kyle", "longModel",
                         "short", "long"}
    BY DEF I!Length
<1>2. DOMAIN I!Values = {"ip", "name", "model", "other"}
    BY DEF I!Values
<1> QED
    BY <1>1, <1>2 DEF I!Pair, I!AnyPair

LEMMA Lengths == \A value \in DOMAIN I!Length : I!Length[value] \in Nat
BY DEF I!Length

\* The first place.
LEMMA FirstPlace ==
    ASSUME NEW places \in SUBSET Nat, places # {}
    PROVE  I!First(places) \in places /\ \A m \in places : I!First(places) <= m
<1>1. \E n \in places : \A m \in places : n <= m
    BY LowestNumber
<1> QED
    BY <1>1 DEF I!First

\* A string without one of its pairs.
LEMMA OneRemoved ==
    ASSUME NEW s \in Strings, NEW l \in Nat, l = Len(s), NEW n \in 1..l
    PROVE  \E t \in Strings : /\ t = I!RemoveAt(s, n) /\ Len(t) = l - 1
                              /\ \A j \in 1..(n - 1) : t[j] = s[j]
                              /\ \A j \in n..(l - 1) : t[j] = s[j + 1]
<1>1. PICK a : a = SubSeq(s, 1, n - 1)
    OBVIOUS
<1>2. PICK z : z = SubSeq(s, n + 1, l)
    OBVIOUS
<1>3. \A j \in 1..l : s[j] \in I!AnyPair
    BY DEF Strings
<1>4. a \in Seq(I!AnyPair) /\ Len(a) = n - 1 /\ \A j \in 1..(n - 1) : a[j] = s[j]
    <2>1. \A j \in 1..(n - 1) : s[j] \in I!AnyPair
        BY <1>3
    <2>2. /\ a \in Seq(I!AnyPair) /\ Len(a) = IF 1 <= n - 1 THEN (n - 1) - 1 + 1 ELSE 0
          /\ \A j \in 1..((n - 1) - 1 + 1) : a[j] = s[1 + j - 1]
        BY <1>1, <2>1, SubSeqProperties
    <2>3. (IF 1 <= n - 1 THEN (n - 1) - 1 + 1 ELSE 0) = n - 1 /\ (n - 1) - 1 + 1 = n - 1
        OBVIOUS
    <2>4. \A j \in 1..(n - 1) : 1 + j - 1 = j
        OBVIOUS
    <2> QED
        BY <2>2, <2>3, <2>4
<1>5. z \in Seq(I!AnyPair) /\ Len(z) = l - n /\ \A j \in 1..(l - n) : z[j] = s[n + j]
    <2>1. \A j \in (n + 1)..l : s[j] \in I!AnyPair
        BY <1>3
    <2>2. /\ z \in Seq(I!AnyPair) /\ Len(z) = IF n + 1 <= l THEN l - (n + 1) + 1 ELSE 0
          /\ \A j \in 1..(l - (n + 1) + 1) : z[j] = s[(n + 1) + j - 1]
        BY <1>2, <2>1, SubSeqProperties
    <2>3. (IF n + 1 <= l THEN l - (n + 1) + 1 ELSE 0) = l - n /\ l - (n + 1) + 1 = l - n
        OBVIOUS
    <2>4. \A j \in 1..(l - n) : (n + 1) + j - 1 = n + j
        OBVIOUS
    <2> QED
        BY <2>2, <2>3, <2>4
<1>6. PICK t : t = a \o z
    OBVIOUS
<1>7. t \in Strings /\ Len(t) = l - 1
    <2>1. t \in Seq(I!AnyPair) /\ Len(t) = Len(a) + Len(z)
        BY <1>4, <1>5, <1>6, ConcatProperties
    <2>2. Len(t) = (n - 1) + (l - n)
        BY <1>4, <1>5, <2>1
    <2> QED
        BY <2>1, <2>2 DEF Strings
<1>8. ASSUME NEW j \in 1..(n - 1) PROVE t[j] = s[j]
    <2>1. t[j] = a[j]
        BY <1>4, <1>5, <1>6
    <2> QED
        BY <1>4, <2>1
<1>9. ASSUME NEW j \in n..(l - 1) PROVE t[j] = s[j + 1]
    <2>1. j - (n - 1) \in 1..(l - n) /\ n + (j - (n - 1)) = j + 1
        OBVIOUS
    <2>2. t[j] = z[j - (n - 1)]
        BY <1>4, <1>5, <1>6
    <2> QED
        BY <1>5, <2>1, <2>2
<1>10. t = I!RemoveAt(s, n)
    BY <1>1, <1>2, <1>6 DEF I!RemoveAt
<1> QED
    BY <1>7, <1>8, <1>9, <1>10

\* A string with a pair in front.
LEMMA OneInFront ==
    ASSUME NEW s \in Strings, NEW l \in Nat, l = Len(s), NEW p \in I!AnyPair
    PROVE  \E t \in Strings : /\ t = <<p>> \o s /\ Len(t) = l + 1 /\ t[1] = p
                              /\ \A j \in 1..l : t[j + 1] = s[j]
<1>1. <<p>> \in Seq(I!AnyPair) /\ Len(<<p>>) = 1 /\ <<p>>[1] = p
    OBVIOUS
<1>2. s \in Seq(I!AnyPair)
    BY DEF Strings
<1>3. <<p>> \o s \in Strings /\ Len(<<p>> \o s) = 1 + l
    BY <1>1, <1>2 DEF Strings
<1>4. \A j \in 1..(1 + l) : (<<p>> \o s)[j] = IF j <= 1 THEN <<p>>[j] ELSE s[j - 1]
    BY <1>1, <1>2
<1>5. ASSUME NEW j \in 1..l PROVE (<<p>> \o s)[j + 1] = s[j]
    <2>1. j + 1 \in 1..(1 + l) /\ ~(j + 1 <= 1) /\ (j + 1) - 1 = j
        OBVIOUS
    <2> QED
        BY <1>4, <2>1
<1>6. (<<p>> \o s)[1] = p
    <2>1. 1 \in 1..(1 + l) /\ 1 <= 1
        OBVIOUS
    <2> QED
        BY <1>1, <1>4, <2>1
<1>7. PICK t \in Strings : t = <<p>> \o s
    BY <1>3
<1>8. Len(t) = l + 1
    BY <1>3, <1>7
<1> QED
    BY <1>5, <1>6, <1>7, <1>8

-----------------------------------------------------------------------------
(* What is read of a string *)

LEMMA PlacesOf ==
    ASSUME NEW s \in Strings, NEW l \in Nat, l = Len(s), NEW key
    PROVE  /\ I!Named(s, key) \in SUBSET Nat
           /\ \A n : n \in I!Named(s, key) <=> n \in 1..l /\ s[n].key = key
           /\ \A n : n \in I!Spelled(s, key) <=> n \in 1..l /\ s[n].key = key /\ s[n].exact
<1>1. DOMAIN s = 1..l
    BY DEF Strings
<1> QED
    BY <1>1 DEF I!Named, I!Spelled

\* The value of a key is that of its first place.
LEMMA ValueIs ==
    ASSUME NEW s \in Strings, NEW l \in Nat, l = Len(s), NEW key, NEW n \in 1..l, s[n].key = key,
           \A m \in 1..(n - 1) : s[m].key # key
    PROVE  I!Info_ValueForKey(s, key) = s[n].value
<1>1. n \in I!Named(s, key)
    BY PlacesOf
<1>2. PICK first \in I!Named(s, key) :
          first = I!First(I!Named(s, key)) /\ \A m \in I!Named(s, key) : first <= m
    BY <1>1, PlacesOf, FirstPlace
<1>3. first \in 1..l /\ s[first].key = key /\ first <= n
    BY <1>1, <1>2, PlacesOf
<1>4. first = n
    <2>1. first # n => first \in 1..(n - 1)
        BY <1>3
    <2> QED
        BY <1>3, <2>1
<1>5. I!Named(s, key) # {}
    BY <1>1
<1> QED
    BY <1>2, <1>4, <1>5 DEF I!Info_ValueForKey

\* A key is in a string, with a first place, or it is not.
LEMMA ValueOrNone ==
    ASSUME NEW s \in Strings, NEW l \in Nat, l = Len(s), NEW key
    PROVE  \/ /\ \A n \in 1..l : s[n].key # key
              /\ I!Info_ValueForKey(s, key) = I!NoValue
           \/ \E n \in 1..l : /\ s[n].key = key /\ I!Info_ValueForKey(s, key) = s[n].value
                             /\ n = I!First(I!Named(s, key))
                             /\ \A m \in 1..(n - 1) : s[m].key # key
<1>1. CASE I!Named(s, key) = {}
    <2>1. \A n \in 1..l : s[n].key # key
        BY <1>1, PlacesOf
    <2>2. I!Info_ValueForKey(s, key) = I!NoValue
        BY <1>1 DEF I!Info_ValueForKey
    <2> QED
        BY <2>1, <2>2
<1>2. CASE I!Named(s, key) # {}
    <2>1. PICK first \in I!Named(s, key) :
              first = I!First(I!Named(s, key)) /\ \A m \in I!Named(s, key) : first <= m
        BY <1>2, PlacesOf, FirstPlace
    <2>2. first \in 1..l /\ s[first].key = key
        BY PlacesOf
    <2>3. ASSUME NEW m \in 1..(first - 1), s[m].key = key PROVE FALSE
        <3>1. m \in 1..l /\ ~(first <= m)
            BY <2>2
        <3> QED
            BY <2>1, <2>3, <3>1, PlacesOf
    <2>4. I!Info_ValueForKey(s, key) = s[first].value
        BY <1>2, <2>1 DEF I!Info_ValueForKey
    <2> QED
        BY <2>1, <2>2, <2>3, <2>4
<1> QED
    BY <1>1, <1>2

\* The pair in front is the one read, and hides no other key.
LEMMA FrontIsRead ==
    ASSUME NEW s \in Strings, NEW p \in I!AnyPair
    PROVE  /\ I!Info_ValueForKey(<<p>> \o s, p.key) = p.value
           /\ \A key : key # p.key =>
                I!Info_ValueForKey(<<p>> \o s, key) = I!Info_ValueForKey(s, key)
<1>1. PICK l \in Nat : l = Len(s)
    BY DEF Strings
<1>2. PICK t \in Strings : /\ t = <<p>> \o s /\ Len(t) = l + 1 /\ t[1] = p
                           /\ \A j \in 1..l : t[j + 1] = s[j]
    BY SMTT(40), <1>1, OneInFront
<1>3. I!Info_ValueForKey(t, p.key) = p.value
    <2>1. 1 \in 1..(l + 1) /\ \A m : ~(m \in 1..(1 - 1))
        OBVIOUS
    <2>2. PICK k \in Nat : k = l + 1 /\ 1 \in 1..k
        BY <2>1
    <2>3. k = Len(t) /\ t[1].key = p.key /\ \A m \in 1..(1 - 1) : t[m].key # p.key
        BY <1>2, <2>1, <2>2
    <2>4. I!Info_ValueForKey(t, p.key) = t[1].value
        BY <2>2, <2>3, ValueIs
    <2> QED
        BY <1>2, <2>4
<1>4. ASSUME NEW key, key # p.key
      PROVE  I!Info_ValueForKey(t, key) = I!Info_ValueForKey(s, key)
    <2>0. \A m \in 1..(l + 1) : m = 1 \/ (m - 1 \in 1..l /\ t[m] = s[m - 1])
        <3> TAKE m \in 1..(l + 1)
        <3>1. m # 1 => m - 1 \in 1..l /\ (m - 1) + 1 = m
            OBVIOUS
        <3> QED
            BY <1>2, <3>1
    <2>1. CASE /\ \A n \in 1..l : s[n].key # key
               /\ I!Info_ValueForKey(s, key) = I!NoValue
        <3>1. \A n \in 1..(l + 1) : t[n].key # key
            BY <1>2, <1>4, <2>0, <2>1
        <3>2. PICK k \in Nat : k = l + 1
            OBVIOUS
        <3>3. k = Len(t) /\ \A n \in 1..k : t[n].key # key
            BY <1>2, <3>1, <3>2
        <3>4. I!Info_ValueForKey(t, key) = I!NoValue
            BY <3>3, ValueOrNone
        <3> QED
            BY <2>1, <3>4
    <2>2. CASE \E n \in 1..l : /\ s[n].key = key /\ I!Info_ValueForKey(s, key) = s[n].value
                              /\ \A m \in 1..(n - 1) : s[m].key # key
        <3>1. PICK n \in 1..l : /\ s[n].key = key /\ I!Info_ValueForKey(s, key) = s[n].value
                                /\ \A m \in 1..(n - 1) : s[m].key # key
            BY <2>2
        <3>2. PICK k \in 1..(l + 1) : k = n + 1
            OBVIOUS
        <3>3. t[k] = s[n]
            BY <1>2, <3>2
        <3>4. \A m \in 1..(k - 1) : t[m].key # key
            <4> TAKE m \in 1..(k - 1)
            <4>1. m \in 1..(l + 1) /\ (m # 1 => m - 1 \in 1..(n - 1))
                BY <3>2
            <4> QED
                BY <1>2, <1>4, <2>0, <3>1, <4>1
        <3>5. PICK longer \in Nat : longer = l + 1 /\ k \in 1..longer
            OBVIOUS
        <3>6. longer = Len(t) /\ t[k].key = key
            BY <1>2, <3>1, <3>3, <3>5
        <3>7. I!Info_ValueForKey(t, key) = t[k].value
            BY <3>4, <3>5, <3>6, ValueIs
        <3> QED
            BY <3>1, <3>3, <3>7
    <2> QED
        BY <1>1, <2>1, <2>2, ValueOrNone
<1> QED
    BY <1>2, <1>3, <1>4

\* The other keys are read as before once one is removed.
LEMMA RemovedReads ==
    ASSUME NEW s \in Strings, NEW removed, NEW key, key # removed
    PROVE  I!Info_ValueForKey(I!Info_RemoveKey(s, removed), key) = I!Info_ValueForKey(s, key)
<1>1. PICK l \in Nat : l = Len(s)
    BY DEF Strings
<1>2. CASE I!Spelled(s, removed) = {}
    BY <1>2 DEF I!Info_RemoveKey
<1>3. CASE I!Spelled(s, removed) # {}
    <2>1. I!Spelled(s, removed) \in SUBSET Nat
        BY <1>1, PlacesOf
    <2>2. PICK x \in 1..l : x = I!First(I!Spelled(s, removed)) /\ s[x].key = removed
        BY <1>1, <1>3, <2>1, FirstPlace, PlacesOf
    <2>3. PICK t \in Strings : /\ t = I!RemoveAt(s, x) /\ Len(t) = l - 1
                               /\ \A j \in 1..(x - 1) : t[j] = s[j]
                               /\ \A j \in x..(l - 1) : t[j] = s[j + 1]
        BY <1>1, OneRemoved
    <2>4. I!Info_RemoveKey(s, removed) = t
        BY <1>3, <2>2, <2>3 DEF I!Info_RemoveKey
    <2>5. PICK k \in Nat : k = l - 1
        OBVIOUS
    <2>6. \A m \in 1..k : \/ m \in 1..(x - 1) /\ t[m] = s[m]
                          \/ m \in x..(l - 1) /\ m + 1 \in 1..l /\ t[m] = s[m + 1]
        BY <2>3, <2>5
    <2>7. CASE /\ \A n \in 1..l : s[n].key # key
               /\ I!Info_ValueForKey(s, key) = I!NoValue
        <3>1. \A m \in 1..k : t[m].key # key
            BY <2>5, <2>6, <2>7
        <3>2. k = Len(t)
            BY <2>3, <2>5
        <3>3. I!Info_ValueForKey(t, key) = I!NoValue
            BY <3>1, <3>2, ValueOrNone
        <3> QED
            BY <2>4, <2>7, <3>3
    <2>8. CASE \E n \in 1..l : /\ s[n].key = key /\ I!Info_ValueForKey(s, key) = s[n].value
                              /\ \A m \in 1..(n - 1) : s[m].key # key
        <3>1. PICK n \in 1..l : /\ s[n].key = key /\ I!Info_ValueForKey(s, key) = s[n].value
                                /\ \A m \in 1..(n - 1) : s[m].key # key
            BY <2>8
        <3>2. n # x
            BY <2>2, <3>1
        <3>3. CASE n < x
            <4>1. n \in 1..(x - 1) /\ n \in 1..k
                BY <2>5, <3>3
            <4>2. t[n] = s[n]
                BY <2>3, <4>1
            <4>3. \A m \in 1..(n - 1) : t[m].key # key
                <5>1. \A m \in 1..(n - 1) : m \in 1..(x - 1)
                    BY <3>3
                <5> QED
                    BY <2>3, <3>1, <5>1
            <4>4. k = Len(t) /\ t[n].key = key /\ n \in 1..k
                BY <2>3, <2>5, <3>1, <4>1, <4>2
            <4>5. I!Info_ValueForKey(t, key) = t[n].value
                BY <4>3, <4>4, ValueIs
            <4> QED
                BY <2>4, <3>1, <4>2, <4>5
        <3>4. CASE n > x
            <4>1. PICK j \in 1..k : j = n - 1
                BY <2>5, <3>4
            <4>2. j \in x..(l - 1) /\ j + 1 = n
                BY <3>4, <4>1
            <4>3. t[j] = s[n]
                BY <2>3, <4>2
            <4>4. ASSUME NEW m \in 1..(j - 1) PROVE t[m].key # key
                <5>1. m \in 1..k /\ m \in 1..(n - 1) /\ m + 1 \in 1..(n - 1)
                    BY <4>1
                <5> QED
                    BY <2>6, <3>1, <5>1
            <4>5. k = Len(t) /\ t[j].key = key
                BY <2>3, <2>5, <3>1, <4>3
            <4>6. I!Info_ValueForKey(t, key) = t[j].value
                BY <4>4, <4>5, ValueIs
            <4> QED
                BY <2>4, <3>1, <4>3, <4>6
        <3> QED
            BY <3>2, <3>3, <3>4
    <2> QED
        BY <1>1, <2>7, <2>8, ValueOrNone
<1> QED
    BY <1>2, <1>3

-----------------------------------------------------------------------------
(* The length of a string *)

Weight(p) == 1 + I!Length[p.value]

LEMMA Weights == \A p \in I!AnyPair : Weight(p) \in Nat
<1> TAKE p \in I!AnyPair
<1>1. p.value \in DOMAIN I!Length
    BY DEF I!AnyPair
<1>2. I!Length[p.value] \in Nat
    BY <1>1, Lengths
<1> QED
    BY <1>2 DEF Weight

\* The length up to each place.
UpTo(f, s, l) ==
    /\ f \in [0..l -> Nat] /\ f[0] = 0
    /\ \A n \in 1..l : f[n] = f[n - 1] + Weight(s[n])

LEMMA LengthsUpTo ==
    ASSUME NEW s \in Strings, NEW l \in Nat, l = Len(s)
    PROVE  \E f : UpTo(f, s, l) /\ I!Strlen(s) = f[l]
<1> DEFINE Step(h) == [n \in 0..l |-> IF n = 0 THEN 0 ELSE h[n - 1] + 1 + I!Length[s[n].value]]
           Has(n) == \E h : UpTo(h, s, n)
           All == {n \in Nat : n <= l => Has(n)}
<1>0. \A n \in 1..l : s[n] \in I!AnyPair /\ I!Length[s[n].value] \in Nat
    <2>1. \A n \in 1..l : s[n] \in I!AnyPair
        BY DEF Strings
    <2>2. \A n \in 1..l : s[n].value \in DOMAIN I!Length
        BY <2>1 DEF I!AnyPair
    <2> QED
        BY <2>1, <2>2, Lengths
<1>1. Nat \subseteq All
    <2>1. 0 \in All
        <3>1. PICK h : h = [n \in 0..0 |-> 0]
            OBVIOUS
        <3>2. h \in [0..0 -> Nat] /\ h[0] = 0 /\ \A n : ~(n \in 1..0)
            BY <3>1
        <3>3. UpTo(h, s, 0)
            BY <3>2 DEF UpTo
        <3> QED
            BY <3>3
    <2>2. ASSUME NEW n \in Nat, n \in All PROVE n + 1 \in All
        <3>1. SUFFICES ASSUME n + 1 <= l PROVE Has(n + 1)
            OBVIOUS
        <3>2. PICK h : UpTo(h, s, n)
            BY <2>2, <3>1
        <3>3. n + 1 \in 1..l /\ n \in 0..n
            BY <3>1
        <3>4. PICK more \in Nat : more = h[n] + Weight(s[n + 1])
            BY <1>0, <3>2, <3>3, Weights DEF UpTo
        <3>5. PICK g : g = [m \in 0..(n + 1) |-> IF m = n + 1 THEN more ELSE h[m]]
            OBVIOUS
        <3>6. \A m \in 0..(n + 1) : m = n + 1 \/ m \in 0..n
            OBVIOUS
        <3>7. g \in [0..(n + 1) -> Nat]
            BY <3>2, <3>5, <3>6 DEF UpTo
        <3>8. \A m \in 0..n : g[m] = h[m]
            BY <3>5
        <3>9. g[n + 1] = more
            BY <3>5
        <3>10. g[0] = 0
            BY <3>2, <3>8 DEF UpTo
        <3>11. ASSUME NEW m \in 1..(n + 1) PROVE g[m] = g[m - 1] + Weight(s[m])
            <4>1. CASE m = n + 1
                <5>1. m - 1 = n
                    BY <4>1
                <5> QED
                    BY <3>3, <3>4, <3>8, <3>9, <4>1, <5>1
            <4>2. CASE m # n + 1
                <5>1. m \in 1..n /\ m \in 0..n /\ m - 1 \in 0..n
                    BY <4>2
                <5> QED
                    BY <3>2, <3>8, <5>1 DEF UpTo
            <4> QED
                BY <4>1, <4>2
        <3>12. UpTo(g, s, n + 1)
            BY <3>7, <3>10, <3>11 DEF UpTo
        <3> QED
            BY <3>12
    <2> HIDE DEF All
    <2> QED
        BY <2>1, <2>2, Induction
<1>2. PICK h : UpTo(h, s, l)
    <2>1. l \in All /\ l <= l
        BY <1>1
    <2> QED
        BY <2>1
<1>3. h = Step(h)
    <2>1. ASSUME NEW n \in 0..l
          PROVE  h[n] = IF n = 0 THEN 0 ELSE h[n - 1] + 1 + I!Length[s[n].value]
        <3>1. CASE n = 0
            BY <1>2, <3>1 DEF UpTo
        <3>2. CASE n # 0
            <4>1. n \in 1..l /\ n - 1 \in 0..l
                BY <3>2
            <4>2. h[n] = h[n - 1] + Weight(s[n]) /\ h[n - 1] \in Nat
                BY <1>2, <4>1 DEF UpTo
            <4>3. PICK v \in Nat, w \in Nat : v = I!Length[s[n].value] /\ w = h[n - 1]
                BY <1>0, <4>1, <4>2
            <4>4. h[n] = w + (1 + v)
                BY <4>2, <4>3 DEF Weight
            <4>5. h[n] = w + 1 + v
                BY <4>4
            <4>6. h[n] = h[n - 1] + 1 + I!Length[s[n].value]
                BY <4>3, <4>5
            <4> QED
                BY Zenon, <3>2, <4>6
        <3> QED
            BY <3>1, <3>2
    <2> QED
        BY <1>2, <2>1 DEF UpTo
<1> DEFINE g == CHOOSE x : x = Step(x)
<1>4. g = Step(g)
    BY <1>3
<1>5. I!Strlen(s) = g[l]
    BY DEF I!Strlen
<1> HIDE DEF g
<1>6. g[0] = 0 /\ \A n \in 1..l : g[n] = g[n - 1] + 1 + I!Length[s[n].value]
    <2>1. PICK x : x = g
        OBVIOUS
    <2>2. \A n \in 0..l : x[n] = IF n = 0 THEN 0 ELSE x[n - 1] + 1 + I!Length[s[n].value]
        BY <1>4, <2>1
    <2>3. 0 \in 0..l /\ \A n \in 1..l : n \in 0..l /\ n # 0
        OBVIOUS
    <2> QED
        BY <2>1, <2>2, <2>3
<1> DEFINE Nats == {n \in Nat : n <= l => g[n] \in Nat}
<1>7. Nat \subseteq Nats
    <2>1. 0 \in Nats
        BY <1>6
    <2>2. ASSUME NEW n \in Nat, n \in Nats PROVE n + 1 \in Nats
        <3>1. SUFFICES ASSUME n + 1 <= l PROVE g[n + 1] \in Nat
            OBVIOUS
        <3>2. n + 1 \in 1..l /\ (n + 1) - 1 = n /\ g[n] \in Nat
            BY <2>2, <3>1
        <3>3. g[n + 1] = g[n] + 1 + I!Length[s[n + 1].value]
            BY <1>6, <3>2
        <3> QED
            BY <1>0, <3>2, <3>3
    <2> HIDE DEF Nats
    <2> QED
        BY <2>1, <2>2, Induction
<1>8. g \in [0..l -> Nat]
    <2>1. \A n \in 0..l : g[n] \in Nat
        BY <1>7
    <2>2. \A x : x = Step(x) => DOMAIN x = 0..l /\ x = [n \in 0..l |-> x[n]]
        OBVIOUS
    <2>3. DOMAIN g = 0..l /\ g = [n \in 0..l |-> g[n]]
        BY <1>4, <2>2
    <2> QED
        BY <2>1, <2>3
<1>9. \A n \in 1..l : g[n] = g[n - 1] + Weight(s[n])
    <2> TAKE n \in 1..l
    <2>1. n - 1 \in 0..l
        OBVIOUS
    <2>2. PICK v \in Nat, w \in Nat : v = I!Length[s[n].value] /\ w = g[n - 1]
        BY <1>0, <1>8, <2>1
    <2>3. g[n] = w + 1 + v /\ Weight(s[n]) = 1 + v
        BY <1>6, <2>2 DEF Weight
    <2> QED
        BY SMTT(40), <2>2, <2>3
<1> QED
    BY <1>5, <1>6, <1>8, <1>9 DEF UpTo

\* The length of one pair.
LEMMA PairLength == \A p \in I!AnyPair : I!Strlen(<<p>>) = Weight(p)
<1> TAKE p \in I!AnyPair
<1>1. <<p>> \in Strings /\ Len(<<p>>) = 1 /\ <<p>>[1] = p
    BY DEF Strings
<1>2. PICK f : UpTo(f, <<p>>, 1) /\ I!Strlen(<<p>>) = f[1]
    <2>1. PICK s \in Strings : s = <<p>>
        BY <1>1
    <2>2. 1 \in Nat /\ 1 = Len(s)
        BY <1>1, <2>1
    <2> QED
        BY <2>1, <2>2, LengthsUpTo
<1>3. f[0] = 0 /\ f[1] = f[1 - 1] + Weight(p)
    BY <1>1, <1>2 DEF UpTo
<1> QED
    BY <1>2, <1>3, Weights

\* A pair less.
LEMMA RemovedLength ==
    ASSUME NEW s \in Strings, NEW l \in Nat, l = Len(s), NEW x \in 1..l
    PROVE  /\ I!Strlen(s) \in Nat
           /\ I!Strlen(I!RemoveAt(s, x)) = I!Strlen(s) - Weight(s[x])
<1>1. PICK t \in Strings : /\ t = I!RemoveAt(s, x) /\ Len(t) = l - 1
                           /\ \A j \in 1..(x - 1) : t[j] = s[j]
                           /\ \A j \in x..(l - 1) : t[j] = s[j + 1]
    BY OneRemoved
<1>2. PICK f : UpTo(f, s, l) /\ I!Strlen(s) = f[l]
    BY LengthsUpTo
<1>3. PICK k \in Nat : k = l - 1
    OBVIOUS
<1>4. PICK g : UpTo(g, t, k) /\ I!Strlen(t) = g[k]
    BY <1>1, <1>3, LengthsUpTo
<1>5. \A n \in 1..l : Weight(s[n]) \in Nat
    BY Weights DEF Strings
<1>6. PICK w \in Nat : w = Weight(s[x])
    BY <1>5
<1>7. /\ \A n \in 0..l : f[n] \in Nat
      /\ f[0] = 0 /\ \A n \in 1..l : f[n] = f[n - 1] + Weight(s[n])
    BY <1>2 DEF UpTo
<1>8. /\ \A n \in 0..k : g[n] \in Nat
      /\ g[0] = 0 /\ \A n \in 1..k : g[n] = g[n - 1] + Weight(t[n])
    BY <1>4 DEF UpTo
<1>9. f[x] = f[x - 1] + w
    BY <1>6, <1>7
<1> DEFINE Same == {n \in Nat : n <= k => IF n < x THEN g[n] = f[n] ELSE f[n + 1] = g[n] + w}
<1>10. Nat \subseteq Same
    <2>1. 0 \in Same
        BY <1>7, <1>8
    <2>2. ASSUME NEW n \in Nat, n \in Same PROVE n + 1 \in Same
        <3>1. SUFFICES ASSUME n + 1 <= k
                       PROVE  IF n + 1 < x THEN g[n + 1] = f[n + 1]
                              ELSE f[(n + 1) + 1] = g[n + 1] + w
            OBVIOUS
        <3>2. n + 1 \in 1..k /\ (n + 1) - 1 = n /\ n \in 0..k /\ n \in 0..l /\ n + 1 \in 0..l
              /\ n + 2 \in 1..l /\ n + 1 \in 1..l /\ (n + 2) - 1 = n + 1
            BY <1>3, <3>1
        <3>3. g[n + 1] = g[n] + Weight(t[n + 1])
            BY <1>8, <3>2
        <3>4. f[n + 1] = f[n] + Weight(s[n + 1])
            BY <1>7, <3>2
        <3>5. f[n + 2] = f[n + 1] + Weight(s[n + 2])
            BY <1>7, <3>2
        <3>6. CASE n + 1 < x
            <4>1. n + 1 \in 1..(x - 1)
                BY <3>6
            <4>2. t[n + 1] = s[n + 1]
                BY <1>1, <4>1
            <4>3. g[n] = f[n]
                BY <2>2, <3>1, <3>6
            <4> QED
                BY <3>3, <3>4, <3>6, <4>2, <4>3
        <3>7. CASE ~(n + 1 < x)
            <4>1. n + 1 \in x..(l - 1) /\ (n + 1) + 1 = n + 2
                BY <1>3, <3>1, <3>7
            <4>2. t[n + 1] = s[n + 2]
                BY <1>1, <4>1
            <4>3. f[n + 1] = g[n] + w
                <5>1. CASE n < x
                    <6>1. n + 1 = x /\ x - 1 = n
                        BY <3>7, <5>1
                    <6>2. g[n] = f[n]
                        BY <2>2, <3>1, <5>1
                    <6> QED
                        BY <1>9, <6>1, <6>2
                <5>2. CASE ~(n < x)
                    BY <2>2, <3>1, <5>2
                <5> QED
                    BY <5>1, <5>2
            <4>4. PICK v \in Nat : v = Weight(s[n + 2])
                BY <1>5, <3>2
            <4>5. g[n + 1] = g[n] + v /\ f[n + 2] = f[n + 1] + v /\ g[n] \in Nat
                BY <1>8, <3>2, <3>3, <3>5, <4>2, <4>4
            <4>6. f[n + 2] = g[n + 1] + w
                BY <4>3, <4>5
            <4> QED
                BY <3>7, <4>1, <4>6
        <3> QED
            BY <3>6, <3>7
    <2> HIDE DEF Same
    <2> QED
        BY <2>1, <2>2, Induction
<1>11. IF k < x THEN g[k] = f[k] ELSE f[k + 1] = g[k] + w
    BY <1>10
<1>12. f[l] = g[k] + w
    <2>1. CASE k < x
        <3>1. x = l /\ k = x - 1
            BY <1>3, <2>1
        <3> QED
            BY <1>9, <1>11, <2>1, <3>1
    <2>2. CASE ~(k < x)
        <3>1. k + 1 = l
            BY <1>3
        <3> QED
            BY <1>11, <2>2, <3>1
    <2> QED
        BY <2>1, <2>2
<1>13. f[l] \in Nat /\ g[k] \in Nat
    BY <1>7, <1>8
<1> QED
    BY <1>1, <1>2, <1>4, <1>6, <1>12, <1>13

-----------------------------------------------------------------------------
(* Keys that are set *)

SetKeys == {"ip", "name", "model"}
SetValues == {"own", "clean", "kyle"}

\* Every "ip" of the string is spelled as the engine does, or none is; there is one
\* at most.
IpsSpelled(s) == \A n \in DOMAIN s : s[n].key = "ip" => s[n].exact
NoneSpelled(s) == \A n \in DOMAIN s : s[n].key = "ip" => ~s[n].exact
OneIp(s) == \A m, n \in DOMAIN s : s[m].key = "ip" /\ s[n].key = "ip" => m = n

LEMMA OneSpelling == \A s : OneIp(s) => IpsSpelled(s) \/ NoneSpelled(s)
BY DEF OneIp, IpsSpelled, NoneSpelled

\* There is an "ip" exactly when one is read.
LEMMA IpRead ==
    ASSUME NEW s \in Strings
    PROVE  /\ I!Named(s, "ip") # {} <=> I!Info_ValueForKey(s, "ip") # I!NoValue
           /\ I!Spelled(s, "ip") = {} <=> NoneSpelled(s)
           /\ I!Info_ValueForKey(s, "ip") = I!NoValue => IpsSpelled(s)
<1>1. PICK l \in Nat : l = Len(s)
    BY DEF Strings
<1>2. DOMAIN s = 1..l
    BY <1>1 DEF Strings
<1>3. I!Spelled(s, "ip") = {} <=> NoneSpelled(s)
    BY <1>1, <1>2, PlacesOf DEF NoneSpelled
<1>4. CASE I!Named(s, "ip") = {}
    <2>1. I!Info_ValueForKey(s, "ip") = I!NoValue
        BY <1>4 DEF I!Info_ValueForKey
    <2>2. IpsSpelled(s)
        BY <1>1, <1>2, <1>4, PlacesOf DEF IpsSpelled
    <2> QED
        BY <1>3, <1>4, <2>1, <2>2
<1>5. CASE I!Named(s, "ip") # {}
    <2>1. PICK n \in 1..l : s[n].key = "ip" /\ I!Info_ValueForKey(s, "ip") = s[n].value
        BY <1>1, <1>5, PlacesOf, ValueOrNone
    <2>2. s[n] \in I!AnyPair
        BY <1>1, <2>1 DEF Strings
    <2>3. s[n].value \in DOMAIN I!Length
        BY <2>2 DEF I!AnyPair
    <2>4. s[n].value # I!NoValue
        BY <2>3 DEF I!Length, I!NoValue
    <2> QED
        BY <1>3, <1>5, <2>1, <2>4
<1> QED
    BY <1>4, <1>5

\* A string that Validate lets through has one "ip" at most.
LEMMA ValidatedOneIp ==
    ASSUME NEW s \in Strings, I!Validate(s)
    PROVE  OneIp(s)
<1>1. PICK l \in Nat : l = Len(s)
    BY DEF Strings
<1>2. DOMAIN s = 1..l
    BY <1>1 DEF Strings
<1>3. PICK places : places = I!Named(s, "ip")
    OBVIOUS
<1>4. places \in SUBSET (1..l)
    BY <1>1, <1>3, PlacesOf
<1>5. IsFiniteSet(places)
    <2>1. IsFiniteSet(1..l)
        BY FS_Interval
    <2> QED
        BY <1>4, <2>1, FS_Subset
<1>6. I!Cardinality(places) <= 1
    BY <1>3 DEF I!Validate, I!Count
<1>7. I!Cardinality(places) = Cardinality(places)
    BY DEF I!Cardinality, Cardinality
<1>8. ASSUME NEW m \in DOMAIN s, NEW n \in DOMAIN s, s[m].key = "ip", s[n].key = "ip", m # n
      PROVE  FALSE
    <2>1. m \in places /\ n \in places
        BY <1>1, <1>2, <1>3, <1>8, PlacesOf
    <2>2. Cardinality({m, n}) = 2
        <3>1. IsFiniteSet({m}) /\ Cardinality({m}) = 1
            BY FS_Singleton
        <3>2. n \notin {m} /\ {m} \cup {n} = {m, n}
            BY <1>8
        <3>3. Cardinality({m} \cup {n}) = Cardinality({m}) + 1
            BY <3>1, <3>2, FS_AddElement, Zenon
        <3> QED
            BY <3>1, <3>2, <3>3
    <2>3. Cardinality({m, n}) <= Cardinality(places)
        <3>1. {m, n} \in SUBSET places
            BY <2>1
        <3> QED
            BY <1>5, <3>1, FS_Subset
    <2>4. PICK c \in Nat : c = Cardinality(places)
        BY <1>5, FS_CardinalityType
    <2> QED
        BY <1>6, <1>7, <2>2, <2>3, <2>4
<1> QED
    BY <1>8 DEF OneIp

LEMMA RemovedString ==
    ASSUME NEW s \in Strings, NEW key
    PROVE  /\ I!Info_RemoveKey(s, key) \in Strings
           /\ IpsSpelled(I!Info_RemoveKey(s, key)) => IpsSpelled(s)
<1>1. PICK l \in Nat : l = Len(s)
    BY DEF Strings
<1>2. CASE I!Spelled(s, key) = {}
    BY <1>2 DEF I!Info_RemoveKey
<1>3. CASE I!Spelled(s, key) # {}
    <2>1. I!Spelled(s, key) \in SUBSET Nat
        BY <1>1, PlacesOf
    <2>2. PICK x \in 1..l : x = I!First(I!Spelled(s, key)) /\ s[x].exact
        BY <1>1, <1>3, <2>1, FirstPlace, PlacesOf
    <2>3. PICK t \in Strings : /\ t = I!RemoveAt(s, x) /\ Len(t) = l - 1
                               /\ \A j \in 1..(x - 1) : t[j] = s[j]
                               /\ \A j \in x..(l - 1) : t[j] = s[j + 1]
        BY <1>1, OneRemoved
    <2>4. I!Info_RemoveKey(s, key) = t
        BY <1>3, <2>2, <2>3 DEF I!Info_RemoveKey
    <2>5. ASSUME IpsSpelled(t) PROVE IpsSpelled(s)
        <3>1. DOMAIN s = 1..l /\ DOMAIN t = 1..(l - 1)
            BY <1>1, <2>3 DEF Strings
        <3>2. ASSUME NEW n \in 1..l, s[n].key = "ip" PROVE s[n].exact
            <4>1. CASE n < x
                <5>1. n \in 1..(x - 1) /\ n \in 1..(l - 1)
                    BY <4>1
                <5>2. t[n] = s[n]
                    BY <2>3, <5>1
                <5> QED
                    BY <2>5, <3>1, <3>2, <5>1, <5>2 DEF IpsSpelled
            <4>2. CASE n = x
                BY <2>2, <4>2
            <4>3. CASE n > x
                <5>1. n - 1 \in x..(l - 1) /\ n - 1 \in 1..(l - 1) /\ (n - 1) + 1 = n
                    BY <4>3
                <5>2. t[n - 1] = s[n]
                    BY <2>3, <5>1
                <5>3. PICK m \in 1..(l - 1) : m = n - 1
                    BY <5>1
                <5>4. t[m] = s[n]
                    BY <5>2, <5>3
                <5> QED
                    BY <2>5, <3>1, <3>2, <5>3, <5>4 DEF IpsSpelled
            <4> QED
                BY <4>1, <4>2, <4>3
        <3> QED
            BY <3>1, <3>2 DEF IpsSpelled
    <2> QED
        BY <2>3, <2>4, <2>5
<1> QED
    BY <1>2, <1>3

LEMMA InFrontSpelled ==
    ASSUME NEW s \in Strings, NEW p \in I!AnyPair
    PROVE  <<p>> \o s \in Strings /\ (IpsSpelled(<<p>> \o s) => IpsSpelled(s))
<1>1. PICK l \in Nat : l = Len(s)
    BY DEF Strings
<1>2. PICK t \in Strings : /\ t = <<p>> \o s /\ Len(t) = l + 1 /\ t[1] = p
                           /\ \A j \in 1..l : t[j + 1] = s[j]
    BY SMTT(40), <1>1, OneInFront
<1>3. DOMAIN s = 1..l /\ DOMAIN t = 1..(l + 1)
    BY <1>1, <1>2 DEF Strings
<1>4. ASSUME IpsSpelled(t), NEW n \in 1..l, s[n].key = "ip" PROVE s[n].exact
    <2>1. PICK m \in 1..(l + 1) : m = n + 1
        OBVIOUS
    <2>2. t[m] = s[n]
        BY <1>2, <2>1
    <2> QED
        BY <1>3, <1>4, <2>1, <2>2 DEF IpsSpelled
<1> QED
    BY <1>2, <1>3, <1>4 DEF IpsSpelled

LEMMA LengthIsANumber == \A s \in Strings : I!Strlen(s) \in Nat
<1> TAKE s \in Strings
<1>1. PICK l \in Nat : l = Len(s)
    BY DEF Strings
<1>2. l \in 0..l
    OBVIOUS
<1> QED
    BY <1>1, <1>2, LengthsUpTo DEF UpTo

\* A key that is set is read as it was set, and the others as before.
LEMMA SetReads ==
    ASSUME NEW s \in Strings, NEW key \in SetKeys, NEW value \in SetValues, NEW r,
           r = I!Info_SetValueForKey(s, key, value)
    PROVE  /\ r.info \in Strings /\ r.ok \in BOOLEAN
           /\ r.ok => I!Info_ValueForKey(r.info, key) = value
           /\ \A other : other # key =>
                I!Info_ValueForKey(r.info, other) = I!Info_ValueForKey(s, other)
           /\ IpsSpelled(r.info) => IpsSpelled(s)
<1>1. PICK p \in I!AnyPair : p = I!Pair(key, TRUE, value) /\ p.key = key /\ p.value = value
    BY PairsTyped DEF SetKeys, SetValues
<1>2. PICK rest \in Strings : /\ rest = I!Info_RemoveKey(s, key)
                              /\ IpsSpelled(rest) => IpsSpelled(s)
    BY RemovedString
<1>3. \A other : other # key =>
        I!Info_ValueForKey(rest, other) = I!Info_ValueForKey(s, other)
    BY <1>2, RemovedReads
<1>4. PICK fits \in BOOLEAN : fits = (I!Strlen(<<p>>) + I!Strlen(rest) < MaxInfo)
    <2>1. I!Strlen(<<p>>) \in Nat /\ I!Strlen(rest) \in Nat
        BY LengthIsANumber, PairLength, Weights
    <2>2. MaxInfo \in Nat
        BY PartsAssumption DEF PartsAssumption, I!InfoConstants
    <2>3. PICK x \in Nat, y \in Nat : x = I!Strlen(<<p>>) /\ y = I!Strlen(rest)
        BY <2>1
    <2>4. (x + y < MaxInfo) \in BOOLEAN
        BY <2>2
    <2> QED
        BY <2>3, <2>4
<1>5. r = [ok |-> fits, info |-> IF fits THEN <<p>> \o rest ELSE rest]
    BY <1>1, <1>2, <1>4, Zenon DEF I!Info_SetValueForKey
<1>6. r.ok = fits /\ r.info = IF fits THEN <<p>> \o rest ELSE rest
    BY <1>5
<1>7. CASE fits
    <2>1. r.info = <<p>> \o rest
        BY <1>6, <1>7
    <2>2. <<p>> \o rest \in Strings /\ (IpsSpelled(<<p>> \o rest) => IpsSpelled(rest))
        BY InFrontSpelled
    <2>3. /\ I!Info_ValueForKey(<<p>> \o rest, p.key) = p.value
          /\ \A other : other # p.key =>
                I!Info_ValueForKey(<<p>> \o rest, other) = I!Info_ValueForKey(rest, other)
        BY FrontIsRead
    <2> QED
        BY <1>1, <1>2, <1>3, <1>6, <2>1, <2>2, <2>3
<1>8. CASE ~fits
    <2>1. r.info = rest
        BY <1>6, <1>8
    <2> QED
        BY <1>2, <1>3, <1>6, <1>8, <2>1
<1> QED
    BY <1>7, <1>8

\* The pairs of a string in which a key is set: those it had, and the new one.
LEMMA SetPairs ==
    ASSUME NEW s \in Strings, NEW key \in SetKeys, NEW value \in SetValues, NEW r,
           r = I!Info_SetValueForKey(s, key, value)
    PROVE  \A n \in DOMAIN r.info :
               \/ r.ok /\ r.info[n].key = key /\ r.info[n].exact
               \/ \E m \in DOMAIN s : r.info[n] = s[m]
<1>1. PICK p \in I!AnyPair : p = I!Pair(key, TRUE, value) /\ p.key = key /\ p.value = value
    BY PairsTyped DEF SetKeys, SetValues
<1>2. p.exact
    BY <1>1 DEF I!Pair
<1>3. PICK l \in Nat : l = Len(s) /\ DOMAIN s = 1..l
    BY DEF Strings
<1>4. PICK rest \in Strings : rest = I!Info_RemoveKey(s, key)
    BY RemovedString
<1>5. \A n \in DOMAIN rest : \E m \in DOMAIN s : rest[n] = s[m]
    <2>1. CASE I!Spelled(s, key) = {}
        BY <1>4, <2>1 DEF I!Info_RemoveKey
    <2>2. CASE I!Spelled(s, key) # {}
        <3>1. I!Spelled(s, key) \in SUBSET Nat
            BY <1>3, PlacesOf
        <3>2. PICK x \in 1..l : x = I!First(I!Spelled(s, key))
            BY <1>3, <2>2, <3>1, FirstPlace, PlacesOf
        <3>3. PICK t \in Strings : /\ t = I!RemoveAt(s, x) /\ Len(t) = l - 1
                                   /\ \A j \in 1..(x - 1) : t[j] = s[j]
                                   /\ \A j \in x..(l - 1) : t[j] = s[j + 1]
            BY <1>3, OneRemoved
        <3>4. rest = t /\ DOMAIN t = 1..(l - 1)
            BY <1>4, <2>2, <3>2, <3>3 DEF I!Info_RemoveKey, Strings
        <3>5. ASSUME NEW n \in 1..(l - 1) PROVE \E m \in 1..l : t[n] = s[m]
            <4>1. CASE n < x
                <5>1. n \in 1..(x - 1) /\ n \in 1..l
                    BY <3>5, <4>1
                <5> QED
                    BY <3>3, <5>1
            <4>2. CASE ~(n < x)
                <5>1. n \in x..(l - 1) /\ n + 1 \in 1..l
                    BY <3>5, <4>2
                <5> QED
                    BY <3>3, <5>1
            <4> QED
                BY <4>1, <4>2
        <3> QED
            BY <1>3, <3>4, <3>5
    <2> QED
        BY <2>1, <2>2
<1>6. PICK k \in Nat : k = Len(rest) /\ DOMAIN rest = 1..k
    BY DEF Strings
<1>7. PICK t \in Strings : /\ t = <<p>> \o rest /\ Len(t) = k + 1 /\ t[1] = p
                           /\ \A j \in 1..k : t[j + 1] = rest[j]
    BY SMTT(40), <1>6, OneInFront
<1>8. \A n \in DOMAIN t : t[n] = p \/ \E m \in DOMAIN s : t[n] = s[m]
    <2>1. DOMAIN t = 1..(k + 1)
        BY <1>7 DEF Strings
    <2>2. ASSUME NEW n \in 1..(k + 1), n # 1 PROVE \E m \in DOMAIN s : t[n] = s[m]
        <3>1. PICK j \in 1..k : j + 1 = n
            <4>1. n - 1 \in 1..k /\ (n - 1) + 1 = n
                BY <2>2
            <4> QED
                BY <4>1
        <3>2. t[n] = rest[j]
            BY <1>7, <3>1
        <3> QED
            BY <1>5, <1>6, <3>2
    <2> QED
        BY <1>7, <2>1, <2>2
<1>9. PICK fits : fits = (I!Strlen(<<p>>) + I!Strlen(rest) < MaxInfo)
    OBVIOUS
<1>10. r = [ok |-> fits, info |-> IF fits THEN <<p>> \o rest ELSE rest]
    BY <1>1, <1>4, <1>9, Zenon DEF I!Info_SetValueForKey
<1>11. r.ok = fits /\ r.info = IF fits THEN t ELSE rest
    BY <1>7, <1>10
<1>12. CASE fits
    <2>1. r.ok /\ r.info = t
        BY <1>11, <1>12
    <2>2. ASSUME NEW n \in DOMAIN t
          PROVE  \/ r.ok /\ t[n].key = key /\ t[n].exact
                 \/ \E m \in DOMAIN s : t[n] = s[m]
        <3>1. CASE t[n] = p
            BY <1>1, <1>2, <2>1, <3>1
        <3>2. CASE t[n] # p
            BY <1>8, <3>2
        <3> QED
            BY <3>1, <3>2
    <2> QED
        BY <2>1, <2>2
<1>13. CASE ~fits
    <2>1. r.info = rest
        BY <1>11, <1>13
    <2> QED
        BY <1>5, <2>1
<1> QED
    BY <1>12, <1>13

\* How "ip" is spelled in such a string.
LEMMA SetSpelling ==
    ASSUME NEW s \in Strings, NEW key \in SetKeys, NEW value \in SetValues, NEW r,
           r = I!Info_SetValueForKey(s, key, value)
    PROVE  /\ IpsSpelled(s) => IpsSpelled(r.info)
           /\ NoneSpelled(s) /\ (key # "ip" \/ ~r.ok) => NoneSpelled(r.info)
<1>1. \A n \in DOMAIN r.info :
          \/ r.ok /\ r.info[n].key = key /\ r.info[n].exact
          \/ \E m \in DOMAIN s : r.info[n] = s[m]
    BY SetPairs
<1> QED
    BY <1>1 DEF IpsSpelled, NoneSpelled

\* The address of the connection has room when the length says so.
LEMMA RoomForIp ==
    ASSUME NEW s \in Strings, IpsSpelled(s), I!LengthWithIp(s) < MaxInfo
    PROVE  I!Info_SetValueForKey(s, "ip", "own").ok
<1>1. PICK l \in Nat : l = Len(s)
    BY DEF Strings
<1>2. PICK p \in I!AnyPair : p = I!Pair("ip", TRUE, "own") /\ p.value = "own"
    BY PairsTyped
<1>3. I!Length["own"] = 2
    BY DEF I!Length
<1>4. I!Strlen(<<p>>) = 3
    <2>1. I!Strlen(<<p>>) = Weight(p)
        BY PairLength
    <2>2. Weight(p) = 1 + 2
        BY <1>2, <1>3 DEF Weight
    <2> QED
        BY <2>1, <2>2
<1>5. I!Strlen(s) \in Nat
    BY LengthIsANumber
<1>6. MaxInfo \in Nat
    BY PartsAssumption DEF PartsAssumption, I!InfoConstants
<1>7. SUFFICES I!Strlen(<<p>>) + I!Strlen(I!Info_RemoveKey(s, "ip")) < MaxInfo
    BY <1>2 DEF I!Info_SetValueForKey
<1>8. DOMAIN s = 1..l
    BY <1>1 DEF Strings
<1>9. I!Spelled(s, "ip") = I!Named(s, "ip")
    BY <1>1, <1>8 DEF I!Spelled, I!Named, IpsSpelled
<1>10. CASE \A n \in 1..l : s[n].key # "ip"
    <2>1. I!Named(s, "ip") = {}
        BY <1>8, <1>10 DEF I!Named
    <2>2. I!Info_RemoveKey(s, "ip") = s
        BY <1>9, <2>1 DEF I!Info_RemoveKey
    <2>3. I!Info_ValueForKey(s, "ip") = I!NoValue
        BY <2>1 DEF I!Info_ValueForKey
    <2>4. I!LengthWithIp(s) = I!Strlen(s) + 1 + I!Length["own"]
        BY <2>3 DEF I!LengthWithIp
    <2>5. PICK k \in Nat : k = I!Strlen(s)
        BY <1>5
    <2> QED
        BY <1>3, <1>4, <1>6, <2>2, <2>4, <2>5
<1>11. CASE \E n \in 1..l : /\ s[n].key = "ip" /\ I!Info_ValueForKey(s, "ip") = s[n].value
                           /\ n = I!First(I!Named(s, "ip"))
    <2>1. PICK n \in 1..l : /\ s[n].key = "ip" /\ I!Info_ValueForKey(s, "ip") = s[n].value
                            /\ n = I!First(I!Named(s, "ip"))
        BY <1>11
    <2>2. I!Named(s, "ip") # {}
        BY <1>8, <2>1 DEF I!Named
    <2>3. I!Info_RemoveKey(s, "ip") = I!RemoveAt(s, n)
        BY <1>9, <2>1, <2>2 DEF I!Info_RemoveKey
    <2>4. s[n] \in I!AnyPair
        BY <1>1, <2>1 DEF Strings
    <2>5. s[n].value \in DOMAIN I!Length
        BY <2>4 DEF I!AnyPair
    <2>6. PICK w \in Nat : w = I!Length[s[n].value]
        BY <2>5, Lengths
    <2>7. PICK k \in Nat : k = I!Strlen(s)
        BY <1>5
    <2>8. I!Strlen(I!Info_RemoveKey(s, "ip")) = k - (1 + w)
        BY <1>1, <2>1, <2>3, <2>6, <2>7, RemovedLength DEF Weight
    <2>9. s[n].value # I!NoValue
        BY <2>5 DEF I!Length, I!NoValue
    <2>10. I!LengthWithIp(s) = k - w + 2
        BY <1>3, <2>1, <2>6, <2>7, <2>9 DEF I!LengthWithIp
    <2> QED
        BY <1>4, <1>6, <2>8, <2>10
<1> QED
    BY <1>1, <1>10, <1>11, ValueOrNone

-----------------------------------------------------------------------------
(* What becomes of a client's string *)

\* Sanitize replaces the name and a bad model, and no address.
LEMMA SanitizedReads ==
    ASSUME NEW s \in Strings, NEW r, r = I!Sanitize(s)
    PROVE  /\ r.info \in Strings /\ r.ok \in BOOLEAN
           /\ r.ok => /\ I!Info_ValueForKey(r.info, "name") = "clean"
                      /\ ~I!BadModel(r.info)
                      /\ I!Info_ValueForKey(r.info, "ip") = I!Info_ValueForKey(s, "ip")
                      /\ OneIp(s)
                      /\ IpsSpelled(s) => IpsSpelled(r.info)
                      /\ NoneSpelled(s) => NoneSpelled(r.info)
<1>1. PICK named : named = I!Info_SetValueForKey(s, "name", "clean")
    OBVIOUS
<1>2. /\ named.info \in Strings /\ named.ok \in BOOLEAN
      /\ named.ok => I!Info_ValueForKey(named.info, "name") = "clean"
      /\ \A other : other # "name" =>
            I!Info_ValueForKey(named.info, other) = I!Info_ValueForKey(s, other)
      /\ IpsSpelled(s) => IpsSpelled(named.info)
      /\ NoneSpelled(s) => NoneSpelled(named.info)
    BY <1>1, SetReads, SetSpelling DEF SetKeys, SetValues
<1>3. PICK t \in Strings : t = named.info
    BY <1>2
<1>4. PICK kyle : kyle = I!Info_SetValueForKey(t, "model", "kyle")
    OBVIOUS
<1>5. /\ kyle.info \in Strings /\ kyle.ok \in BOOLEAN
      /\ kyle.ok => I!Info_ValueForKey(kyle.info, "model") = "kyle"
      /\ \A other : other # "model" =>
            I!Info_ValueForKey(kyle.info, other) = I!Info_ValueForKey(t, other)
      /\ IpsSpelled(t) => IpsSpelled(kyle.info)
      /\ NoneSpelled(t) => NoneSpelled(kyle.info)
    BY <1>4, SetReads, SetSpelling DEF SetKeys, SetValues
<1>6. r = IF ~I!Validate(s) \/ ~named.ok THEN [ok |-> FALSE, info |-> s]
          ELSE IF I!BadModel(t) THEN kyle ELSE named
    BY <1>1, <1>3, <1>4, Zenon DEF I!Sanitize
<1>7. CASE ~I!Validate(s) \/ ~named.ok
    <2>1. r = [ok |-> FALSE, info |-> s]
        BY <1>6, <1>7
    <2> QED
        BY <2>1
<1>8. CASE ~(~I!Validate(s) \/ ~named.ok) /\ I!BadModel(t)
    <2>1. r = kyle
        BY <1>6, <1>8
    <2>2. kyle.ok => ~I!BadModel(kyle.info)
        BY <1>5 DEF I!BadModel
    <2> QED
        BY <1>2, <1>3, <1>5, <1>8, <2>1, <2>2, ValidatedOneIp
<1>9. CASE ~(~I!Validate(s) \/ ~named.ok) /\ ~I!BadModel(t)
    <2>1. r = named
        BY <1>6, <1>9
    <2> QED
        BY <1>2, <1>3, <1>9, <2>1, ValidatedOneIp
<1> QED
    BY <1>7, <1>8, <1>9

\* SV_UserinfoChanged replaces the address and a bad model, and no name.
LEMMA ChangedReads ==
    ASSUME NEW s \in Strings, NEW r, r = I!SV_UserinfoChanged(s)
    PROVE  /\ r.info \in Strings /\ r.ok \in BOOLEAN
           /\ r.ok => /\ I!Info_ValueForKey(r.info, "name") = I!Info_ValueForKey(s, "name")
                      /\ ~I!BadModel(r.info)
                      /\ IpsSpelled(s) \/ IpsSpelled(r.info)
                            => I!Info_ValueForKey(r.info, "ip") = "own"
                      /\ NoneSpelled(s) => \/ I!Info_ValueForKey(r.info, "ip") = "own"
                                           \/ NoneSpelled(r.info)
<1>1. PICK set : set = I!Info_SetValueForKey(s, "ip", "own")
    OBVIOUS
<1>2. /\ set.info \in Strings /\ set.ok \in BOOLEAN
      /\ set.ok => I!Info_ValueForKey(set.info, "ip") = "own"
      /\ \A other : other # "ip" =>
            I!Info_ValueForKey(set.info, other) = I!Info_ValueForKey(s, other)
      /\ IpsSpelled(set.info) => IpsSpelled(s)
      /\ NoneSpelled(s) /\ ~set.ok => NoneSpelled(set.info)
    BY <1>1, SetReads, SetSpelling DEF SetKeys, SetValues
<1>3. PICK own \in Strings : own = set.info
    BY <1>2
<1>4. PICK kyle : kyle = I!Info_SetValueForKey(own, "model", "kyle")
    OBVIOUS
<1>5. /\ kyle.info \in Strings /\ kyle.ok \in BOOLEAN
      /\ kyle.ok => I!Info_ValueForKey(kyle.info, "model") = "kyle"
      /\ \A other : other # "model" =>
            I!Info_ValueForKey(kyle.info, other) = I!Info_ValueForKey(own, other)
      /\ IpsSpelled(kyle.info) => IpsSpelled(own)
      /\ NoneSpelled(own) => NoneSpelled(kyle.info)
    BY <1>4, SetReads, SetSpelling DEF SetKeys, SetValues
<1>6. r = IF I!LengthWithIp(s) >= MaxInfo THEN [ok |-> FALSE, info |-> s]
          ELSE IF I!BadModel(own) THEN kyle ELSE [ok |-> TRUE, info |-> own]
    BY <1>1, <1>3, <1>4, Zenon DEF I!SV_UserinfoChanged
<1>7. CASE I!LengthWithIp(s) >= MaxInfo
    <2>1. r = [ok |-> FALSE, info |-> s]
        BY <1>6, <1>7
    <2> QED
        BY <2>1
<1>8. ASSUME I!LengthWithIp(s) < MaxInfo
      PROVE  /\ IpsSpelled(s) \/ IpsSpelled(own) => I!Info_ValueForKey(own, "ip") = "own"
             /\ NoneSpelled(s) => I!Info_ValueForKey(own, "ip") = "own" \/ NoneSpelled(own)
    BY <1>1, <1>2, <1>3, <1>8, RoomForIp
<1>9. ~(I!LengthWithIp(s) >= MaxInfo) => I!LengthWithIp(s) < MaxInfo
    <2>1. MaxInfo \in Nat
        BY PartsAssumption DEF PartsAssumption, I!InfoConstants
    <2>2. PICK l \in Nat : l = Len(s)
        BY DEF Strings
    <2>3. I!Strlen(s) \in Nat
        BY LengthIsANumber
    <2>4. I!Info_ValueForKey(s, "ip") # I!NoValue =>
            I!Length[I!Info_ValueForKey(s, "ip")] \in Nat
        <3>1. \A n \in 1..l : s[n] \in I!AnyPair
            BY <2>2 DEF Strings
        <3>2. \A n \in 1..l : s[n].value \in DOMAIN I!Length
            BY <3>1 DEF I!AnyPair
        <3>3. \A n \in 1..l : I!Length[s[n].value] \in Nat
            BY <3>2, Lengths
        <3> QED
            BY <2>2, <3>3, ValueOrNone
    <2>5. I!LengthWithIp(s) \in Int
        <3>1. I!Length["own"] = 2
            BY DEF I!Length
        <3> QED
            BY <2>3, <2>4, <3>1 DEF I!LengthWithIp
    <2> QED
        BY <2>1, <2>5
<1>10. CASE ~(I!LengthWithIp(s) >= MaxInfo) /\ I!BadModel(own)
    <2>1. r = kyle
        BY <1>6, <1>10
    <2>2. kyle.ok => ~I!BadModel(kyle.info)
        BY <1>5 DEF I!BadModel
    <2>3. I!Info_ValueForKey(kyle.info, "name") = I!Info_ValueForKey(s, "name")
        BY <1>2, <1>3, <1>5
    <2>4. /\ IpsSpelled(s) \/ IpsSpelled(kyle.info) => I!Info_ValueForKey(kyle.info, "ip") = "own"
          /\ NoneSpelled(s) => \/ I!Info_ValueForKey(kyle.info, "ip") = "own"
                               \/ NoneSpelled(kyle.info)
        BY <1>5, <1>8, <1>9, <1>10
    <2> QED
        BY <1>5, <2>1, <2>2, <2>3, <2>4
<1>11. CASE ~(I!LengthWithIp(s) >= MaxInfo) /\ ~I!BadModel(own)
    <2>1. r = [ok |-> TRUE, info |-> own]
        BY <1>6, <1>11
    <2>2. r.ok = TRUE /\ r.info = own
        BY <2>1
    <2> QED
        BY <1>2, <1>3, <1>8, <1>9, <1>11, <2>2
<1> QED
    BY <1>7, <1>10, <1>11

-----------------------------------------------------------------------------
(* The client *)

InReads(s) ==
    /\ I!Info_ValueForKey(s, "name") = "clean"
    /\ ~I!BadModel(s)
    /\ \/ I!Info_ValueForKey(s, "ip") = "own"
       \/ I!Info_ValueForKey(s, "ip") # I!NoValue /\ NoneSpelled(s)

LEMMA InfoInvIs ==
    InfoInv <=> /\ info \in Strings
                /\ client \in {"free", "connecting", "changing", "in"}
                /\ client = "in" => InReads(info)
<1>1. info \in Strings =>
          (InReads(info) <=>
              /\ I!Info_ValueForKey(info, "name") = "clean"
              /\ ~I!BadModel(info)
              /\ \/ I!Info_ValueForKey(info, "ip") = "own"
                 \/ I!Named(info, "ip") # {} /\ I!Spelled(info, "ip") = {})
    BY IpRead DEF InReads
<1> QED
    BY <1>1 DEF InfoInv, ReadAsSet, I!ReadAsSet, I!ReadsSanitized, I!IpOwnOrWritten

\* The same of the next state.
LEMMA InfoInvNext ==
    ASSUME info' \in Strings, client' \in {"free", "connecting", "changing", "in"},
           client' = "in" => InReads(info')
    PROVE  InfoInv'
<1>1. PICK s \in Strings : s = info'
    OBVIOUS
<1>2. client' = "in" =>
          /\ I!Info_ValueForKey(s, "name") = "clean"
          /\ ~I!BadModel(s)
          /\ \/ I!Info_ValueForKey(s, "ip") = "own"
             \/ I!Named(s, "ip") # {} /\ I!Spelled(s, "ip") = {}
    BY <1>1, IpRead DEF InReads
<1> QED
    BY <1>1, <1>2 DEF InfoInv, ReadAsSet, I!ReadAsSet, I!ReadsSanitized, I!IpOwnOrWritten,
       I!Info_ValueForKey, I!BadModel, I!Named, I!Spelled, I!First

LEMMA NoPairs == <<>> \in Strings
BY DEF Strings

LEMMA InWithInv ==
    ASSUME NEW r, I!InWith(r), r.ok \in BOOLEAN, r.ok => r.info \in Strings /\ InReads(r.info)
    PROVE  InfoInv'
<1>1. CASE r.ok
    <2>1. client' = "in" /\ info' = r.info
        BY <1>1 DEF I!InWith
    <2>2. info' \in Strings /\ InReads(info')
        BY <1>1, <2>1
    <2> QED
        BY <2>1, <2>2, InfoInvNext
<1>2. CASE ~r.ok
    <2>1. client' = "free" /\ info' = <<>>
        BY <1>2 DEF I!InWith
    <2> QED
        BY <2>1, NoPairs, InfoInvNext
<1> QED
    BY <1>1, <1>2

LEMMA InfoNext ==
    ASSUME InfoInv, I!Next
    PROVE  InfoInv'
<1>1. /\ info \in Strings
      /\ client = "in" => InReads(info)
    BY InfoInvIs
<1>2. CASE I!Write \/ I!Leave
    <2>1. info' = <<>> /\ client' \in {"free", "connecting", "changing"}
        BY <1>2 DEF I!Write, I!Leave
    <2> QED
        BY <2>1, NoPairs, InfoInvNext
<1>3. ASSUME NEW pair \in I!Pairs, I!Type(pair) PROVE InfoInv'
    <2>1. pair \in I!AnyPair
        BY DEF I!Pairs
    <2>2. client' \in {"connecting", "changing"} /\ info' = Append(info, pair)
        BY <1>3 DEF I!Type
    <2>3. info' \in Strings
        BY <1>1, <2>1, <2>2 DEF Strings
    <2> QED
        BY <2>2, <2>3, InfoInvNext
<1>4. CASE I!Connect
    <2>1. PICK set : set = I!Info_SetValueForKey(info, "ip", "own")
        OBVIOUS
    <2>2. PICK start \in Strings : start = set.info
        BY <1>1, <2>1, SetReads DEF SetKeys, SetValues
    <2>3. PICK clean : clean = I!Sanitize(start)
        OBVIOUS
    <2>4. /\ clean.info \in Strings /\ clean.ok \in BOOLEAN
          /\ clean.ok => /\ I!Info_ValueForKey(clean.info, "name") = "clean"
                         /\ OneIp(start)
                         /\ IpsSpelled(start) => IpsSpelled(clean.info)
                         /\ NoneSpelled(start) => NoneSpelled(clean.info)
        BY <2>3, SanitizedReads
    <2>5. PICK s \in Strings : s = clean.info
        BY <2>4
    <2>6. PICK changed : changed = I!SV_UserinfoChanged(s)
        OBVIOUS
    <2>7. /\ changed.info \in Strings /\ changed.ok \in BOOLEAN
          /\ changed.ok =>
                /\ I!Info_ValueForKey(changed.info, "name") = I!Info_ValueForKey(s, "name")
                /\ ~I!BadModel(changed.info)
                /\ IpsSpelled(s) \/ IpsSpelled(changed.info)
                      => I!Info_ValueForKey(changed.info, "ip") = "own"
                /\ NoneSpelled(s) => \/ I!Info_ValueForKey(changed.info, "ip") = "own"
                                     \/ NoneSpelled(changed.info)
        BY <2>6, ChangedReads
    <2>8. PICK r : /\ r = IF I!Info_ValueForKey(start, "ip") = I!NoValue \/ ~clean.ok
                          THEN [ok |-> FALSE, info |-> <<>>] ELSE changed
                   /\ I!InWith(r)
        BY <1>4, <2>1, <2>2, <2>3, <2>5, <2>6, Zenon DEF I!Connect
    <2>9. r.ok \in BOOLEAN /\ (r.ok => r.info \in Strings /\ InReads(r.info))
        <3>1. CASE I!Info_ValueForKey(start, "ip") = I!NoValue \/ ~clean.ok
            <4>1. r = [ok |-> FALSE, info |-> <<>>]
                BY <2>8, <3>1
            <4> QED
                BY <4>1
        <3>2. CASE ~(I!Info_ValueForKey(start, "ip") = I!NoValue \/ ~clean.ok)
            <4>1. r = changed
                BY <2>8, <3>2
            <4>2. IpsSpelled(start) \/ NoneSpelled(start)
                BY <2>4, <3>2, OneSpelling
            <4>3. ASSUME changed.ok PROVE InReads(changed.info)
                <5>1. I!Info_ValueForKey(changed.info, "ip") = I!NoValue
                        => I!Info_ValueForKey(changed.info, "ip") = "own"
                    BY <2>7, <4>3, IpRead
                <5> QED
                    BY <2>4, <2>5, <2>7, <3>2, <4>2, <4>3, <5>1 DEF InReads
            <4> QED
                BY <2>7, <4>1, <4>3
        <3> QED
            BY <3>1, <3>2
    <2> QED
        BY <2>8, <2>9, InWithInv
<1>5. CASE I!UserinfoCommand
    <2>1. PICK changed : changed = I!SV_UserinfoChanged(info)
        OBVIOUS
    <2>2. /\ changed.info \in Strings /\ changed.ok \in BOOLEAN
          /\ changed.ok =>
                (IpsSpelled(changed.info) => I!Info_ValueForKey(changed.info, "ip") = "own")
        BY <1>1, <2>1, ChangedReads
    <2>3. PICK s \in Strings : s = changed.info
        BY <2>2
    <2>4. PICK clean : clean = I!Sanitize(s)
        OBVIOUS
    <2>5. /\ clean.info \in Strings /\ clean.ok \in BOOLEAN
          /\ clean.ok => /\ I!Info_ValueForKey(clean.info, "name") = "clean"
                         /\ ~I!BadModel(clean.info)
                         /\ I!Info_ValueForKey(clean.info, "ip") = I!Info_ValueForKey(s, "ip")
                         /\ OneIp(s) /\ (NoneSpelled(s) => NoneSpelled(clean.info))
        BY <2>4, SanitizedReads
    <2>6. PICK r : r = (IF changed.ok THEN clean ELSE changed) /\ I!InWith(r)
        BY <1>5, <2>1, <2>3, <2>4, Zenon DEF I!UserinfoCommand
    <2>7. r.ok \in BOOLEAN /\ (r.ok => r.info \in Strings /\ InReads(r.info))
        <3>1. CASE changed.ok
            <4>1. r = clean
                BY <2>6, <3>1
            <4>2. ASSUME clean.ok PROVE InReads(clean.info)
                <5>1. IpsSpelled(s) \/ NoneSpelled(s)
                    BY <2>5, <4>2, OneSpelling
                <5>2. I!Info_ValueForKey(s, "ip") = I!NoValue => IpsSpelled(s)
                    BY IpRead
                <5>3. IpsSpelled(s) => I!Info_ValueForKey(s, "ip") = "own"
                    BY <2>2, <2>3, <3>1
                <5> QED
                    BY <2>5, <4>2, <5>1, <5>2, <5>3 DEF InReads
            <4> QED
                BY <2>5, <4>1, <4>2
        <3>2. CASE ~changed.ok
            <4>1. r = changed
                BY <2>6, <3>2
            <4> QED
                BY <2>2, <3>2, <4>1
        <3> QED
            BY <3>1, <3>2
    <2> QED
        BY <2>6, <2>7, InWithInv
<1>6. CASE I!MapChange
    <2>1. PICK clean : clean = I!Sanitize(info)
        OBVIOUS
    <2>2. /\ clean.info \in Strings /\ clean.ok \in BOOLEAN
          /\ clean.ok => /\ I!Info_ValueForKey(clean.info, "name") = "clean"
                         /\ ~I!BadModel(clean.info)
                         /\ I!Info_ValueForKey(clean.info, "ip") = I!Info_ValueForKey(info, "ip")
                         /\ NoneSpelled(info) => NoneSpelled(clean.info)
        <3>1. PICK s \in Strings : s = info
            BY <1>1
        <3>2. clean = I!Sanitize(s)
            BY <2>1, <3>1
        <3> QED
            BY <3>1, <3>2, SanitizedReads
    <2>3. PICK r : /\ r = IF I!Info_ValueForKey(info, "ip") = I!NoValue
                          THEN [ok |-> FALSE, info |-> <<>>] ELSE clean
                   /\ I!InWith(r)
        BY <1>6, <2>1, Zenon DEF I!MapChange
    <2>4. InReads(info)
        BY <1>1, <1>6 DEF I!MapChange
    <2>5. r.ok \in BOOLEAN /\ (r.ok => r.info \in Strings /\ InReads(r.info))
        <3>1. CASE I!Info_ValueForKey(info, "ip") = I!NoValue
            <4>1. r = [ok |-> FALSE, info |-> <<>>]
                BY <2>3, <3>1
            <4> QED
                BY <4>1
        <3>2. CASE I!Info_ValueForKey(info, "ip") # I!NoValue
            <4>1. r = clean
                BY <2>3, <3>2
            <4> QED
                BY <2>2, <2>4, <4>1 DEF InReads
        <3> QED
            BY <3>1, <3>2
    <2> QED
        BY <2>3, <2>5, InWithInv
<1> QED
    BY <1>2, <1>3, <1>4, <1>5, <1>6 DEF I!Next

\* What the game and the engine read of a client that is in is what the server has set,
\* in whatever order, number and spelling the client sends its keys, and however
\* little room there is (Sanitize and SV_UserinfoChanged, Features/Userinfo.cpp).
THEOREM StringsReadAsSet == MCSpec => []ReadAsSet
<1>1. MCInit => InfoInv
    <2>1. MCInit => info = <<>> /\ client = "free"
        BY DEF MCInit, I!Init
    <2> QED
        BY <2>1, NoPairs, InfoInvIs
<1>2. InfoInv /\ [MCNext]_<<part, vars, userinfoVars, infoVars>> => InfoInv'
    <2>1. ASSUME InfoInv, UNCHANGED infoVars PROVE InfoInv'
        <3>1. info' = info /\ client' = client
            BY <2>1 DEF infoVars
        <3> QED
            BY <2>1, <3>1, InfoInvIs, InfoInvNext
    <2> QED
        BY <2>1, InfoNext DEF MCNext
<1>3. InfoInv => ReadAsSet
    BY DEF InfoInv
<1> QED
    BY <1>1, <1>2, <1>3, PTL DEF MCSpec
=============================================================================
